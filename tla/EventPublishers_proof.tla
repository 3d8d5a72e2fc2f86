----------------------- MODULE EventPublishers_proof -----------------------
(***************************************************************************)
(* Proofs about the two publishers of events of the repository.  The first *)
(* part is about UPnPModeratedStateVariable, for any set of writers and    *)
(* any number of calls; the second about DVEventing, for any set of        *)
(* subscribers, any bound of the list and any number of calls.  The two    *)
(* modules share no name, and no proof uses both.                          *)
(***************************************************************************)
EXTENDS UPnPModeratedStateVariable, DVEventing, SequenceTheorems, TLAPS
(***************************************************************************)
(* The inductive invariant.                                                *)
(***************************************************************************)
\* Who holds the lock in base.Value, and what it has published by then.
HolderInside ==
  /\ holder \in Writer => pc[holder] = "moderated" /\ PendingObject \subseteq nested
  /\ holder = Sink => PendingEvents > 1 /\ PendingObject \subseteq published \cup nested
  /\ holder # None => PendingEvents > 0

\* Only merging fills PendingObject.
MergedOnly == PendingEvents <= 1 => PendingObject = {}

\* After a failure no period ever ends: the variable stays as it is.
Wedged == failed => holder = None /\ PendingEvents > 0

\* Every event is counted for a period; the one that is sent at the end of a running
\* period is reserved by its timer.
EventsCounted ==
  IF failed THEN events <= 2 * periods + 1
            ELSE events + Timers <= 2 * periods + (IF holder \in Writer THEN 1 ELSE 0)

IInv ==
  /\ TypeOK /\ OnePeriod /\ NothingLost
  /\ HolderInside /\ MergedOnly /\ Wedged /\ EventsCounted
  /\ nested \subseteq 1..updates

----------------------------------------------------------------------------
\* No step takes a variable out of its type.
LEMMA TypeStep == TypeOK /\ [Next]_vars => TypeOK'
<1> SUFFICES ASSUME TypeOK, [Next]_vars PROVE TypeOK'
  OBVIOUS
<1> USE ModerationAssumption
<1>1. ASSUME NEW s \in {0, 1}, SetModerationPeriod(s) PROVE TypeOK'
  BY <1>1 DEF SetModerationPeriod, Call, TypeOK, history
<1>2. ASSUME NEW w \in Writer, SetValue(w) PROVE TypeOK'
  BY <1>2 DEF SetValue, Call, TypeOK, history, variable
<1>3. ASSUME NEW w \in Writer, SetValueDirect(w) PROVE TypeOK'
  <2>1. updates + 1 \in Nat
    BY DEF TypeOK
  <2>2. updates' \in Nat /\ published' \subseteq Nat /\ CurrentValue' \subseteq Nat
    BY <1>3, <2>1 DEF SetValueDirect, Publish, TypeOK
  <2>. QED
    BY <1>3, <2>2 DEF SetValueDirect, TypeOK
<1>4. ASSUME NEW w \in Writer, SetValueFirst(w) PROVE TypeOK'
  <2>1. updates + 1 \in Nat /\ events + 1 \in Nat
    BY DEF TypeOK
  <2>2. /\ updates' \in Nat /\ published' \subseteq Nat /\ CurrentValue' \subseteq Nat
        /\ events' \in Nat
    BY <1>4, <2>1 DEF SetValueFirst, Publish, TypeOK
  <2>3. failed' \in BOOLEAN
    BY <1>4 DEF SetValueFirst, TypeOK
  <2>. QED
    BY <1>4, <2>2, <2>3 DEF SetValueFirst, TypeOK
<1>5. ASSUME NEW w \in Writer, SetValueFirstEnd(w) PROVE TypeOK'
  BY <1>5 DEF SetValueFirstEnd, TypeOK
<1>6. ASSUME NEW w \in Writer, SetValueMerge(w) PROVE TypeOK'
  BY <1>6 DEF SetValueMerge, TypeOK
<1>7. CASE HandlerSetValue
  <2>1. updates + 1 \in Nat
    BY DEF TypeOK
  <2>2. /\ updates' \in Nat /\ published' \subseteq Nat /\ CurrentValue' \subseteq Nat
        /\ nested' \subseteq Nat /\ PendingObject' \subseteq Nat
    BY <1>7, <2>1 DEF HandlerSetValue, Publish, TypeOK
  <2>. QED
    BY <1>7, <2>2 DEF HandlerSetValue, Call, TypeOK
<1>8. CASE HandlerThrows
  BY <1>8 DEF HandlerThrows, TypeOK, variable
<1>9. CASE Expire
  <2>1. clock' \in BOOLEAN
    BY <1>9 DEF Expire
  <2>. QED
    BY <1>9, <2>1 DEF Expire, TypeOK, variable, history
<1>10. CASE LifeTimeSink
  <2>1. failed' \in BOOLEAN
    BY <1>10 DEF LifeTimeSink, TypeOK
  <2>2. /\ PendingEvents' \in Nat /\ expired' \in Nat /\ events' \in Nat
        /\ PendingObject' \subseteq Nat /\ CurrentValue' \subseteq Nat
        /\ published' \subseteq Nat
    <3>1. PendingEvents' \in Nat /\ expired' \in Nat /\ events' \in Nat
      BY <1>10 DEF LifeTimeSink, TypeOK
    <3>2. PendingObject' \subseteq Nat
      BY <1>10 DEF LifeTimeSink, TypeOK
    <3>3. CurrentValue' \subseteq Nat
      BY <1>10 DEF LifeTimeSink, Publish, TypeOK
    <3>4. published' \subseteq Nat
      BY <1>10 DEF LifeTimeSink, Publish, TypeOK
    <3>. QED
      BY <3>1, <3>2, <3>3, <3>4
  <2>3. holder' \in Writer \cup {Sink, None}
    BY <1>10 DEF LifeTimeSink, TypeOK
  <2>. QED
    BY <1>10, <2>1, <2>2, <2>3 DEF LifeTimeSink, TypeOK
<1>11. CASE LifeTimeSinkEnd
  BY <1>11 DEF LifeTimeSinkEnd, TypeOK, history
<1>12. CASE UNCHANGED vars
  BY <1>12 DEF vars, variable, history, TypeOK
<1>. QED
  BY <1>1, <1>2, <1>3, <1>4, <1>5, <1>6, <1>7, <1>8, <1>9, <1>10, <1>11, <1>12
     DEF Next, Setter, PeriodEnd

LEMMA InvariantInit == Init => IInv
<1> SUFFICES ASSUME Init PROVE IInv
  OBVIOUS
<1> USE ModerationAssumption DEF Init
<1>1. TypeOK
  <2>1. clock \in BOOLEAN /\ failed \in BOOLEAN
    OBVIOUS
  <2>2. Seconds \in {0, 1} /\ calls \in 0..MaxCalls
    OBVIOUS
  <2>. QED
    BY <2>1, <2>2 DEF TypeOK
<1>2. OnePeriod /\ EventsCounted
  <2>1. Timers = 0
    BY DEF Timers
  <2>. QED
    BY <2>1 DEF OnePeriod, EventsCounted
<1>3. NothingLost /\ nested \subseteq 1..updates
  BY DEF NothingLost
<1>4. HolderInside /\ MergedOnly /\ Wedged
  BY DEF HolderInside, MergedOnly, Wedged
<1>. QED
  BY <1>1, <1>2, <1>3, <1>4 DEF IInv

LEMMA InvariantStep == IInv /\ [Next]_vars => IInv'
<1> SUFFICES ASSUME IInv, [Next]_vars PROVE IInv'
  OBVIOUS
<1>. TypeOK /\ TypeOK'
  BY TypeStep DEF IInv
<1> USE ModerationAssumption
<1> USE DEF IInv, TypeOK, OnePeriod, Timers, NothingLost, HolderInside, MergedOnly,
            Wedged, EventsCounted
<1>1. ASSUME NEW s \in {0, 1}, SetModerationPeriod(s) PROVE IInv'
  BY <1>1 DEF SetModerationPeriod, history
<1>2. ASSUME NEW w \in Writer, SetValue(w) PROVE IInv'
  BY <1>2 DEF SetValue, history, variable
<1>3. ASSUME NEW w \in Writer, SetValueDirect(w) PROVE IInv'
  BY <1>3 DEF SetValueDirect, Publish
<1>4. ASSUME NEW w \in Writer, SetValueFirst(w) PROVE IInv'
  <2>1. ~failed /\ Timers = 0 /\ PendingObject = {}
    BY <1>4 DEF SetValueFirst
  <2>2. CASE holder' = w
    <3>1. /\ ~failed' /\ pc' = pc /\ updates' = updates + 1 /\ events' = events + 1
          /\ published' = published \cup {updates + 1} /\ PendingEvents' = 1
          /\ UNCHANGED <<PendingObject, clock, expired, nested, periods>>
      BY <1>4, <2>1, <2>2 DEF SetValueFirst, Publish
    <3>2. pc[w] = "moderated" /\ events <= 2 * periods
      BY <1>4, <2>1 DEF SetValueFirst
    <3>3. Timers' = 0
      BY <2>1, <3>1
    <3>4. OnePeriod' /\ MergedOnly' /\ Wedged' /\ EventsCounted'
      BY <2>1, <2>2, <3>1, <3>2, <3>3
    <3>5. NothingLost' /\ (nested \subseteq 1..updates)'
      BY <2>1, <2>2, <3>1
    <3>6. HolderInside'
      BY <2>1, <2>2, <3>1, <3>2
    <3>. QED
      BY <3>4, <3>5, <3>6
  <2>3. CASE failed'
    <3>1. /\ holder = None /\ holder' = None /\ PendingEvents' = 1
          /\ UNCHANGED <<PendingObject, clock, expired, nested, periods, updates, events,
                         published>>
      BY <1>4, <2>1, <2>3 DEF SetValueFirst, Publish
    <3>2. Timers' = 0 /\ events <= 2 * periods
      BY <2>1, <3>1
    <3>3. OnePeriod' /\ MergedOnly' /\ Wedged' /\ EventsCounted'
      BY <2>1, <2>3, <3>1, <3>2
    <3>4. NothingLost' /\ (nested \subseteq 1..updates)'
      BY <2>1, <2>3, <3>1
    <3>5. HolderInside'
      BY <2>1, <3>1
    <3>. QED
      BY <3>3, <3>4, <3>5
  <2>. QED
    BY <1>4, <2>2, <2>3 DEF SetValueFirst
<1>5. ASSUME NEW w \in Writer, SetValueFirstEnd(w) PROVE IInv'
  BY <1>5 DEF SetValueFirstEnd
<1>6. ASSUME NEW w \in Writer, SetValueMerge(w) PROVE IInv'
  BY <1>6 DEF SetValueMerge
<1>7. CASE HandlerSetValue
  BY <1>7 DEF HandlerSetValue, Publish
<1>8. CASE HandlerThrows
  BY <1>8 DEF HandlerThrows, variable
<1>9. CASE Expire
  BY <1>9 DEF Expire, variable, history
<1>10. CASE LifeTimeSink
  <2>1. expired = 1 /\ ~clock /\ ~failed /\ holder = None /\ PendingEvents > 0
    BY <1>10 DEF LifeTimeSink
  <2>2. CASE PendingEvents > 1 /\ ~failed'
    <3>1. /\ holder' = Sink /\ expired' = 0 /\ events' = events + 1
          /\ published' = published \cup PendingObject
          /\ UNCHANGED <<PendingObject, PendingEvents, clock, nested, periods, updates>>
      BY <1>10, <2>1, <2>2 DEF LifeTimeSink, Publish
    <3>2. Timers' = 0 /\ events + 1 <= 2 * periods
      BY <2>1, <3>1
    <3>3. OnePeriod' /\ MergedOnly' /\ Wedged' /\ EventsCounted'
      BY <2>1, <2>2, <3>1, <3>2
    <3>4. NothingLost' /\ (nested \subseteq 1..updates)'
      BY <2>1, <2>2, <3>1
    <3>5. HolderInside'
      BY <2>1, <2>2, <3>1
    <3>. QED
      BY <3>3, <3>4, <3>5
  <2>3. CASE PendingEvents > 1 /\ failed'
    <3>0. failed' # failed
      BY <2>1, <2>3
    <3>1. expired' = 0
      BY <1>10, <2>1 DEF LifeTimeSink
    <3>2. /\ UNCHANGED <<PendingObject, PendingEvents, clock, nested, periods, updates,
                         events, published>>
          /\ holder' = None
      BY <1>10, <2>1, <2>3, <3>0, Zenon DEF LifeTimeSink
    <3>3. Timers' = 0 /\ events <= 2 * periods
      BY <2>1, <3>1, <3>2
    <3>4. OnePeriod' /\ MergedOnly' /\ Wedged' /\ EventsCounted'
      BY <2>1, <2>3, <3>1, <3>2, <3>3
    <3>5. NothingLost' /\ (nested \subseteq 1..updates)'
      BY <2>1, <2>3, <3>1, <3>2
    <3>6. HolderInside'
      BY <2>1, <3>2
    <3>. QED
      BY <3>4, <3>5, <3>6
  <2>4. CASE PendingEvents = 1
    BY <1>10, <2>1, <2>4 DEF LifeTimeSink
  <2>5. PendingEvents > 1 \/ PendingEvents = 1
    BY <2>1
  <2>. QED
    BY <2>2, <2>3, <2>4, <2>5 DEF IInv
<1>11. CASE LifeTimeSinkEnd
  BY <1>11 DEF LifeTimeSinkEnd, history
<1>12. CASE UNCHANGED vars
  BY <1>12 DEF vars, variable, history
<1>. QED
  BY <1>1, <1>2, <1>3, <1>4, <1>5, <1>6, <1>7, <1>8, <1>9, <1>10, <1>11, <1>12
     DEF Next, Setter, PeriodEnd

----------------------------------------------------------------------------
\* The inductive invariant of the moderated variable holds in every behaviour.
THEOREM InvariantCorrect == Spec => []IInv
<1>1. Safety => []IInv
  BY InvariantInit, InvariantStep, PTL DEF Safety
<1>. QED
  BY <1>1 DEF Spec

\* The variables keep their types.
THEOREM TypeCorrect == Spec => []TypeOK
<1>1. IInv => TypeOK
  BY DEF IInv
<1>. QED
  BY <1>1, InvariantCorrect, PTL

\* A running period has one timer, and none runs without a period.
THEOREM PeriodsNeverOverlap == Spec => []OnePeriod
<1>1. IInv => OnePeriod
  BY DEF IInv
<1>. QED
  BY <1>1, InvariantCorrect, PTL

\* An accepted update is published or waits to be, and never both.
THEOREM UpdateNeverLost == Spec => []NothingLost
<1>1. IInv => NothingLost
  BY DEF IInv
<1>. QED
  BY <1>1, InvariantCorrect, PTL

\* A moderation period costs the network two events at most.
THEOREM RateBounded == Spec => []BoundedRate
<1>1. IInv => BoundedRate
  BY DEF IInv, TypeOK, EventsCounted, BoundedRate, Timers
<1>. QED
  BY <1>1, InvariantCorrect, PTL

----------------------------------------------------------------------------
(* The eventing of a generated device.                                     *)
\* Where the subscribers of the list are.
LEMMA Places ==
  ASSUME DVTypeOK, NoneTwice
  PROVE  /\ DOMAIN HeadSubscriberPtr = 1..Len(HeadSubscriberPtr) /\ Len(HeadSubscriberPtr) \in Nat
         /\ Listed = {HeadSubscriberPtr[k] : k \in DOMAIN HeadSubscriberPtr}
         /\ Listed \subseteq Subscriber
         /\ \A k \in DOMAIN HeadSubscriberPtr : Place(HeadSubscriberPtr[k]) = k
         /\ \A s \in Listed : Place(s) \in DOMAIN HeadSubscriberPtr /\ HeadSubscriberPtr[Place(s)] = s
<1> USE DEF DVTypeOK
<1>1. DOMAIN HeadSubscriberPtr = 1..Len(HeadSubscriberPtr) /\ Len(HeadSubscriberPtr) \in Nat
  BY LenProperties
<1>2. Listed = {HeadSubscriberPtr[k] : k \in DOMAIN HeadSubscriberPtr}
  BY DEF Listed, ToSet
<1>3. \A s \in Listed : Place(s) \in DOMAIN HeadSubscriberPtr /\ HeadSubscriberPtr[Place(s)] = s
  BY <1>2 DEF Place
<1>4. \A k \in DOMAIN HeadSubscriberPtr : HeadSubscriberPtr[k] \in Subscriber
  BY ElementOfSeq, <1>1
<1>5. ASSUME NEW k \in DOMAIN HeadSubscriberPtr PROVE Place(HeadSubscriberPtr[k]) = k
  <2>1. HeadSubscriberPtr[k] \in Listed
    BY <1>2
  <2> QED
    BY <1>3, <2>1 DEF NoneTwice
<1>. QED
  BY <1>1, <1>2, <1>3, <1>4, <1>5

\* RemoveSubscriberInfo takes out one subscriber and keeps the order of the others.
LEMMA Removal ==
  ASSUME DVTypeOK, NoneTwice, NEW s \in Listed, HeadSubscriberPtr' = Without(s)
  PROVE  /\ HeadSubscriberPtr' \in Seq(Subscriber)
         /\ Len(HeadSubscriberPtr') = Len(HeadSubscriberPtr) - 1
         /\ NoneTwice' /\ Listed' = Listed \ {s}
         /\ \A a, b : Before(a, b)' => Before(a, b)
<1> DEFINE old == HeadSubscriberPtr
           new == HeadSubscriberPtr'
           k == Place(s)
           left == SubSeq(old, 1, k - 1)
           right == SubSeq(old, k + 1, Len(old))
           At(i) == IF i < k THEN i ELSE i + 1
<1>1. /\ DOMAIN old = 1..Len(old) /\ Len(old) \in Nat
      /\ Listed = {old[i] : i \in DOMAIN old}
      /\ k \in DOMAIN old /\ old[k] = s
      /\ old \in Seq(Subscriber) /\ \A i \in 1..Len(old) : old[i] \in Subscriber
  BY Places DEF DVTypeOK
<1>2. new = left \o right
  BY DEF Without, RemoveAt
<1> HIDE DEF k
<1>3. k \in Nat /\ k >= 1 /\ k <= Len(old) /\ k - 1 \in Int /\ k + 1 \in Int /\ 1 \in Int
  BY <1>1
<1>4. left \in Seq(Subscriber) /\ Len(left) = k - 1 /\ \A i \in 1..(k - 1) : left[i] = old[i]
  <2>1. \A i \in 1..(k - 1) : old[i] \in Subscriber
    BY <1>1, <1>3
  <2>2. /\ left \in Seq(Subscriber)
        /\ Len(left) = IF 1 <= k - 1 THEN (k - 1) - 1 + 1 ELSE 0
        /\ \A i \in 1..((k - 1) - 1 + 1) : left[i] = old[1 + i - 1]
    BY <2>1, <1>3, SubSeqProperties
  <2> QED
    BY <2>2, <1>3
<1>5. /\ right \in Seq(Subscriber) /\ Len(right) = Len(old) - k
      /\ \A i \in 1..(Len(old) - k) : right[i] = old[k + i]
  <2>1. \A i \in (k + 1)..Len(old) : old[i] \in Subscriber
    BY <1>1, <1>3
  <2>2. /\ right \in Seq(Subscriber)
        /\ Len(right) = IF k + 1 <= Len(old) THEN Len(old) - (k + 1) + 1 ELSE 0
        /\ \A i \in 1..(Len(old) - (k + 1) + 1) : right[i] = old[(k + 1) + i - 1]
    BY <2>1, <1>1, <1>3, SubSeqProperties
  <2> HIDE DEF right
  <2>3. Len(old) \in Nat
    BY <1>1
  <2>4. Len(right) = IF k + 1 <= Len(old) THEN Len(old) - (k + 1) + 1 ELSE 0
    BY <2>2
  <2>5. Len(right) = Len(old) - k
    BY <2>3, <2>4, <1>3
  <2>6. ASSUME NEW i \in 1..(Len(old) - k) PROVE right[i] = old[k + i]
    <3>1. i \in 1..(Len(old) - (k + 1) + 1) /\ (k + 1) + i - 1 = k + i
      BY <2>3, <1>3
    <3> QED
      BY <2>2, <3>1
  <2> QED
    BY <2>2, <2>5, <2>6
<1> HIDE DEF left, right
<1>6. /\ left \o right \in Seq(Subscriber)
      /\ Len(left \o right) = Len(left) + Len(right)
      /\ \A i \in 1..(Len(left) + Len(right)) :
           (left \o right)[i] = IF i <= Len(left) THEN left[i] ELSE right[i - Len(left)]
  BY <1>4, <1>5, ConcatProperties
<1>7. Len(new) = Len(old) - 1 /\ new \in Seq(Subscriber) /\ DOMAIN new = 1..(Len(old) - 1)
  <2>1. Len(old) \in Nat
    BY <1>1
  <2>2. Len(new) = Len(old) - 1 /\ new \in Seq(Subscriber)
    BY <2>1, <1>2, <1>3, <1>4, <1>5, <1>6
  <2> QED
    BY <2>2, LenProperties
<1>8. \A i \in DOMAIN new : At(i) \in DOMAIN old /\ At(i) # k /\ new[i] = old[At(i)]
  <2>1. Len(old) \in Nat
    BY <1>1
  <2>2. ASSUME NEW i \in DOMAIN new PROVE At(i) \in DOMAIN old /\ At(i) # k /\ new[i] = old[At(i)]
    <3>1. i \in Nat /\ 1 <= i /\ i <= Len(old) - 1
      BY <2>1, <2>2, <1>7
    <3>2. i \in 1..(Len(left) + Len(right))
      BY <3>1, <2>1, <1>3, <1>4, <1>5
    <3>3. new[i] = IF i <= Len(left) THEN left[i] ELSE right[i - Len(left)]
      BY <3>2, <1>2, <1>6
    <3>4. CASE i < k
      BY <3>1, <3>3, <3>4, <2>1, <1>1, <1>3, <1>4
    <3>5. CASE ~(i < k)
      <4>1. new[i] = right[i - (k - 1)]
        BY <3>1, <3>3, <3>5, <1>3, <1>4
      <4>2. i - (k - 1) \in 1..(Len(old) - k) /\ k + (i - (k - 1)) = i + 1
        BY <3>1, <3>5, <2>1, <1>3
      <4>3. right[i - (k - 1)] = old[i + 1]
        BY <4>2, <1>5
      <4> QED
        BY <4>1, <4>3, <3>1, <3>5, <2>1, <1>1, <1>3
    <3> QED
      BY <3>4, <3>5
  <2> QED
    BY <2>2
<1>9. \A i, j \in DOMAIN new : i < j => At(i) < At(j)
  BY <1>1, <1>3, <1>7
<1>10. \A j \in DOMAIN old : j # k => \E i \in DOMAIN new : At(i) = j
  <2>1. Len(old) \in Nat
    BY <1>1
  <2>2. ASSUME NEW j \in DOMAIN old, j # k PROVE \E i \in DOMAIN new : At(i) = j
    <3>1. j \in Nat /\ 1 <= j /\ j <= Len(old)
      BY <1>1
    <3>2. CASE j < k
      <4>1. j \in DOMAIN new /\ At(j) = j
        BY <3>1, <3>2, <2>1, <1>3, <1>7
      <4> QED
        BY <4>1
    <3>3. CASE j > k
      <4>1. j - 1 \in DOMAIN new /\ At(j - 1) = j
        BY <3>1, <3>3, <2>1, <1>3, <1>7
      <4> QED
        BY <4>1
    <3> QED
      BY <2>2, <3>1, <3>2, <3>3, <1>3
  <2> QED
    BY <2>2
<1>11. Listed' = {new[i] : i \in DOMAIN new}
  BY DEF Listed, ToSet
<1>12. Listed' = Listed \ {s}
  <2>1. \A r \in Listed' : r \in Listed /\ r # s
    BY <1>1, <1>8, <1>11 DEF NoneTwice
  <2>2. \A r \in Listed : r # s => r \in Listed'
    BY <1>1, <1>8, <1>10, <1>11
  <2> QED
    BY <2>1, <2>2
<1>13. NoneTwice'
  BY <1>1, <1>3, <1>7, <1>8, <1>9 DEF NoneTwice
<1>14. \A a, b : Before(a, b)' => Before(a, b)
  BY <1>8, <1>9 DEF Before
<1> QED
  BY <1>7, <1>12, <1>13, <1>14

\* The list with a new subscriber in front.
LEMMA Insertion ==
  ASSUME DVTypeOK, NoneTwice, NEW s \in Subscriber \ Listed,
         HeadSubscriberPtr' = <<s>> \o HeadSubscriberPtr
  PROVE  /\ HeadSubscriberPtr' \in Seq(Subscriber)
         /\ Len(HeadSubscriberPtr') = Len(HeadSubscriberPtr) + 1
         /\ NoneTwice' /\ Listed' = Listed \cup {s}
         /\ \A a, b : Before(a, b)' => a = s \/ Before(a, b)
<1> DEFINE old == HeadSubscriberPtr
           new == HeadSubscriberPtr'
<1>1. /\ DOMAIN old = 1..Len(old) /\ Len(old) \in Nat
      /\ Listed = {old[i] : i \in DOMAIN old} /\ old \in Seq(Subscriber)
  BY Places DEF DVTypeOK
<1>2. <<s>> \in Seq(Subscriber) /\ Len(<<s>>) = 1 /\ <<s>>[1] = s
  OBVIOUS
<1>3. /\ <<s>> \o old \in Seq(Subscriber)
      /\ Len(<<s>> \o old) = Len(<<s>>) + Len(old)
      /\ \A i \in 1..(Len(<<s>>) + Len(old)) :
           (<<s>> \o old)[i] = IF i <= Len(<<s>>) THEN <<s>>[i] ELSE old[i - Len(<<s>>)]
  BY <1>1, <1>2, ConcatProperties
<1>4. new \in Seq(Subscriber) /\ Len(new) = Len(old) + 1
  BY <1>1, <1>2, <1>3
<1>5. DOMAIN new = 1..(Len(old) + 1)
  BY <1>4, LenProperties
<1>6. \A i \in DOMAIN new : new[i] = IF i = 1 THEN s ELSE old[i - 1]
  <2>1. ASSUME NEW i \in 1..(Len(old) + 1) PROVE new[i] = IF i = 1 THEN s ELSE old[i - 1]
    <3>1. i \in 1..(Len(<<s>>) + Len(old)) /\ (i <= Len(<<s>>) <=> i = 1)
      BY <1>1, <1>2
    <3> QED
      BY <3>1, <1>2, <1>3
  <2> QED
    BY <2>1, <1>5
<1>7. \A i \in DOMAIN new : i # 1 => i - 1 \in DOMAIN old
  BY <1>1, <1>5
<1>8. Listed' = {new[i] : i \in DOMAIN new}
  BY DEF Listed, ToSet
<1>9. Listed' = Listed \cup {s}
  <2>1. \A r \in Listed' : r \in Listed \cup {s}
    BY <1>1, <1>6, <1>7, <1>8
  <2>2. s \in Listed'
    BY <1>1, <1>5, <1>6, <1>8
  <2>3. ASSUME NEW j \in DOMAIN old PROVE old[j] \in Listed'
    <3>1. j + 1 \in DOMAIN new /\ j + 1 # 1 /\ (j + 1) - 1 = j
      BY <1>1, <1>5
    <3> QED
      BY <3>1, <1>6, <1>8
  <2> QED
    BY <2>1, <2>2, <2>3, <1>1
<1>10. NoneTwice'
  <2>1. \A j \in DOMAIN old : old[j] # s
    BY <1>1
  <2>2. ASSUME NEW i \in DOMAIN new, NEW j \in DOMAIN new, new[i] = new[j] PROVE i = j
    <3>1. CASE i = 1 \/ j = 1
      BY <2>1, <2>2, <3>1, <1>6, <1>7
    <3>2. CASE i # 1 /\ j # 1
      <4>1. i - 1 = j - 1
        BY <2>2, <3>2, <1>6, <1>7 DEF NoneTwice
      <4> QED
        BY <4>1, <1>1, <1>5
    <3> QED
      BY <3>1, <3>2
  <2> QED
    BY <2>2 DEF NoneTwice
<1>11. ASSUME NEW a, NEW b, Before(a, b)' PROVE a = s \/ Before(a, b)
  <2>1. PICK i \in DOMAIN new, j \in DOMAIN new : i < j /\ new[i] = a /\ new[j] = b
    BY <1>11 DEF Before
  <2>2. CASE i # 1
    <3>1. j # 1 /\ i - 1 < j - 1
      BY <2>1, <2>2, <1>1, <1>5
    <3> QED
      BY <2>1, <2>2, <3>1, <1>6, <1>7 DEF Before
  <2> QED
    BY <2>1, <2>2, <1>6
<1> QED
  BY <1>4, <1>9, <1>10, <1>11

\* A step that leaves the list alone.
LEMMA SameList ==
  ASSUME UNCHANGED HeadSubscriberPtr
  PROVE  /\ Listed' = Listed /\ (NoneTwice' <=> NoneTwice)
         /\ \A a, b : Before(a, b)' <=> Before(a, b)
BY DEF Listed, NoneTwice, Before

\* The head of the list has nobody before it.
LEMMA HeadOfList ==
  ASSUME DVTypeOK, NoneTwice
  PROVE  /\ First(HeadSubscriberPtr) \in Listed \cup {NoSubscriber}
         /\ First(HeadSubscriberPtr) = NoSubscriber => Listed = {}
         /\ \A a : ~Before(a, First(HeadSubscriberPtr))
<1>1. /\ DOMAIN HeadSubscriberPtr = 1..Len(HeadSubscriberPtr) /\ Len(HeadSubscriberPtr) \in Nat
      /\ Listed = {HeadSubscriberPtr[k] : k \in DOMAIN HeadSubscriberPtr}
      /\ Listed \subseteq Subscriber
  BY Places
<1>2. CASE HeadSubscriberPtr = <<>>
  BY <1>1, <1>2 DEF First, Before
<1>3. CASE HeadSubscriberPtr # <<>>
  <2>1. First(HeadSubscriberPtr) = HeadSubscriberPtr[1] /\ 1 \in DOMAIN HeadSubscriberPtr
    BY <1>1, <1>3, EmptySeq DEF First, DVTypeOK
  <2>2. \A i, j \in DOMAIN HeadSubscriberPtr : i < j => j # 1
    BY <1>1
  <2> QED
    BY <1>1, <2>1, <2>2, EventingAssumption DEF Before, NoneTwice
<1> QED
  BY <1>2, <1>3

\* Who comes before the next of s: s, and who comes before s.
LEMMA NextInList ==
  ASSUME DVTypeOK, NoneTwice, NEW s \in Listed
  PROVE  /\ After(s) \in (Listed \ {s}) \cup {NoSubscriber}
         /\ \A a : After(s) # NoSubscriber /\ Before(a, After(s)) => a = s \/ Before(a, s)
         /\ After(s) = NoSubscriber => \A a \in Listed : a = s \/ Before(a, s)
         /\ \A a \in Listed : a = s \/ Before(a, s) \/ a \in Behind(s)
<1>1. /\ DOMAIN HeadSubscriberPtr = 1..Len(HeadSubscriberPtr) /\ Len(HeadSubscriberPtr) \in Nat
      /\ Listed = {HeadSubscriberPtr[k] : k \in DOMAIN HeadSubscriberPtr}
      /\ Listed \subseteq Subscriber
      /\ Place(s) \in DOMAIN HeadSubscriberPtr /\ HeadSubscriberPtr[Place(s)] = s
  BY Places
<1>2. \A a \in Listed : a = s \/ Before(a, s) \/ a \in Behind(s)
  <2>1. ASSUME NEW j \in DOMAIN HeadSubscriberPtr
        PROVE  j = Place(s) \/ j < Place(s) \/ Place(s) < j
    BY <1>1
  <2> QED
    BY <1>1, <2>1 DEF Before, Behind
<1>3. CASE Place(s) < Len(HeadSubscriberPtr)
  <2>1. After(s) = HeadSubscriberPtr[Place(s) + 1] /\ Place(s) + 1 \in DOMAIN HeadSubscriberPtr
    BY <1>1, <1>3 DEF After
  <2>2. After(s) \in Listed \ {s}
    <3>1. Place(s) + 1 # Place(s)
      BY <1>1
    <3> QED
      BY <1>1, <2>1, <3>1 DEF NoneTwice
  <2>3. ASSUME NEW a, Before(a, After(s)) PROVE a = s \/ Before(a, s)
    <3>1. PICK i \in DOMAIN HeadSubscriberPtr, j \in DOMAIN HeadSubscriberPtr :
                 i < j /\ HeadSubscriberPtr[i] = a /\ HeadSubscriberPtr[j] = After(s)
      BY <2>3 DEF Before
    <3>2. j = Place(s) + 1
      BY <2>1, <3>1 DEF NoneTwice
    <3>3. i = Place(s) \/ i < Place(s)
      BY <1>1, <3>1, <3>2
    <3> QED
      BY <1>1, <3>1, <3>3 DEF Before
  <2>4. After(s) # NoSubscriber
    BY <1>1, <2>2, EventingAssumption
  <2> QED
    BY <1>2, <2>2, <2>3, <2>4
<1>4. CASE ~(Place(s) < Len(HeadSubscriberPtr))
  <2>1. After(s) = NoSubscriber
    BY <1>4 DEF After
  <2>2. \A j \in DOMAIN HeadSubscriberPtr : ~(Place(s) < j)
    BY <1>1, <1>4
  <2>3. Behind(s) = {}
    BY <1>1, <2>2 DEF Behind, Before, NoneTwice
  <2> QED
    BY <1>2, <2>1, <2>3
<1> QED
  BY <1>3, <1>4

----------------------------------------------------------------------------
(* The invariant: at the start, and what the steps do.                     *)

LEMMA DVInitInvariant == DVInit => DVInvariant
<1> SUFFICES ASSUME DVInit PROVE DVInvariant
  OBVIOUS
<1> USE EventingAssumption DEF DVInit
<1>1. Listed = {} /\ DOMAIN HeadSubscriberPtr = {} /\ Len(HeadSubscriberPtr) = 0
  BY DEF Listed, ToSet
<1>2. DVTypeOK
  <2>1. HeadSubscriberPtr \in Seq(Subscriber) /\ NumberOfSubscribers \in Nat /\ SetupReady \in Nat
    OBVIOUS
  <2>2. info \in [Subscriber -> [mem : {"none", "live", "freed", "purged"}, RefCount : Nat,
                                 SEQ : Nat, Disposing : BOOLEAN,
                                 time : {"valid", "expired", "lapsed"}]]
    BY DEF Blank
  <2>3. /\ app \in [pc : {"idle", "lock", "walk", "send"}, at : Subscriber \cup {NoSubscriber},
                    read : Fields]
        /\ chain \in [pc : {"idle", "purge", "free", "body", "read", "send"},
                      at : Subscriber \cup {NoSubscriber}, next : Subscriber \cup {NoSubscriber},
                      body : Nat, read : Fields]
    BY DEF Idle, NoFields, Fields
  <2>4. EventLock \in BOOLEAN /\ dead \in BOOLEAN
    BY Zenon
  <2>5. requests \in [Subscriber -> Seq(Nat)] /\ last \in [Subscriber -> Nat]
    OBVIOUS
  <2> QED
    BY <2>1, <2>2, <2>3, <2>4, <2>5 DEF DVTypeOK
<1>3. CountMatches /\ NoneTwice
  BY <1>1 DEF CountMatches, NoneTwice
<1>4. Allocated /\ ReferencesCounted
  BY <1>1 DEF Allocated, ReferencesCounted, Blank
<1>5. ChainPlace /\ WalkPlace /\ ReadsCurrent
  BY DEF ChainPlace, WalkPlace, ReadsCurrent, Idle
<1>6. PassedCurrent
  BY <1>1 DEF PassedCurrent, Idle
<1> QED
  BY <1>2, <1>3, <1>4, <1>5, <1>6 DEF DVInvariant

\* Record types of the model.
InfoRecord ==
  [mem : {"none", "live", "freed", "purged"}, RefCount : Nat, SEQ : Nat, Disposing : BOOLEAN,
   time : {"valid", "expired", "lapsed"}]

\* A subscriber whose count is written is freed or keeps the rest of its record.
LEMMA CountedInfo ==
  ASSUME DVTypeOK, NEW s \in Subscriber, NEW n \in Nat, NEW d \in BOOLEAN,
         info' = Counted(s, n, d)
  PROVE  /\ info' \in [Subscriber -> InfoRecord]
         /\ \A r \in Subscriber : r # s => info'[r] = info[r]
         /\ n = 0 => info'[s] = Blank("freed")
         /\ n # 0 => /\ info'[s].mem = info[s].mem /\ info'[s].time = info[s].time
                     /\ info'[s].RefCount = n /\ info'[s].Disposing = d
<1>1. info \in [Subscriber -> InfoRecord]
  BY DEF DVTypeOK, InfoRecord
<1>2. Blank("freed") \in InfoRecord
  BY DEF Blank, InfoRecord
<1>3. [info[s] EXCEPT !.RefCount = n, !.Disposing = d] \in InfoRecord
  BY <1>1 DEF InfoRecord
<1> QED
  BY <1>1, <1>2, <1>3 DEF Counted, InfoRecord

\* A notification is counted.
LEMMA NotificationInfo ==
  ASSUME DVTypeOK, NEW s \in Subscriber, NEW read \in Fields, NEW value \in Nat,
         SendEvent_Body(s, read, value)
  PROVE  /\ info' \in [Subscriber -> InfoRecord]
         /\ \A r \in Subscriber : r # s => info'[r] = info[r] /\ requests'[r] = requests[r]
                                           /\ last'[r] = last[r]
         /\ info'[s].mem = info[s].mem /\ info'[s].time = info[s].time
         /\ info'[s].Disposing = info[s].Disposing
         /\ info'[s].RefCount = read.RefCount + 1
         /\ requests' \in [Subscriber -> Seq(Nat)] /\ Len(requests'[s]) = Len(requests[s]) + 1
         /\ last' \in [Subscriber -> Nat] /\ last'[s] = value
         /\ missed' = missed \ {s}
<1>1. info \in [Subscriber -> InfoRecord] /\ requests \in [Subscriber -> Seq(Nat)]
  BY DEF DVTypeOK, InfoRecord
<1>2. read.RefCount + 1 \in Nat /\ read.SEQ + 1 \in Nat /\ read.SEQ \in Nat
  BY DEF Fields
<1>3. Append(requests[s], read.SEQ) \in Seq(Nat)
      /\ Len(Append(requests[s], read.SEQ)) = Len(requests[s]) + 1
  BY <1>1, <1>2, AppendProperties
<1>4. /\ info' \in [Subscriber -> InfoRecord]
      /\ \A r \in Subscriber : r # s => info'[r] = info[r]
      /\ info'[s].mem = info[s].mem /\ info'[s].time = info[s].time
      /\ info'[s].Disposing = info[s].Disposing /\ info'[s].RefCount = read.RefCount + 1
  BY <1>1, <1>2 DEF SendEvent_Body, InfoRecord
<1>5. /\ requests' \in [Subscriber -> Seq(Nat)] /\ Len(requests'[s]) = Len(requests[s]) + 1
      /\ \A r \in Subscriber : r # s => requests'[r] = requests[r]
  BY <1>1, <1>3 DEF SendEvent_Body
<1>6. last' \in [Subscriber -> Nat] /\ last'[s] = value
      /\ \A r \in Subscriber : r # s => last'[r] = last[r]
  BY DEF SendEvent_Body, DVTypeOK
<1> QED
  BY <1>4, <1>5, <1>6 DEF SendEvent_Body

\* The end of a notification.  The subscriber is there; what is done depends on whether
\* a failure has disposed of it before, and on how this one ended.
LEMMA SinkCases ==
  ASSUME DVInvariant, NEW s \in Subscriber, NEW response \in BOOLEAN, SendEventSink(s, response)
  PROVE  /\ info[s].mem = "live" /\ requests[s] # <<>> /\ chain.pc = "idle"
         /\ requests' = [requests EXCEPT ![s] = Tail(@)]
         /\ requests' \in [Subscriber -> Seq(Nat)] /\ Len(requests'[s]) = Len(requests[s]) - 1
         /\ \/ info[s].Disposing /\ UNCHANGED <<members, info>>
            \/ /\ ~info[s].Disposing /\ ~EventLock
               /\ \E n \in Nat :
                    /\ n = info[s].RefCount - 1
                    /\ \/ info' = Counted(s, n, FALSE) /\ UNCHANGED members
                       \/ /\ n # 0 /\ s \notin Listed
                          /\ info' = Counted(s, n, TRUE) /\ UNCHANGED members
                       \/ /\ n # 0 /\ s \in Listed /\ n - 1 \in Nat
                          /\ info' = Counted(s, n - 1, TRUE) /\ RemoveSubscriberInfo(s)
<1>1. /\ info[s].mem = "live" /\ requests[s] # <<>> /\ chain.pc = "idle"
      /\ requests' = [requests EXCEPT ![s] = Tail(@)]
  <2>1. info[s].mem \in {"none", "live", "freed", "purged"}
    BY DEF DVInvariant, DVTypeOK
  <2> QED
    BY <2>1 DEF SendEventSink, Answer, Gone, DVInvariant, Allocated
<1>2. /\ requests' \in [Subscriber -> Seq(Nat)] /\ Len(requests'[s]) = Len(requests[s]) - 1
  <2>1. requests[s] \in Seq(Nat) /\ requests[s] # <<>>
    BY <1>1 DEF DVInvariant, DVTypeOK
  <2>2. Tail(requests[s]) \in Seq(Nat) /\ Len(Tail(requests[s])) = Len(requests[s]) - 1
    BY <2>1, HeadTailProperties
  <2> QED
    BY <1>1, <2>2 DEF DVInvariant, DVTypeOK
<1>3. CASE info[s].Disposing
  BY <1>1, <1>2, <1>3 DEF SendEventSink, members
<1>4. CASE ~info[s].Disposing
  <2> DEFINE n == info[s].RefCount - 1
  <2>0. info[s].RefCount \in Nat /\ info[s].RefCount > 0
    BY <1>1 DEF DVInvariant, DVTypeOK, Allocated
  <2>1. n \in Nat /\ (n # 0 => n - 1 \in Nat)
    BY <2>0
  <2>2. /\ ~EventLock
        /\ \/ info' = Counted(s, n, FALSE) /\ UNCHANGED members
           \/ n # 0 /\ ExpireSubscriberInfo(s, n)
    BY <1>4 DEF SendEventSink, members
  <2> HIDE DEF n
  <2>3. ExpireSubscriberInfo(s, n) =>
           \/ s \notin Listed /\ info' = Counted(s, n, TRUE) /\ UNCHANGED members
           \/ s \in Listed /\ info' = Counted(s, n - 1, TRUE) /\ RemoveSubscriberInfo(s)
    BY DEF ExpireSubscriberInfo
  <2>4. n = info[s].RefCount - 1
    BY DEF n
  <2> QED
    BY <1>1, <1>2, <1>4, <2>1, <2>2, <2>3, <2>4
<1> QED
  BY <1>3, <1>4

\* UNSUBSCRIBE finds a subscriber that is there.
LEMMA UnsubscribeCase ==
  ASSUME DVInvariant, NEW s \in Subscriber, ProcessUNSUBSCRIBE(s)
  PROVE  /\ s \in Listed /\ info[s].mem = "live" /\ ~EventLock /\ chain.pc = "idle"
         /\ info[s].RefCount - 1 \in Nat /\ info[s].Disposing \in BOOLEAN
         /\ info' = Counted(s, info[s].RefCount - 1, info[s].Disposing)
         /\ RemoveSubscriberInfo(s)
<1>1. s \in Listed /\ ~Gone(s)
  <2>1. PICK k \in DOMAIN HeadSubscriberPtr :
               HeadSubscriberPtr[k] = s /\ \A j \in 1..k : ~Gone(HeadSubscriberPtr[j])
    BY DEF ProcessUNSUBSCRIBE, Reaches
  <2>2. k \in 1..k
    BY <2>1, Places DEF DVInvariant
  <2> QED
    BY <2>1, <2>2, Places DEF DVInvariant
<1>2. info[s].mem = "live"
  BY <1>1 DEF Gone, DVInvariant, Allocated
<1> QED
  BY <1>1, <1>2 DEF ProcessUNSUBSCRIBE, DVInvariant, DVTypeOK, Allocated

\* The steps.  The last touch of a freed subscriber changes nothing but dead.
LEMMA StepCases ==
  ASSUME [DVNext]_DVvars
  PROVE  \/ UNCHANGED <<members, info, SetupReady, EventLock, app, chain, requests, notes>>
         \/ SetState \/ SendEvent \/ Visit \/ Notify \/ SendEventEnds
         \/ TryToSubscribe \/ Purge \/ PurgeFrees \/ Refuse \/ Accept
         \/ InitialEventBody \/ InitialEventRead \/ InitialEvent
         \/ \E s \in Subscriber :
              \/ RenewEvents(s) \/ ProcessUNSUBSCRIBE(s) \/ Expires(s)
              \/ \E response \in BOOLEAN : SendEventSink(s, response)
BY DEF DVNext, DVvars, Step, AppStep, SubscribeStep, DVSink, Die

\* The list loses a subscriber, gets one in front, or stays as it is, and the counter
\* with it.
LEMMA MemberCases ==
  ASSUME DVInvariant, [DVNext]_DVvars
  PROVE  \/ UNCHANGED members
         \/ \E s \in Listed : HeadSubscriberPtr' = Without(s)
                              /\ NumberOfSubscribers' = NumberOfSubscribers - 1
         \/ \E s \in Subscriber \ Listed :
              /\ HeadSubscriberPtr' = <<s>> \o HeadSubscriberPtr
              /\ NumberOfSubscribers < MaxSubscribers
              /\ NumberOfSubscribers' = NumberOfSubscribers + 1
<1> USE DEF members
<1>1. CASE Purge
  BY <1>1 DEF Purge, RemoveSubscriberInfo, DVInvariant, ChainPlace
<1>2. CASE Accept
  <2> DEFINE s == CHOOSE r \in Subscriber : info[r].mem = "none"
  <2>1. s \in Subscriber /\ info[s].mem = "none"
    BY <1>2 DEF Accept
  <2>2. s \notin Listed
    BY <2>1 DEF DVInvariant, Allocated
  <2>3. /\ HeadSubscriberPtr' = <<s>> \o HeadSubscriberPtr
        /\ NumberOfSubscribers < MaxSubscribers /\ NumberOfSubscribers' = NumberOfSubscribers + 1
    BY <1>2 DEF Accept
  <2> QED
    BY <2>1, <2>2, <2>3
<1>3. ASSUME NEW s \in Subscriber, ProcessUNSUBSCRIBE(s)
      PROVE  /\ s \in Listed /\ HeadSubscriberPtr' = Without(s)
             /\ NumberOfSubscribers' = NumberOfSubscribers - 1
  BY <1>3, UnsubscribeCase DEF RemoveSubscriberInfo
<1>4. ASSUME NEW s \in Subscriber, NEW response \in BOOLEAN, SendEventSink(s, response)
      PROVE  \/ UNCHANGED members
             \/ /\ s \in Listed /\ HeadSubscriberPtr' = Without(s)
                /\ NumberOfSubscribers' = NumberOfSubscribers - 1
  BY <1>4, SinkCases DEF RemoveSubscriberInfo
<1>5. \/ UNCHANGED members \/ Purge \/ Accept
      \/ \E s \in Subscriber :
           ProcessUNSUBSCRIBE(s) \/ \E response \in BOOLEAN : SendEventSink(s, response)
  BY StepCases
  DEF SetState, SendEvent, Visit, Notify, SendEventEnds, TryToSubscribe, PurgeFrees, Refuse,
      InitialEventBody, InitialEventRead, InitialEvent, RenewEvents, Expires
<1> QED
  BY <1>1, <1>2, <1>3, <1>4, <1>5

\* The counter follows the list, which has nobody twice.
LEMMA ListStep ==
  ASSUME DVInvariant, [DVNext]_DVvars
  PROVE  /\ HeadSubscriberPtr' \in Seq(Subscriber) /\ NumberOfSubscribers' \in Nat
         /\ CountMatches' /\ NoneTwice'
<1>1. /\ DVTypeOK /\ NoneTwice /\ HeadSubscriberPtr \in Seq(Subscriber)
      /\ NumberOfSubscribers = Len(HeadSubscriberPtr) /\ NumberOfSubscribers <= MaxSubscribers
      /\ Len(HeadSubscriberPtr) \in Nat /\ MaxSubscribers \in Nat
  BY Places, EventingAssumption DEF DVInvariant, CountMatches, DVTypeOK
<1>2. CASE UNCHANGED members
  BY <1>1, <1>2, SameList DEF members, CountMatches
<1>3. ASSUME NEW s \in Listed, HeadSubscriberPtr' = Without(s),
             NumberOfSubscribers' = NumberOfSubscribers - 1
      PROVE  /\ HeadSubscriberPtr' \in Seq(Subscriber) /\ NumberOfSubscribers' \in Nat
             /\ CountMatches' /\ NoneTwice'
  <2>1. /\ HeadSubscriberPtr' \in Seq(Subscriber) /\ NoneTwice'
        /\ Len(HeadSubscriberPtr') = Len(HeadSubscriberPtr) - 1
    BY <1>1, <1>3, Removal
  <2>2. Len(HeadSubscriberPtr') \in Nat
    BY <2>1, LenProperties
  <2> QED
    BY <1>1, <1>3, <2>1, <2>2 DEF CountMatches
<1>4. ASSUME NEW s \in Subscriber \ Listed, HeadSubscriberPtr' = <<s>> \o HeadSubscriberPtr,
             NumberOfSubscribers < MaxSubscribers,
             NumberOfSubscribers' = NumberOfSubscribers + 1
      PROVE  /\ HeadSubscriberPtr' \in Seq(Subscriber) /\ NumberOfSubscribers' \in Nat
             /\ CountMatches' /\ NoneTwice'
  <2>1. /\ HeadSubscriberPtr' \in Seq(Subscriber) /\ NoneTwice'
        /\ Len(HeadSubscriberPtr') = Len(HeadSubscriberPtr) + 1
    BY <1>1, <1>4, Insertion
  <2> QED
    BY <1>1, <1>4, <2>1 DEF CountMatches
<1> QED
  BY <1>2, <1>3, <1>4, MemberCases

AppRecord ==
  [pc : {"idle", "lock", "walk", "send"}, at : Subscriber \cup {NoSubscriber}, read : Fields]
ChainRecord ==
  [pc : {"idle", "purge", "free", "body", "read", "send"}, at : Subscriber \cup {NoSubscriber},
   next : Subscriber \cup {NoSubscriber}, body : Nat, read : Fields]

\* The state before a step, as the proofs of the steps use it.
LEMMA Standing ==
  ASSUME DVInvariant
  PROVE  /\ DVTypeOK /\ NoneTwice /\ Listed \subseteq Subscriber
         /\ NoSubscriber \notin Subscriber
         /\ info \in [Subscriber -> InfoRecord] /\ app \in AppRecord /\ chain \in ChainRecord
         /\ requests \in [Subscriber -> Seq(Nat)] /\ last \in [Subscriber -> Nat]
         /\ app.pc = "send" => app.at \in Subscriber
         /\ chain.pc = "purge" /\ chain.at # NoSubscriber => chain.at \in Listed
         /\ chain.pc = "free" =>
              /\ chain.at \in Subscriber \ Listed /\ info[chain.at].mem = "live"
              /\ chain.next \in Listed \cup {NoSubscriber}
         /\ chain.pc \in {"body", "read", "send"} =>
              chain.at \in Listed /\ info[chain.at].mem = "live"
         /\ \A s \in Subscriber : ReadFields(s) \in Fields
<1>1. DVTypeOK /\ NoneTwice
  BY DEF DVInvariant
<1>2. /\ info \in [Subscriber -> InfoRecord] /\ app \in AppRecord /\ chain \in ChainRecord
      /\ requests \in [Subscriber -> Seq(Nat)] /\ last \in [Subscriber -> Nat]
  BY <1>1 DEF DVTypeOK, InfoRecord, AppRecord, ChainRecord
<1>3. Listed \subseteq Subscriber /\ NoSubscriber \notin Subscriber
  BY <1>1, Places, EventingAssumption
<1>4. /\ app.pc = "send" => app.at \in Subscriber
      /\ chain.pc = "purge" /\ chain.at # NoSubscriber => chain.at \in Listed
      /\ chain.pc = "free" =>
           /\ chain.at \in Subscriber \ Listed /\ info[chain.at].mem = "live"
           /\ chain.next \in Listed \cup {NoSubscriber}
      /\ chain.pc \in {"body", "read", "send"} =>
           chain.at \in Listed /\ info[chain.at].mem = "live"
  BY <1>2 DEF DVInvariant, WalkPlace, ChainPlace, AppRecord
<1>5. \A s \in Subscriber : ReadFields(s) \in Fields
  BY <1>2 DEF ReadFields, Fields, InfoRecord
<1> QED
  BY <1>1, <1>2, <1>3, <1>4, <1>5

\* A new subscriber's record.
LEMMA AcceptInfo ==
  ASSUME DVInvariant, Accept
  PROVE  \E s \in Subscriber \ Listed :
           /\ info[s].mem = "none" /\ chain' = [Idle EXCEPT !.pc = "body", !.at = s]
           /\ HeadSubscriberPtr' = <<s>> \o HeadSubscriberPtr
           /\ info' \in [Subscriber -> InfoRecord]
           /\ \A r \in Subscriber : r # s => info'[r] = info[r]
           /\ info'[s].mem = "live" /\ info'[s].RefCount = 1
           /\ info'[s].Disposing = info[s].Disposing
<1> DEFINE s == CHOOSE r \in Subscriber : info[r].mem = "none"
<1>1. s \in Subscriber /\ info[s].mem = "none"
  BY DEF Accept
<1>2. /\ info' = [info EXCEPT ![s].mem = "live", ![s].RefCount = 1]
      /\ chain' = [Idle EXCEPT !.pc = "body", !.at = s]
      /\ HeadSubscriberPtr' = <<s>> \o HeadSubscriberPtr
  BY DEF Accept
<1>3. s \notin Listed
  BY <1>1 DEF DVInvariant, Allocated
<1> HIDE DEF s
<1>4. info \in [Subscriber -> InfoRecord]
  BY Standing
<1> QED
  BY <1>1, <1>2, <1>3, <1>4 DEF InfoRecord

\* No step takes a variable out of its type.
LEMMA DVTypeStep ==
  ASSUME DVInvariant, [DVNext]_DVvars
  PROVE  DVTypeOK'
<1> DEFINE Kept ==
             /\ info' \in [Subscriber -> InfoRecord] /\ SetupReady' \in Nat
             /\ EventLock' \in BOOLEAN /\ app' \in AppRecord /\ chain' \in ChainRecord
             /\ requests' \in [Subscriber -> Seq(Nat)]
             /\ last' \in [Subscriber -> Nat]
             /\ raced' \in SUBSET Subscriber /\ missed' \in SUBSET Subscriber
<1>d. dead' \in BOOLEAN
  <2>1. dead \in BOOLEAN
    BY DEF DVInvariant, DVTypeOK
  <2>2. dead' = dead \/ dead' = TRUE
    BY DEF DVNext, DVvars, Die
  <2> QED
    BY <2>1, <2>2, Zenon
<1> SUFFICES Kept
  BY <1>d, ListStep DEF DVTypeOK, InfoRecord, AppRecord, ChainRecord
<1> USE DEF notes
<1>0. /\ info \in [Subscriber -> InfoRecord] /\ SetupReady \in Nat
      /\ EventLock \in BOOLEAN /\ app \in AppRecord /\ chain \in ChainRecord
      /\ requests \in [Subscriber -> Seq(Nat)] /\ last \in [Subscriber -> Nat]
      /\ raced \in SUBSET Subscriber /\ missed \in SUBSET Subscriber
  BY Standing DEF DVTypeOK
<1>1. /\ Listed \subseteq Subscriber /\ NoSubscriber \notin Subscriber
      /\ First(HeadSubscriberPtr) \in Subscriber \cup {NoSubscriber}
      /\ Idle \in ChainRecord
  <2>1. First(HeadSubscriberPtr) \in Subscriber \cup {NoSubscriber}
    BY Standing, HeadOfList
  <2>2. Idle \in ChainRecord
    BY DEF Idle, NoFields, ChainRecord, Fields
  <2> QED
    BY <2>1, <2>2, Standing
<1>2. \A s \in Subscriber : ReadFields(s) \in Fields
  BY Standing
<1>3. \A s : After(s) \in Subscriber \cup {NoSubscriber}
  <2>1. ASSUME NEW s PROVE After(s) \in Subscriber \cup {NoSubscriber}
    <3>1. CASE s \in Listed
      BY <3>1, Standing, NextInList
    <3>2. CASE s \notin Listed
      BY <3>2 DEF After
    <3> QED
      BY <3>1, <3>2
  <2> QED
    BY <2>1
<1>4. CASE UNCHANGED <<members, info, SetupReady, EventLock, app, chain, requests, notes>>
  BY <1>0, <1>4
<1>5. CASE SetState
  <2>1. app' \in AppRecord
    BY <1>0, <1>5 DEF SetState, AppRecord
  <2> QED
    BY <1>0, <1>5, <2>1 DEF SetState
<1>6. CASE SendEvent
  BY <1>0, <1>1, <1>6 DEF SendEvent, AppRecord
<1>7. CASE Visit
  <2>1. app.at \in Subscriber
    BY <1>0, <1>7 DEF Visit, AppRecord
  <2>2. app' \in AppRecord
    BY <1>0, <1>2, <1>3, <1>7, <2>1 DEF Visit, AppRecord
  <2> QED
    BY <1>0, <1>7, <2>1, <2>2 DEF Visit
<1>8. CASE Notify
  <2>1. app.at \in Subscriber /\ app.read \in Fields
    BY <1>0, <1>8, Standing DEF Notify, AppRecord
  <2>2. app' \in AppRecord
    BY <1>0, <1>3, <1>8 DEF Notify, AppRecord, NoFields, Fields
  <2>3. SendEvent_Body(app.at, app.read, SetupReady)
    BY <1>8 DEF Notify
  <2>4. /\ info' \in [Subscriber -> InfoRecord] /\ requests' \in [Subscriber -> Seq(Nat)]
        /\ last' \in [Subscriber -> Nat] /\ missed' = missed \ {app.at}
    BY <1>0, <2>1, <2>3, NotificationInfo, Standing
  <2> QED
    BY <1>0, <1>8, <2>2, <2>4 DEF Notify
<1>9. CASE SendEventEnds
  BY <1>0, <1>9 DEF SendEventEnds, AppRecord
<1>10. CASE TryToSubscribe
  BY <1>0, <1>1, <1>10 DEF TryToSubscribe, ChainRecord
<1>11. CASE Purge
  <2>1. chain' \in ChainRecord
    BY <1>0, <1>3, <1>11 DEF Purge, ChainRecord
  <2>2. missed' \in SUBSET Subscriber
    BY <1>0, <1>1, <1>11 DEF Purge, Behind
  <2> QED
    BY <1>0, <1>11, <2>1, <2>2 DEF Purge
<1>12. CASE PurgeFrees
  <2>1. Blank("purged") \in InfoRecord
    BY DEF Blank, InfoRecord
  <2>2. chain' \in ChainRecord
    BY <1>0, <1>1, <1>12 DEF PurgeFrees, ChainRecord
  <2> QED
    BY <1>0, <1>12, <2>1, <2>2 DEF PurgeFrees
<1>13. CASE Refuse
  BY <1>0, <1>1, <1>13 DEF Refuse
<1>14. CASE Accept
  <2>1. PICK s \in Subscriber : /\ chain' = [Idle EXCEPT !.pc = "body", !.at = s]
                                /\ info' \in [Subscriber -> InfoRecord]
    BY <1>14, AcceptInfo
  <2> QED
    BY <1>0, <1>1, <1>14, <2>1 DEF Accept, ChainRecord
<1>15. CASE InitialEventBody
  BY <1>0, <1>15 DEF InitialEventBody, ChainRecord
<1>16. CASE InitialEventRead
  <2>1. chain.at \in Subscriber
    BY <1>16, Standing DEF InitialEventRead
  <2> QED
    BY <1>0, <1>2, <1>16, <2>1 DEF InitialEventRead, ChainRecord
<1>17. CASE InitialEvent
  <2>1. chain.at \in Subscriber /\ chain.read \in Fields /\ chain.body \in Nat
    BY <1>0, <1>17, Standing DEF InitialEvent, ChainRecord
  <2>2. SendEvent_Body(chain.at, chain.read, chain.body)
    BY <1>17 DEF InitialEvent
  <2>3. /\ info' \in [Subscriber -> InfoRecord] /\ requests' \in [Subscriber -> Seq(Nat)]
        /\ last' \in [Subscriber -> Nat] /\ missed' = missed \ {chain.at}
    BY <2>1, <2>2, NotificationInfo, Standing
  <2> QED
    BY <1>0, <1>1, <1>17, <2>3 DEF InitialEvent
<1>18. ASSUME NEW s \in Subscriber, RenewEvents(s) PROVE Kept
  BY <1>0, <1>18 DEF RenewEvents, InfoRecord
<1>19. ASSUME NEW s \in Subscriber, ProcessUNSUBSCRIBE(s) PROVE Kept
  <2>1. /\ info[s].RefCount - 1 \in Nat /\ info[s].Disposing \in BOOLEAN
        /\ info' = Counted(s, info[s].RefCount - 1, info[s].Disposing)
    BY <1>19, UnsubscribeCase
  <2>2. info' \in [Subscriber -> InfoRecord]
    BY <2>1, CountedInfo, Standing
  <2> QED
    BY <1>0, <1>19, <2>2 DEF ProcessUNSUBSCRIBE
<1>20. ASSUME NEW s \in Subscriber, Expires(s) PROVE Kept
  BY <1>0, <1>20 DEF Expires, InfoRecord
<1>21. ASSUME NEW s \in Subscriber, NEW response \in BOOLEAN, SendEventSink(s, response)
       PROVE  Kept
  <2>1. /\ requests' \in [Subscriber -> Seq(Nat)]
        /\ \/ UNCHANGED info
           \/ \E n \in Nat : \E d \in BOOLEAN : info' = Counted(s, n, d)
    BY <1>21, SinkCases
  <2>2. info' \in [Subscriber -> InfoRecord]
    BY <1>0, <2>1, CountedInfo, Standing
  <2> QED
    BY <1>0, <1>21, <2>1, <2>2 DEF SendEventSink
<1> HIDE DEF Kept
<1> QED
  BY <1>4, <1>5, <1>6, <1>7, <1>8, <1>9, <1>10, <1>11, <1>12, <1>13, <1>14, <1>15, <1>16,
     <1>17, <1>18, <1>19, <1>20, <1>21, StepCases

\* No step breaks Allocated.
LEMMA AllocatedStep ==
  ASSUME DVInvariant, [DVNext]_DVvars
  PROVE  Allocated'
<1>1. /\ DVTypeOK /\ NoneTwice /\ Listed \subseteq Subscriber
      /\ info \in [Subscriber -> InfoRecord] /\ requests \in [Subscriber -> Seq(Nat)]
  BY Standing
<1>2. \A s \in Subscriber :
        /\ s \in Listed => info[s].mem \in {"live", "freed"}
        /\ info[s].mem = "live" => info[s].RefCount > 0
        /\ info[s].mem # "live" => ~info[s].Disposing
        /\ info[s].mem = "none" => requests[s] = <<>>
  BY DEF DVInvariant, Allocated
<1>3. CASE UNCHANGED <<members, info, requests>>
  BY <1>2, <1>3, SameList DEF members, Allocated
<1>4. ASSUME NEW s \in Subscriber, info[s].mem = "live", NEW read \in Fields, NEW value \in Nat,
             SendEvent_Body(s, read, value), UNCHANGED members
      PROVE  Allocated'
  <2>1. Listed' = Listed
    BY <1>4, SameList DEF members
  <2>2. /\ \A r \in Subscriber : r # s => info'[r] = info[r] /\ requests'[r] = requests[r]
        /\ info'[s].mem = info[s].mem /\ info'[s].RefCount = read.RefCount + 1
    BY <1>1, <1>4, NotificationInfo
  <2>3. read.RefCount + 1 > 0
    BY DEF Fields
  <2> QED
    BY <1>2, <1>4, <2>1, <2>2, <2>3 DEF Allocated
<1>5. ASSUME NEW s \in Subscriber, info[s].mem = "live", NEW n \in Nat, NEW d \in BOOLEAN,
             info' = Counted(s, n, d), \A r \in Subscriber : r # s => requests'[r] = requests[r],
             Listed' \subseteq Listed
      PROVE  Allocated'
  <2>1. /\ \A r \in Subscriber : r # s => info'[r] = info[r]
        /\ n = 0 => info'[s] = Blank("freed")
        /\ n # 0 => info'[s].mem = info[s].mem /\ info'[s].RefCount = n
    BY <1>1, <1>5, CountedInfo
  <2>2. n = 0 \/ n > 0
    OBVIOUS
  <2> QED
    BY <1>2, <1>5, <2>1, <2>2 DEF Allocated, Blank
<1>6. ASSUME NEW s \in Subscriber, NEW t \in {"valid", "expired", "lapsed"},
             info' = [info EXCEPT ![s].time = t], UNCHANGED <<members, requests>>
      PROVE  Allocated'
  <2>1. Listed' = Listed
    BY <1>6, SameList DEF members
  <2>2. \A r \in Subscriber : /\ info'[r].mem = info[r].mem /\ info'[r].RefCount = info[r].RefCount
                              /\ info'[r].Disposing = info[r].Disposing
    BY <1>1, <1>6 DEF InfoRecord
  <2> QED
    BY <1>2, <1>6, <2>1, <2>2 DEF Allocated
<1>7. CASE Notify
  <2>1. /\ app.at \in Subscriber /\ app.read \in Fields /\ SetupReady \in Nat
        /\ info[app.at].mem = "live"
    <3>1. /\ app.pc = "send" /\ app.at \in Subscriber /\ app \in AppRecord /\ ~Gone(app.at)
      BY <1>7, Standing DEF Notify
    <3>2. app.at \in Listed \/ app.at \in Leaving
      BY <3>1, Standing DEF DVInvariant, WalkPlace
    <3>3. info[app.at].mem = "live"
      BY <1>2, <3>1, <3>2, Standing DEF Leaving, Gone
    <3> QED
      BY <3>1, <3>3 DEF AppRecord, DVInvariant, DVTypeOK
  <2>2. SendEvent_Body(app.at, app.read, SetupReady) /\ UNCHANGED members
    BY <1>7 DEF Notify, members
  <2> QED
    BY <2>1, <2>2, <1>4
<1>8. CASE Purge
  <2>1. CASE UNCHANGED members
    BY <1>3, <1>8, <2>1 DEF Purge
  <2>2. CASE ~UNCHANGED members
    <3>1. chain.at \in Listed /\ HeadSubscriberPtr' = Without(chain.at)
      BY <1>8, <2>2, Standing DEF Purge, RemoveSubscriberInfo
    <3>2. Listed' \subseteq Listed
      BY <1>1, <3>1, Removal
    <3> QED
      BY <1>2, <1>8, <3>2 DEF Purge, Allocated
  <2> QED
    BY <2>1, <2>2
<1>9. CASE PurgeFrees
  <2>1. chain.at \in Subscriber \ Listed /\ info[chain.at].mem = "live"
    BY <1>9, Standing DEF PurgeFrees
  <2>2. Listed' = Listed
    BY <1>9, SameList DEF PurgeFrees, members
  <2> QED
    BY <1>1, <1>2, <1>9, <2>1, <2>2 DEF PurgeFrees, Allocated, Blank
<1>10. CASE Accept
  <2>1. PICK s \in Subscriber \ Listed :
               /\ info[s].mem = "none" /\ HeadSubscriberPtr' = <<s>> \o HeadSubscriberPtr
               /\ \A r \in Subscriber : r # s => info'[r] = info[r]
               /\ info'[s].mem = "live" /\ info'[s].RefCount = 1
    BY <1>10, AcceptInfo
  <2>2. Listed' = Listed \cup {s}
    BY <1>1, <2>1, Insertion
  <2>3. requests' = requests
    BY <1>10 DEF Accept
  <2> QED
    BY <1>2, <2>1, <2>2, <2>3 DEF Allocated
<1>11. CASE InitialEvent
  <2>1. /\ chain.at \in Subscriber /\ info[chain.at].mem = "live"
        /\ chain.read \in Fields /\ chain.body \in Nat
    BY <1>11, Standing DEF InitialEvent, ChainRecord
  <2>2. SendEvent_Body(chain.at, chain.read, chain.body) /\ UNCHANGED members
    BY <1>11 DEF InitialEvent, members
  <2> QED
    BY <2>1, <2>2, <1>4
<1>12. ASSUME NEW s \in Subscriber, RenewEvents(s) \/ Expires(s) PROVE Allocated'
  <2>1. CASE RenewEvents(s)
    BY <2>1, <1>6 DEF RenewEvents
  <2>2. CASE Expires(s)
    BY <2>2, <1>6 DEF Expires
  <2> QED
    BY <1>12, <2>1, <2>2
<1>13. ASSUME NEW s \in Subscriber, ProcessUNSUBSCRIBE(s) PROVE Allocated'
  <2>1. /\ s \in Listed /\ info[s].mem = "live" /\ info[s].RefCount - 1 \in Nat
        /\ info[s].Disposing \in BOOLEAN
        /\ info' = Counted(s, info[s].RefCount - 1, info[s].Disposing)
        /\ RemoveSubscriberInfo(s)
    BY <1>13, UnsubscribeCase
  <2>2. Listed' \subseteq Listed
    BY <1>1, <2>1, Removal DEF RemoveSubscriberInfo
  <2>3. requests' = requests
    BY <1>13 DEF ProcessUNSUBSCRIBE
  <2> QED
    BY <1>5, <2>1, <2>2, <2>3
<1>14. ASSUME NEW s \in Subscriber, NEW response \in BOOLEAN, SendEventSink(s, response)
       PROVE  Allocated'
  <2>1. /\ info[s].mem = "live" /\ requests' = [requests EXCEPT ![s] = Tail(@)]
    BY <1>14, SinkCases
  <2>2. \/ UNCHANGED <<members, info>>
        \/ \E n \in Nat : \E d \in BOOLEAN :
             /\ info' = Counted(s, n, d)
             /\ UNCHANGED members \/ (s \in Listed /\ RemoveSubscriberInfo(s))
    BY <1>14, SinkCases
  <2>3. \A r \in Subscriber : r # s => requests'[r] = requests[r]
    BY <1>1, <2>1
  <2>4. UNCHANGED members \/ (s \in Listed /\ RemoveSubscriberInfo(s)) => Listed' \subseteq Listed
    BY <1>1, Removal, SameList DEF members, RemoveSubscriberInfo
  <2>5. CASE UNCHANGED <<members, info>>
    BY <1>2, <2>1, <2>3, <2>5, SameList DEF members, Allocated
  <2> QED
    BY <1>5, <2>1, <2>2, <2>3, <2>4, <2>5
<1>15. \/ UNCHANGED <<members, info, requests>>
       \/ Notify \/ Purge \/ PurgeFrees \/ Accept \/ InitialEvent
       \/ \E s \in Subscriber :
            \/ RenewEvents(s) \/ Expires(s) \/ ProcessUNSUBSCRIBE(s)
            \/ \E response \in BOOLEAN : SendEventSink(s, response)
  BY StepCases
  DEF SetState, SendEvent, Visit, SendEventEnds, TryToSubscribe, Refuse, InitialEventBody,
      InitialEventRead
<1> QED
  BY <1>3, <1>7, <1>8, <1>9, <1>10, <1>11, <1>12, <1>13, <1>14, <1>15

\* Who takes whom out of the list, and who puts one in.
LEMMA ListedCases ==
  ASSUME DVInvariant, [DVNext]_DVvars
  PROVE  \/ Listed' = Listed /\ UNCHANGED HeadSubscriberPtr
         \/ Purge /\ chain.at \in Listed /\ chain' = [chain EXCEPT !.pc = "free", !.next = After(chain.at)]
            /\ Listed' = Listed \ {chain.at} /\ \A a, b : Before(a, b)' => Before(a, b)
         \/ Accept /\ Listed \subseteq Listed'
         \/ chain.pc = "idle" /\ chain' = chain /\ ~EventLock /\ UNCHANGED <<app, SetupReady>>
            /\ Listed' \subseteq Listed
<1>1. DVTypeOK /\ NoneTwice
  BY Standing
<1>2. CASE UNCHANGED members
  BY <1>2, SameList DEF members
<1>3. CASE Purge
  <2>1. CASE UNCHANGED members
    BY <2>1, SameList DEF members
  <2>2. CASE ~UNCHANGED members
    <3>1. /\ chain.at \in Listed /\ HeadSubscriberPtr' = Without(chain.at)
          /\ chain' = [chain EXCEPT !.pc = "free", !.next = After(chain.at)]
      BY <1>3, <2>2, Standing DEF Purge, RemoveSubscriberInfo
    <3> QED
      BY <1>1, <1>3, <3>1, Removal
  <2> QED
    BY <2>1, <2>2
<1>4. CASE Accept
  <2>1. PICK s \in Subscriber \ Listed : HeadSubscriberPtr' = <<s>> \o HeadSubscriberPtr
    BY <1>4, AcceptInfo
  <2> QED
    BY <1>1, <1>4, <2>1, Insertion
<1>5. ASSUME NEW s \in Subscriber, ProcessUNSUBSCRIBE(s)
      PROVE  /\ chain.pc = "idle" /\ chain' = chain /\ ~EventLock /\ UNCHANGED <<app, SetupReady>>
             /\ Listed' \subseteq Listed
  <2>1. s \in Listed /\ RemoveSubscriberInfo(s) /\ ~EventLock /\ chain.pc = "idle"
    BY <1>5, UnsubscribeCase
  <2> QED
    BY <1>1, <1>5, <2>1, Removal DEF RemoveSubscriberInfo, ProcessUNSUBSCRIBE
<1>6. ASSUME NEW s \in Subscriber, NEW response \in BOOLEAN, SendEventSink(s, response),
             ~UNCHANGED members
      PROVE  /\ chain.pc = "idle" /\ chain' = chain /\ ~EventLock /\ UNCHANGED <<app, SetupReady>>
             /\ Listed' \subseteq Listed
  <2>1. s \in Listed /\ RemoveSubscriberInfo(s) /\ ~EventLock /\ chain.pc = "idle"
    BY <1>6, SinkCases
  <2> QED
    BY <1>1, <1>6, <2>1, Removal DEF RemoveSubscriberInfo, SendEventSink
<1>7. \/ UNCHANGED members \/ Purge \/ Accept
      \/ \E s \in Subscriber :
           ProcessUNSUBSCRIBE(s) \/ \E response \in BOOLEAN : SendEventSink(s, response)
  BY StepCases
  DEF SetState, SendEvent, Visit, Notify, SendEventEnds, TryToSubscribe, PurgeFrees, Refuse,
      InitialEventBody, InitialEventRead, InitialEvent, RenewEvents, Expires, members
<1> QED
  BY <1>2, <1>3, <1>4, <1>5, <1>6, <1>7

\* Who allocates a subscriber, and who frees one.
LEMMA MemCases ==
  ASSUME DVInvariant, [DVNext]_DVvars, NEW s \in Subscriber
  PROVE  \/ info'[s].mem = info[s].mem
         \/ PurgeFrees /\ s = chain.at /\ info'[s].mem = "purged"
         \/ Accept /\ info[s].mem = "none" /\ info'[s].mem = "live"
         \/ chain.pc = "idle" /\ ~EventLock /\ info[s].mem = "live" /\ info'[s].mem = "freed"
            /\ UNCHANGED <<app, chain, EventLock>>
<1> DEFINE Cases ==
      \/ info'[s].mem = info[s].mem
      \/ PurgeFrees /\ s = chain.at /\ info'[s].mem = "purged"
      \/ Accept /\ info[s].mem = "none" /\ info'[s].mem = "live"
      \/ chain.pc = "idle" /\ ~EventLock /\ info[s].mem = "live" /\ info'[s].mem = "freed"
         /\ UNCHANGED <<app, chain, EventLock>>
<1>1. DVTypeOK /\ info \in [Subscriber -> InfoRecord]
  BY Standing
<1> SUFFICES Cases
  OBVIOUS
<1>2. CASE UNCHANGED info
  BY <1>2
<1>3. ASSUME NEW r \in Subscriber, NEW read \in Fields, NEW value \in Nat,
             SendEvent_Body(r, read, value)
      PROVE  Cases
  BY <1>1, <1>3, NotificationInfo
<1>4. ASSUME NEW r \in Subscriber, info[r].mem = "live", NEW n \in Nat, NEW d \in BOOLEAN,
             info' = Counted(r, n, d), chain.pc = "idle", ~EventLock,
             UNCHANGED <<app, chain, EventLock>>
      PROVE  Cases
  <2>1. /\ s # r => info'[s] = info[s]
        /\ n = 0 => info'[r] = Blank("freed")
        /\ n # 0 => info'[r].mem = info[r].mem
    BY <1>1, <1>4, CountedInfo
  <2> QED
    BY <1>4, <2>1 DEF Blank
<1>5. CASE Notify
  <2>1. app.at \in Subscriber /\ app.read \in Fields /\ SetupReady \in Nat
    BY <1>1, <1>5, Standing DEF Notify, AppRecord, DVTypeOK
  <2> QED
    BY <1>3, <1>5, <2>1 DEF Notify
<1>6. CASE InitialEvent
  <2>1. chain.at \in Subscriber /\ chain.read \in Fields /\ chain.body \in Nat
    BY <1>6, Standing DEF InitialEvent, ChainRecord
  <2> QED
    BY <1>3, <1>6, <2>1 DEF InitialEvent
<1>7. CASE PurgeFrees
  BY <1>1, <1>7 DEF PurgeFrees, Blank
<1>8. CASE Accept
  BY <1>8, AcceptInfo
<1>9. ASSUME NEW r \in Subscriber, RenewEvents(r) \/ Expires(r) PROVE Cases
  BY <1>1, <1>9 DEF RenewEvents, Expires, InfoRecord
<1>10. ASSUME NEW r \in Subscriber, ProcessUNSUBSCRIBE(r) PROVE Cases
  <2>1. /\ info[r].mem = "live" /\ info[r].RefCount - 1 \in Nat /\ info[r].Disposing \in BOOLEAN
        /\ info' = Counted(r, info[r].RefCount - 1, info[r].Disposing)
        /\ chain.pc = "idle" /\ ~EventLock
    BY <1>10, UnsubscribeCase
  <2>2. UNCHANGED <<app, chain, EventLock>>
    BY <1>10 DEF ProcessUNSUBSCRIBE
  <2> HIDE DEF Cases
  <2> QED
    BY <1>4, <2>1, <2>2
<1>11. ASSUME NEW r \in Subscriber, NEW response \in BOOLEAN, SendEventSink(r, response)
       PROVE  Cases
  <2>1. /\ info[r].mem = "live" /\ chain.pc = "idle"
        /\ \/ UNCHANGED info
           \/ ~EventLock /\ \E n \in Nat : \E d \in BOOLEAN : info' = Counted(r, n, d)
    BY <1>11, SinkCases
  <2>2. UNCHANGED <<app, chain, EventLock>>
    BY <1>11 DEF SendEventSink
  <2> HIDE DEF Cases
  <2> QED
    BY <1>2, <1>4, <2>1, <2>2
<1> HIDE DEF Cases
<1>12. \/ UNCHANGED info \/ Notify \/ InitialEvent \/ PurgeFrees \/ Accept
       \/ \E r \in Subscriber :
            \/ RenewEvents(r) \/ Expires(r) \/ ProcessUNSUBSCRIBE(r)
            \/ \E response \in BOOLEAN : SendEventSink(r, response)
  BY StepCases
  DEF SetState, SendEvent, Visit, SendEventEnds, TryToSubscribe, Purge, Refuse,
      InitialEventBody, InitialEventRead
<1> QED
  BY <1>2, <1>5, <1>6, <1>7, <1>8, <1>9, <1>10, <1>11, <1>12

\* No step breaks ChainPlace.
LEMMA ChainPlaceStep ==
  ASSUME DVInvariant, [DVNext]_DVvars
  PROVE  ChainPlace'
<1>1. /\ ChainPlace /\ NoSubscriber \notin Subscriber /\ Listed \subseteq Subscriber
      /\ chain \in ChainRecord /\ DVTypeOK /\ NoneTwice
  BY Standing DEF DVInvariant
<1>2. ASSUME UNCHANGED chain, ~Purge, ~Accept, ~PurgeFrees PROVE ChainPlace'
  <2>1. CASE chain.pc = "idle"
    BY <1>1, <1>2, <2>1 DEF ChainPlace
  <2>2. CASE chain.pc # "idle"
    <3>1. Listed' = Listed
      BY <1>2, <2>2, ListedCases
    <3>2. \A s \in Subscriber : info'[s].mem = info[s].mem
      BY <1>2, <2>2, MemCases
    <3> QED
      BY <1>1, <1>2, <3>1, <3>2 DEF ChainPlace
  <2> QED
    BY <2>1, <2>2
<1>3. CASE TryToSubscribe
  <2>1. First(HeadSubscriberPtr) \in Listed \cup {NoSubscriber}
    BY <1>1, HeadOfList
  <2>2. Listed' = Listed
    BY <1>3, SameList DEF TryToSubscribe, members
  <2> QED
    BY <1>3, <2>1, <2>2 DEF TryToSubscribe, ChainPlace, Idle
<1>4. CASE Purge
  <2>1. chain.pc = "purge" /\ chain.at \in Listed /\ info[chain.at].mem = "live" /\ info' = info
    BY <1>4, Standing DEF Purge, DVInvariant, Allocated, Gone
  <2>2. After(chain.at) \in (Listed \ {chain.at}) \cup {NoSubscriber}
    BY <1>1, <2>1, NextInList
  <2>3. CASE info[chain.at].time = "expired"
    <3>1. /\ HeadSubscriberPtr' = Without(chain.at)
          /\ chain' = [chain EXCEPT !.pc = "free", !.next = After(chain.at)]
      BY <1>4, <2>1, <2>3 DEF Purge, RemoveSubscriberInfo
    <3>2. Listed' = Listed \ {chain.at}
      BY <1>1, <2>1, <3>1, Removal
    <3> QED
      BY <1>1, <2>1, <2>2, <3>1, <3>2 DEF ChainPlace, ChainRecord
  <2>4. CASE info[chain.at].time # "expired"
    <3>1. Listed' = Listed /\ chain' = [chain EXCEPT !.at = After(chain.at)]
      BY <1>4, <2>4, SameList DEF Purge, members
    <3> QED
      BY <1>1, <2>1, <2>2, <3>1 DEF ChainPlace, ChainRecord
  <2> QED
    BY <2>3, <2>4
<1>5. CASE PurgeFrees
  <2>1. Listed' = Listed
    BY <1>5, SameList DEF PurgeFrees, members
  <2>2. chain.next \in Listed \cup {NoSubscriber}
    BY <1>5, Standing DEF PurgeFrees
  <2> QED
    BY <1>5, <2>1, <2>2 DEF PurgeFrees, ChainPlace, Idle
<1>6. CASE Refuse \/ InitialEvent
  BY <1>6 DEF Refuse, InitialEvent, ChainPlace, Idle
<1>7. CASE Accept
  <2>1. PICK s \in Subscriber \ Listed :
               /\ HeadSubscriberPtr' = <<s>> \o HeadSubscriberPtr
               /\ chain' = [Idle EXCEPT !.pc = "body", !.at = s] /\ info'[s].mem = "live"
    BY <1>7, AcceptInfo
  <2>2. s \in Listed'
    BY <1>1, <2>1, Insertion
  <2> QED
    BY <2>1, <2>2 DEF ChainPlace, Idle
<1>8. CASE InitialEventBody \/ InitialEventRead
  <2>1. chain.at \in Listed /\ info[chain.at].mem = "live"
    BY <1>8, Standing DEF InitialEventBody, InitialEventRead
  <2>2. Listed' = Listed /\ info' = info
    BY <1>8, SameList DEF InitialEventBody, InitialEventRead, members
  <2> QED
    BY <1>1, <1>8, <2>1, <2>2 DEF InitialEventBody, InitialEventRead, ChainPlace, ChainRecord
<1>9. \/ UNCHANGED chain \/ TryToSubscribe \/ Purge \/ PurgeFrees \/ Refuse \/ Accept
      \/ InitialEventBody \/ InitialEventRead \/ InitialEvent
  BY StepCases
  DEF SetState, SendEvent, Visit, Notify, SendEventEnds, RenewEvents, Expires,
      ProcessUNSUBSCRIBE, SendEventSink
<1> QED
  BY <1>2, <1>3, <1>4, <1>5, <1>6, <1>7, <1>8, <1>9

\* No step breaks WalkPlace.
LEMMA WalkPlaceStep ==
  ASSUME DVInvariant, [DVNext]_DVvars
  PROVE  WalkPlace'
<1>1. /\ WalkPlace /\ NoSubscriber \notin Subscriber /\ Listed \subseteq Subscriber
      /\ app \in AppRecord /\ chain \in ChainRecord /\ DVTypeOK /\ NoneTwice
  BY Standing DEF DVInvariant
<1>2. ASSUME NEW s \in Subscriber, s \in Listed \cup Leaving \/ Gone(s),
             EventLock \/ Gone(s)
      PROVE  s \in Listed' \cup Leaving' \/ Gone(s)'
  <2>1. CASE Gone(s)
    <3>1. info'[s].mem = info[s].mem \/ info'[s].mem = "purged"
      BY <2>1, MemCases DEF Gone
    <3> QED
      BY <2>1, <3>1 DEF Gone
  <2>2. CASE EventLock /\ s \in Listed
    <3>1. \/ Listed \subseteq Listed'
          \/ Listed' = Listed \ {chain.at}
             /\ chain' = [chain EXCEPT !.pc = "free", !.next = After(chain.at)]
      BY <2>2, ListedCases
    <3> QED
      BY <1>1, <2>2, <3>1 DEF Leaving, ChainRecord
  <2>3. CASE s \in Leaving
    <3>1. chain.pc = "free" /\ chain.at = s
      BY <2>3 DEF Leaving
    <3>2. CASE PurgeFrees
      BY <1>1, <3>1, <3>2, Standing DEF PurgeFrees, Gone, Blank, InfoRecord
    <3>3. CASE chain' = chain
      BY <2>3, <3>3 DEF Leaving
    <3>4. PurgeFrees \/ chain' = chain
      BY <3>1, StepCases
      DEF SetState, SendEvent, Visit, Notify, SendEventEnds, TryToSubscribe, Purge, Refuse,
          Accept, InitialEventBody, InitialEventRead, InitialEvent, RenewEvents, Expires,
          ProcessUNSUBSCRIBE, SendEventSink
    <3> QED
      BY <3>2, <3>3, <3>4
  <2> QED
    BY <1>2, <2>1, <2>2, <2>3
<1>3. \A s \in Listed : After(s) \in Listed \cup {NoSubscriber}
  BY <1>1, NextInList
<1>4. \A s : s \notin Listed => After(s) = NoSubscriber
  BY DEF After
<1>5. CASE UNCHANGED <<app, EventLock>>
  BY <1>1, <1>2, <1>5 DEF WalkPlace, AppRecord
<1>6. CASE SetState
  BY <1>1, <1>6 DEF SetState, WalkPlace, AppRecord
<1>7. CASE SendEvent
  <2>1. First(HeadSubscriberPtr) \in Listed \cup {NoSubscriber} /\ Listed' = Listed
    BY <1>1, <1>7, HeadOfList, SameList DEF SendEvent, members
  <2> QED
    BY <1>1, <1>7, <2>1 DEF SendEvent, WalkPlace, AppRecord
<1>8. CASE Visit
  <2>1. Listed' = Listed /\ app.at # NoSubscriber /\ app.pc = "walk" /\ EventLock' = EventLock
    BY <1>8, SameList DEF Visit, members
  <2>2. \/ app' = [app EXCEPT !.at = After(app.at)]
        \/ app' = [app EXCEPT !.pc = "send", !.read = ReadFields(app.at)]
    BY <1>8 DEF Visit
  <2>3. EventLock /\ app.at \in Subscriber
    BY <1>1, <2>1 DEF WalkPlace, AppRecord
  <2>4. CASE app' = [app EXCEPT !.at = After(app.at)]
    <3>1. app'.pc = "walk" /\ app'.at \in Listed' \cup {NoSubscriber}
      BY <1>1, <1>3, <1>4, <2>1, <2>4 DEF AppRecord
    <3> QED
      BY <2>1, <2>3, <3>1 DEF WalkPlace
  <2>5. CASE app' = [app EXCEPT !.pc = "send", !.read = ReadFields(app.at)]
    <3>1. app'.pc = "send" /\ app'.at = app.at
      BY <1>1, <2>5 DEF AppRecord
    <3> QED
      BY <1>1, <1>2, <2>1, <2>3, <3>1 DEF WalkPlace
  <2> QED
    BY <2>2, <2>4, <2>5
<1>9. CASE Notify
  <2>1. /\ Listed' = Listed /\ EventLock' = EventLock /\ app.pc = "send"
        /\ app' = [pc |-> "walk", at |-> After(app.at), read |-> NoFields]
    BY <1>9, SameList DEF Notify, members
  <2> QED
    BY <1>1, <1>3, <1>4, <2>1 DEF WalkPlace
<1>10. CASE SendEventEnds
  BY <1>1, <1>10 DEF SendEventEnds, WalkPlace, AppRecord
<1>11. \/ UNCHANGED <<app, EventLock>> \/ SetState \/ SendEvent \/ Visit \/ Notify
       \/ SendEventEnds
  BY StepCases
  DEF TryToSubscribe, Purge, PurgeFrees, Refuse, Accept, InitialEventBody, InitialEventRead,
      InitialEvent, RenewEvents, Expires, ProcessUNSUBSCRIBE, SendEventSink
<1> QED
  BY <1>5, <1>6, <1>7, <1>8, <1>9, <1>10, <1>11

\* ReferencesCounted, of one subscriber.
SubscriberCounted(s) ==
  /\ info[s].mem = "live" /\ ~info[s].Disposing =>
       info[s].RefCount = Len(requests[s]) + (IF s \in Listed \cup Leaving THEN 1 ELSE 0)
  /\ info[s].mem = "freed" => s \notin Listed /\ requests[s] = <<>> /\ app.at # s
  /\ info[s].Disposing => s \notin Listed

\* The walk notifies a subscriber that is there.
LEMMA NotifyLive ==
  ASSUME DVInvariant, Notify
  PROVE  /\ app.pc = "send" /\ app.at \in Subscriber /\ info[app.at].mem = "live" /\ EventLock
         /\ app.read \in Fields /\ SetupReady \in Nat
         /\ SendEvent_Body(app.at, app.read, SetupReady)
<1>1. /\ app.pc = "send" /\ app.at \in Subscriber /\ app \in AppRecord /\ ~Gone(app.at)
  BY Standing DEF Notify
<1>2. (app.at \in Listed \/ app.at \in Leaving) /\ EventLock
  BY <1>1, Standing DEF DVInvariant, WalkPlace
<1>3. info[app.at].mem = "live"
  BY <1>1, <1>2, Standing DEF DVInvariant, Allocated, Leaving, Gone
<1> QED
  BY <1>1, <1>2, <1>3 DEF AppRecord, DVInvariant, DVTypeOK, Notify

\* A subscriber once met before its initial event stays set apart.
LEMMA RacedGrows ==
  ASSUME [DVNext]_DVvars
  PROVE  /\ raced \subseteq raced'
         /\ Visit /\ app.at \in Starting => app.at \in raced'
<1> USE DEF notes
<1>1. CASE Visit
  BY <1>1 DEF Visit
<1>2. raced' = raced \/ Visit
  BY StepCases
  DEF SetState, SendEvent, Notify, SendEventEnds, TryToSubscribe, Purge, PurgeFrees, Refuse,
      Accept, InitialEventBody, InitialEventRead, InitialEvent, RenewEvents, Expires,
      ProcessUNSUBSCRIBE, SendEventSink
<1> QED
  BY <1>1, <1>2

\* Where the walk goes: nowhere, to the head, or to the next of where it is.
LEMMA WalkGoes ==
  ASSUME DVInvariant, [DVNext]_DVvars
  PROVE  app'.at \in Listed \cup {app.at, NoSubscriber}
<1>1. DVTypeOK /\ NoneTwice /\ app \in AppRecord
  BY Standing
<1>2. \A s : After(s) \in Listed \cup {NoSubscriber}
  <2>1. ASSUME NEW s PROVE After(s) \in Listed \cup {NoSubscriber}
    <3>1. CASE s \in Listed
      BY <3>1, <1>1, NextInList
    <3>2. CASE s \notin Listed
      BY <3>2 DEF After
    <3> QED
      BY <3>1, <3>2
  <2> QED
    BY <2>1
<1>3. CASE SendEvent
  BY <1>1, <1>3, HeadOfList DEF SendEvent, AppRecord
<1>4. CASE Visit
  BY <1>1, <1>2, <1>4 DEF Visit, AppRecord
<1>5. CASE Notify
  BY <1>2, <1>5 DEF Notify
<1>6. SendEvent \/ Visit \/ Notify \/ app'.at = app.at
  BY <1>1, StepCases
  DEF SetState, SendEventEnds, TryToSubscribe, Purge, PurgeFrees, Refuse,
      Accept, InitialEventBody, InitialEventRead, InitialEvent, RenewEvents, Expires,
      ProcessUNSUBSCRIBE, SendEventSink, AppRecord
<1> QED
  BY <1>3, <1>4, <1>5, <1>6

\* The count of a notification that has ended, or of a subscriber that has left.
LEMMA CountedStep ==
  ASSUME DVInvariant, NEW s \in Subscriber, SubscriberCounted(s), chain.pc = "idle",
         chain' = chain, app' = app,
         \/ ProcessUNSUBSCRIBE(s)
         \/ \E response \in BOOLEAN : SendEventSink(s, response)
  PROVE  SubscriberCounted(s)'
<1>1. /\ DVTypeOK /\ NoneTwice /\ requests[s] \in Seq(Nat) /\ info \in [Subscriber -> InfoRecord]
      /\ NoSubscriber \notin Subscriber /\ Leaving = {} /\ Leaving' = {}
      /\ ~EventLock => app'.at = NoSubscriber
  BY Standing DEF Leaving, DVInvariant, WalkPlace
<1>2. Len(requests[s]) \in Nat /\ info[s].RefCount \in Nat
  BY <1>1, LenProperties DEF InfoRecord
<1>3. RemoveSubscriberInfo(s) /\ s \in Listed => s \notin Listed'
  BY <1>1, Removal DEF RemoveSubscriberInfo
<1>4. ASSUME NEW n \in Nat, NEW d \in BOOLEAN, info' = Counted(s, n, d)
      PROVE  /\ n = 0 => info'[s].mem = "freed" /\ ~info'[s].Disposing
             /\ n # 0 => /\ info'[s].mem = info[s].mem /\ info'[s].RefCount = n
                         /\ info'[s].Disposing <=> d
  BY <1>1, <1>4, CountedInfo DEF Blank
<1>5. CASE ProcessUNSUBSCRIBE(s)
  <2> DEFINE n == info[s].RefCount - 1
  <2>1. /\ s \in Listed /\ info[s].mem = "live" /\ ~EventLock /\ n \in Nat
        /\ info[s].Disposing \in BOOLEAN /\ info' = Counted(s, n, info[s].Disposing)
        /\ RemoveSubscriberInfo(s)
    BY <1>5, UnsubscribeCase
  <2>2. requests' = requests
    BY <1>5 DEF ProcessUNSUBSCRIBE
  <2>3. ~info[s].Disposing /\ info[s].RefCount = Len(requests[s]) + 1
    BY <2>1 DEF SubscriberCounted
  <2>4. n = Len(requests[s])
    BY <1>2, <2>3
  <2> HIDE DEF n
  <2>5. n = 0 => requests[s] = <<>>
    BY <1>1, <2>4, EmptySeq
  <2>6. /\ n = 0 => info'[s].mem = "freed" /\ ~info'[s].Disposing
        /\ n # 0 => /\ info'[s].mem = "live" /\ info'[s].RefCount = n /\ ~info'[s].Disposing
    BY <1>4, <2>1, <2>3
  <2>7. n + 0 = n
    BY <2>1
  <2> QED
    BY <1>1, <1>3, <2>1, <2>2, <2>4, <2>5, <2>6, <2>7 DEF SubscriberCounted
<1>6. ASSUME NEW response \in BOOLEAN, SendEventSink(s, response) PROVE SubscriberCounted(s)'
  <2>1. /\ info[s].mem = "live" /\ requests[s] # <<>>
        /\ requests' \in [Subscriber -> Seq(Nat)] /\ Len(requests'[s]) = Len(requests[s]) - 1
    BY <1>6, SinkCases
  <2>2. /\ Len(requests'[s]) \in Nat /\ (Len(requests'[s]) = 0 => requests'[s] = <<>>)
        /\ Len(requests[s]) > 0
    <3>1. requests'[s] \in Seq(Nat) /\ requests[s] \in Seq(Nat)
      BY <1>1, <2>1
    <3>2. Len(requests'[s]) \in Nat /\ (Len(requests'[s]) = 0 => requests'[s] = <<>>)
      BY <3>1, LenProperties, EmptySeq
    <3>3. Len(requests[s]) # 0
      BY <3>1, <2>1, EmptySeq
    <3> QED
      BY <1>2, <3>2, <3>3
  <2>3. \/ info[s].Disposing /\ UNCHANGED <<members, info>>
        \/ /\ ~info[s].Disposing /\ ~EventLock
           /\ \E n \in Nat :
                /\ n = info[s].RefCount - 1
                /\ \/ info' = Counted(s, n, FALSE) /\ UNCHANGED members
                   \/ /\ n # 0 /\ s \notin Listed
                      /\ info' = Counted(s, n, TRUE) /\ UNCHANGED members
                   \/ /\ n # 0 /\ s \in Listed /\ n - 1 \in Nat
                      /\ info' = Counted(s, n - 1, TRUE) /\ RemoveSubscriberInfo(s)
    BY <1>6, SinkCases
  <2>4. UNCHANGED members => Listed' = Listed
    BY SameList DEF members
  <2>5. CASE info[s].Disposing
    BY <2>1, <2>3, <2>4, <2>5 DEF SubscriberCounted
  <2>6. CASE ~info[s].Disposing
    <3>1. PICK n \in Nat :
            /\ n = info[s].RefCount - 1
            /\ \/ info' = Counted(s, n, FALSE) /\ UNCHANGED members
               \/ /\ n # 0 /\ s \notin Listed
                  /\ info' = Counted(s, n, TRUE) /\ UNCHANGED members
               \/ /\ n # 0 /\ s \in Listed /\ n - 1 \in Nat
                  /\ info' = Counted(s, n - 1, TRUE) /\ RemoveSubscriberInfo(s)
      BY <2>3, <2>6
    <3>2. /\ info[s].RefCount = Len(requests[s]) + (IF s \in Listed THEN 1 ELSE 0)
          /\ ~EventLock
      BY <1>1, <2>1, <2>3, <2>6 DEF SubscriberCounted
    <3>3. /\ n = Len(requests'[s]) + (IF s \in Listed THEN 1 ELSE 0)
          /\ (s \in Listed => n - 1 = Len(requests'[s]) /\ n # 0)
          /\ (s \notin Listed => n = Len(requests'[s]))
      <4> DEFINE before == Len(requests[s])
                 after == Len(requests'[s])
      <4>1. before \in Nat /\ after \in Nat /\ after = before - 1
        BY <1>2, <2>1, <2>2
      <4>2. n = (before + (IF s \in Listed THEN 1 ELSE 0)) - 1
        BY <3>1, <3>2
      <4> HIDE DEF before, after
      <4>3. /\ n = after + (IF s \in Listed THEN 1 ELSE 0)
            /\ (s \in Listed => n - 1 = after /\ n # 0)
            /\ (s \notin Listed => n = after)
        BY <4>1, <4>2
      <4> QED
        BY <4>3 DEF after
    <3>4. n = 0 => s \notin Listed /\ requests'[s] = <<>>
      <4>1. n = 0 => s \notin Listed
        BY <3>3
      <4>2. n = 0 => Len(requests'[s]) = 0
        BY <2>2, <3>3, <4>1
      <4> QED
        BY <2>2, <4>1, <4>2
    <3>5. CASE info' = Counted(s, n, FALSE) /\ UNCHANGED members
      BY <1>1, <1>4, <2>1, <2>4, <3>2, <3>3, <3>4, <3>5 DEF SubscriberCounted
    <3>6. CASE n # 0 /\ s \notin Listed /\ info' = Counted(s, n, TRUE) /\ UNCHANGED members
      BY <1>4, <2>1, <2>4, <3>6 DEF SubscriberCounted
    <3>7. CASE n # 0 /\ s \in Listed /\ n - 1 \in Nat /\ info' = Counted(s, n - 1, TRUE)
               /\ RemoveSubscriberInfo(s)
      <4>1. s \notin Listed'
        BY <1>3, <3>7
      <4>2. n - 1 = 0 => requests'[s] = <<>>
        BY <2>2, <3>3, <3>7
      <4> HIDE DEF RemoveSubscriberInfo
      <4>3. /\ n - 1 = 0 => info'[s].mem = "freed" /\ ~info'[s].Disposing
            /\ n - 1 # 0 => info'[s].mem = info[s].mem /\ info'[s].Disposing
        BY <1>4, <3>7
      <4> QED
        BY <1>1, <2>1, <3>2, <4>1, <4>2, <4>3 DEF SubscriberCounted
    <3> QED
      BY <3>1, <3>5, <3>6, <3>7
  <2> QED
    BY <2>5, <2>6
<1> QED
  BY <1>5, <1>6

\* No step breaks ReferencesCounted.
LEMMA ReferencesStep ==
  ASSUME DVInvariant, [DVNext]_DVvars
  PROVE  ReferencesCounted'
<1>1. /\ DVTypeOK /\ NoneTwice /\ Listed \subseteq Subscriber /\ NoSubscriber \notin Subscriber
      /\ info \in [Subscriber -> InfoRecord] /\ requests \in [Subscriber -> Seq(Nat)]
      /\ \A s \in Subscriber : Len(requests[s]) \in Nat
  BY Standing, LenProperties
<1> SUFFICES ASSUME NEW s \in Subscriber, s \notin raced' PROVE SubscriberCounted(s)'
  BY DEF ReferencesCounted, SubscriberCounted
<1>2. s \notin raced /\ SubscriberCounted(s)
  BY RacedGrows DEF DVInvariant, ReferencesCounted, SubscriberCounted
<1>3. app'.at \in Listed \cup {app.at, NoSubscriber}
  BY WalkGoes
\* A step that only changes what is not counted of s.
<1>4. ASSUME info'[s].mem = info[s].mem, info'[s].RefCount = info[s].RefCount,
             info'[s].Disposing <=> info[s].Disposing, requests'[s] = requests[s],
             s \in Listed' => s \in Listed,
             s \in Listed' \cup Leaving' <=> s \in Listed \cup Leaving
      PROVE  SubscriberCounted(s)'
  BY <1>1, <1>2, <1>3, <1>4 DEF SubscriberCounted
<1>5. ASSUME UNCHANGED <<members, info, requests>>, Leaving' = Leaving PROVE SubscriberCounted(s)'
  BY <1>4, <1>5, SameList DEF members
<1>6. ASSUME NEW r \in Subscriber, info[r].mem = "live", NEW read \in Fields, NEW value \in Nat,
             SendEvent_Body(r, read, value), UNCHANGED members, Leaving' = Leaving,
             r = s => read.RefCount = info[s].RefCount
      PROVE  SubscriberCounted(s)'
  <2>1. Listed' = Listed
    BY <1>6, SameList DEF members
  <2>2. /\ r # s => info'[s] = info[s] /\ requests'[s] = requests[s]
        /\ info'[r].mem = info[r].mem /\ info'[r].RefCount = read.RefCount + 1
        /\ info'[r].Disposing = info[r].Disposing
        /\ Len(requests'[r]) = Len(requests[r]) + 1
    BY <1>1, <1>6, NotificationInfo
  <2>3. CASE r # s
    BY <1>4, <1>6, <2>1, <2>2, <2>3
  <2>4. CASE r = s
    <3> DEFINE before == Len(requests[s])
               after == Len(requests'[s])
               listed == IF s \in Listed \cup Leaving THEN 1 ELSE 0
    <3>1. before \in Nat /\ after = before + 1 /\ info'[s].RefCount = info[s].RefCount + 1
      BY <1>1, <1>6, <2>2, <2>4
    <3>2. ~info[s].Disposing => info[s].RefCount = before + listed
      BY <1>2, <1>6, <2>4 DEF SubscriberCounted
    <3>3. listed \in Nat
      OBVIOUS
    <3> HIDE DEF before, after, listed
    <3>4. ~info[s].Disposing => info'[s].RefCount = after + listed
      BY <3>1, <3>2, <3>3
    <3>5. /\ info'[s].mem = "live" /\ (info'[s].Disposing <=> info[s].Disposing)
          /\ (info[s].Disposing => s \notin Listed)
      BY <1>2, <1>6, <2>2, <2>4 DEF SubscriberCounted
    <3> QED
      BY <1>6, <2>1, <3>4, <3>5 DEF SubscriberCounted, after, listed
  <2> QED
    BY <2>3, <2>4
<1>7. CASE Notify
  <2>1. /\ app.at \in Subscriber /\ info[app.at].mem = "live" /\ app.pc = "send"
        /\ app.read \in Fields /\ SetupReady \in Nat
        /\ SendEvent_Body(app.at, app.read, SetupReady)
    BY <1>7, NotifyLive
  <2>2. app.at = s => app.read.RefCount = info[s].RefCount
    BY <1>2, <2>1 DEF DVInvariant, ReadsCurrent
  <2>3. UNCHANGED members /\ Leaving' = Leaving
    BY <1>7 DEF Notify, members, Leaving
  <2> QED
    BY <1>6, <2>1, <2>2, <2>3
<1>8. CASE Purge
  <2>1. CASE UNCHANGED members
    <3>1. Leaving' = {} /\ Leaving = {}
      <4>1. chain.pc = "purge" /\ chain.at \in Listed
        BY <1>8, Standing DEF Purge
      <4>2. NumberOfSubscribers \in Nat
        BY <1>1 DEF DVTypeOK
      <4>3. info[chain.at].time # "expired"
        BY <1>8, <2>1, <4>1, <4>2 DEF Purge, RemoveSubscriberInfo, members
      <4> QED
        BY <1>8, <4>1, <4>3, Standing DEF Purge, Leaving, ChainRecord
    <3> QED
      BY <1>5, <1>8, <2>1, <3>1 DEF Purge
  <2>2. CASE ~UNCHANGED members
    <3>1. /\ chain.pc = "purge" /\ chain.at \in Listed /\ HeadSubscriberPtr' = Without(chain.at)
          /\ chain' = [chain EXCEPT !.pc = "free", !.next = After(chain.at)]
          /\ UNCHANGED <<info, requests>>
      BY <1>8, <2>2, Standing DEF Purge, RemoveSubscriberInfo
    <3>2. Listed' = Listed \ {chain.at}
      BY <1>1, <3>1, Removal
    <3>3. Leaving = {} /\ Leaving' = {chain.at}
      BY <3>1, Standing DEF Leaving, ChainRecord
    <3> QED
      BY <1>4, <3>1, <3>2, <3>3
  <2> QED
    BY <2>1, <2>2
<1>9. CASE PurgeFrees
  <2>1. /\ chain.pc = "free" /\ chain.at \in Subscriber /\ requests' = requests
        /\ info' = [info EXCEPT ![chain.at] = Blank("purged")] /\ chain'.pc = "purge"
    BY <1>9, Standing DEF PurgeFrees, Idle
  <2>2. Listed' = Listed /\ Leaving = {chain.at} /\ Leaving' = {}
    BY <1>9, <2>1, SameList DEF PurgeFrees, members, Leaving
  <2>3. CASE s = chain.at
    <3>1. info'[s].mem = "purged" /\ ~info'[s].Disposing
      BY <1>1, <2>1, <2>3 DEF Blank
    <3> QED
      BY <3>1 DEF SubscriberCounted
  <2>4. CASE s # chain.at
    <3>1. info'[s] = info[s]
      BY <1>1, <2>1, <2>4
    <3> QED
      BY <1>4, <2>1, <2>2, <2>4, <3>1
  <2> QED
    BY <2>3, <2>4
<1>10. CASE Accept
  <2>1. PICK r \in Subscriber \ Listed :
               /\ info[r].mem = "none" /\ HeadSubscriberPtr' = <<r>> \o HeadSubscriberPtr
               /\ chain' = [Idle EXCEPT !.pc = "body", !.at = r]
               /\ \A q \in Subscriber : q # r => info'[q] = info[q]
               /\ info'[r].mem = "live" /\ info'[r].RefCount = 1
               /\ info'[r].Disposing = info[r].Disposing
    BY <1>10, AcceptInfo
  <2>2. Listed' = Listed \cup {r}
    BY <1>1, <2>1, Insertion
  <2>3. requests' = requests /\ Leaving = {} /\ Leaving' = {}
    BY <1>10, <2>1 DEF Accept, Leaving, Idle
  <2>4. CASE s = r
    <3>1. requests[s] = <<>> /\ ~info[s].Disposing
      BY <2>1, <2>4 DEF DVInvariant, Allocated
    <3>2. Len(requests'[s]) = 0
      BY <2>3, <3>1
    <3> QED
      BY <2>1, <2>2, <2>4, <3>1, <3>2 DEF SubscriberCounted
  <2>5. CASE s # r
    BY <1>4, <2>1, <2>2, <2>3, <2>5
  <2> QED
    BY <2>4, <2>5
<1>11. CASE InitialEvent
  <2>1. /\ chain.pc = "send" /\ chain.at \in Subscriber /\ info[chain.at].mem = "live"
        /\ chain.read \in Fields /\ chain.body \in Nat
        /\ SendEvent_Body(chain.at, chain.read, chain.body)
    BY <1>11, Standing DEF InitialEvent, ChainRecord
  <2>2. chain.at = s => chain.read.RefCount = info[s].RefCount
    BY <1>2, <2>1 DEF DVInvariant, ReadsCurrent
  <2>3. UNCHANGED members /\ Leaving' = Leaving
    BY <1>11 DEF InitialEvent, members, Leaving, Idle
  <2> QED
    BY <1>6, <2>1, <2>2, <2>3
<1>12. ASSUME NEW r \in Subscriber, RenewEvents(r) \/ Expires(r) PROVE SubscriberCounted(s)'
  <2>1. /\ UNCHANGED <<members, chain, requests>>
        /\ \E t \in {"expired", "lapsed"} : info' = [info EXCEPT ![r].time = t]
    BY <1>12 DEF RenewEvents, Expires
  <2>2. /\ info'[s].mem = info[s].mem /\ info'[s].RefCount = info[s].RefCount
        /\ info'[s].Disposing <=> info[s].Disposing
    BY <1>1, <2>1 DEF InfoRecord
  <2>3. Listed' = Listed /\ Leaving' = Leaving
    BY <2>1, SameList DEF members, Leaving
  <2> QED
    BY <1>4, <2>1, <2>2, <2>3
<1>13. ASSUME NEW r \in Subscriber,
              ProcessUNSUBSCRIBE(r) \/ \E response \in BOOLEAN : SendEventSink(r, response)
       PROVE  SubscriberCounted(s)'
  <2>1. chain.pc = "idle" /\ UNCHANGED <<chain, app>>
    BY <1>13 DEF ProcessUNSUBSCRIBE, SendEventSink, Answer
  <2>2. CASE r = s
    BY <1>2, <1>13, <2>1, <2>2, CountedStep
  <2>3. CASE r # s
    <3>1. info'[s] = info[s] /\ requests'[s] = requests[s] /\ (s \in Listed' <=> s \in Listed)
      <4>1. CASE ProcessUNSUBSCRIBE(r)
        <5>1. /\ r \in Listed /\ RemoveSubscriberInfo(r)
              /\ info[r].RefCount - 1 \in Nat /\ info[r].Disposing \in BOOLEAN
              /\ info' = Counted(r, info[r].RefCount - 1, info[r].Disposing)
          BY <4>1, UnsubscribeCase
        <5>2. Listed' = Listed \ {r}
          BY <1>1, <5>1, Removal DEF RemoveSubscriberInfo
        <5>3. info'[s] = info[s]
          BY <1>1, <2>3, <5>1, CountedInfo
        <5> QED
          BY <2>3, <4>1, <5>2, <5>3 DEF ProcessUNSUBSCRIBE
      <4>2. ASSUME NEW response \in BOOLEAN, SendEventSink(r, response)
            PROVE  info'[s] = info[s] /\ requests'[s] = requests[s] /\ (s \in Listed' <=> s \in Listed)
        <5>1. /\ requests' = [requests EXCEPT ![r] = Tail(@)]
              /\ \/ UNCHANGED <<members, info>>
                 \/ \E n \in Nat : \E d \in BOOLEAN :
                      /\ info' = Counted(r, n, d)
                      /\ UNCHANGED members \/ (r \in Listed /\ RemoveSubscriberInfo(r))
          BY <4>2, SinkCases
        <5>2. UNCHANGED members => Listed' = Listed
          BY SameList DEF members
        <5>3. r \in Listed /\ RemoveSubscriberInfo(r) => Listed' = Listed \ {r}
          BY <1>1, Removal DEF RemoveSubscriberInfo
        <5>4. info'[s] = info[s]
          BY <1>1, <2>3, <5>1, CountedInfo
        <5>5. requests'[s] = requests[s]
          BY <1>1, <2>3, <5>1
        <5>6. UNCHANGED members \/ (r \in Listed /\ RemoveSubscriberInfo(r))
          BY <5>1
        <5> QED
          BY <2>3, <5>2, <5>3, <5>4, <5>5, <5>6
      <4> QED
        BY <1>13, <4>1, <4>2
    <3>2. Leaving' = Leaving
      BY <2>1 DEF Leaving
    <3> QED
      BY <1>4, <3>1, <3>2
  <2> QED
    BY <2>2, <2>3
<1>14. CASE SetState \/ SendEvent \/ Visit \/ SendEventEnds
            \/ UNCHANGED <<members, info, SetupReady, EventLock, app, chain, requests, notes>>
  <2>1. UNCHANGED <<members, info, requests, chain>>
    BY <1>14 DEF SetState, SendEvent, Visit, SendEventEnds
  <2> QED
    BY <1>5, <2>1 DEF Leaving
<1>15. CASE TryToSubscribe \/ Refuse \/ InitialEventBody \/ InitialEventRead
  <2>1. UNCHANGED <<members, info, requests>> /\ chain.pc # "free"
    BY <1>15 DEF TryToSubscribe, Refuse, InitialEventBody, InitialEventRead
  <2>2. CASE TryToSubscribe \/ Refuse
    <3>1. chain'.pc \in {"purge", "idle"}
      <4>1. CASE TryToSubscribe
        BY <4>1 DEF TryToSubscribe, Idle
      <4>2. CASE Refuse
        BY <4>2 DEF Refuse, Idle
      <4> QED
        BY <2>2, <4>1, <4>2
    <3> QED
      BY <1>5, <2>1, <3>1 DEF Leaving
  <2>3. CASE InitialEventBody \/ InitialEventRead
    <3>1. chain'.pc \in {"read", "send"}
      BY <2>3, Standing DEF InitialEventBody, InitialEventRead, ChainRecord
    <3> QED
      BY <1>5, <2>1, <3>1 DEF Leaving
  <2> QED
    BY <1>15, <2>2, <2>3
<1> QED
  BY <1>7, <1>8, <1>9, <1>10, <1>11, <1>12, <1>13, <1>14, <1>15, StepCases

\* No step breaks ReadsCurrent.
LEMMA ReadsStep ==
  ASSUME DVInvariant, [DVNext]_DVvars
  PROVE  ReadsCurrent'
<1>1. /\ info \in [Subscriber -> InfoRecord] /\ app \in AppRecord /\ chain \in ChainRecord
      /\ DVTypeOK /\ Listed \subseteq Subscriber /\ NoSubscriber \notin Subscriber
  BY Standing
<1>2. /\ app.pc = "send" /\ app.at \notin raced /\ info[app.at].mem = "live" =>
           app.read.RefCount = info[app.at].RefCount /\ app.at \notin Starting
      /\ chain.pc = "send" /\ chain.at \notin raced =>
           chain.read.RefCount = info[chain.at].RefCount
  BY DEF DVInvariant, ReadsCurrent
<1>3. raced \subseteq raced'
  BY RacedGrows
<1>4. /\ app.pc = "send" => app.at \in Subscriber /\ EventLock
      /\ chain.pc \in {"body", "read", "send"} => chain.at \in Subscriber
  BY Standing DEF DVInvariant, WalkPlace
\* A step of neither read, that keeps the records the reads are of.
<1>5. ASSUME UNCHANGED <<app, chain>>,
             \A s \in Subscriber : info'[s].mem = info[s].mem /\ info'[s].RefCount = info[s].RefCount
      PROVE  ReadsCurrent'
  BY <1>2, <1>3, <1>4, <1>5 DEF ReadsCurrent, Starting
<1>6. ASSUME UNCHANGED <<info, chain>>, app'.pc # "send" PROVE ReadsCurrent'
  BY <1>2, <1>3, <1>6 DEF ReadsCurrent
<1>7. CASE Visit
  <2>1. UNCHANGED <<info, chain>>
    BY <1>7 DEF Visit
  <2>2. CASE app'.pc # "send"
    BY <1>6, <2>1, <2>2
  <2>3. CASE app'.pc = "send"
    <3>1. app'.at = app.at /\ app'.read = ReadFields(app.at)
      BY <1>1, <1>7, <2>3 DEF Visit, AppRecord
    <3>2. app.at \in Starting => app.at \in raced'
      BY <1>7, RacedGrows
    <3>3. Starting' = Starting
      BY <2>1 DEF Starting
    <3> QED
      BY <1>2, <1>3, <2>1, <3>1, <3>2, <3>3 DEF ReadsCurrent, ReadFields
  <2> QED
    BY <2>2, <2>3
<1>8. CASE Notify
  <2>1. /\ app.pc = "send" /\ app.at \in Subscriber /\ info[app.at].mem = "live"
        /\ app.read \in Fields /\ SetupReady \in Nat
        /\ SendEvent_Body(app.at, app.read, SetupReady)
    BY <1>8, NotifyLive
  <2>2. \A r \in Subscriber : r # app.at => info'[r] = info[r]
    BY <1>1, <2>1, NotificationInfo
  <2>3. chain' = chain /\ app'.pc = "walk" /\ raced' = raced
    BY <1>8 DEF Notify
  <2>4. chain.pc = "send" /\ chain.at \notin raced => app.at # chain.at
    BY <1>2, <2>1 DEF Starting
  <2> QED
    BY <1>2, <1>4, <2>2, <2>3, <2>4 DEF ReadsCurrent
<1>9. CASE SetState \/ SendEvent \/ SendEventEnds
  <2>1. UNCHANGED <<info, chain>> /\ app'.pc # "send"
    BY <1>1, <1>9 DEF SetState, SendEvent, SendEventEnds, AppRecord
  <2> QED
    BY <1>6, <2>1
\* The chain's thread, where it neither reads nor starts.
<1>10. ASSUME UNCHANGED app, chain'.pc \notin {"body", "read", "send"},
              \A s \in Subscriber :
                \/ info'[s].mem = info[s].mem /\ info'[s].RefCount = info[s].RefCount
                \/ info'[s].mem # "live" \/ s \in Starting
       PROVE  ReadsCurrent'
  <2>1. Starting' = {} /\ \A s \in Starting : info[s].mem = "live"
    BY <1>10, Standing DEF Starting
  <2>2. chain'.pc # "send"
    BY <1>10
  <2>3. ASSUME app.pc = "send", app.at \notin raced', info'[app.at].mem = "live"
        PROVE  app.read.RefCount = info'[app.at].RefCount
    <3>1. app.at \in Subscriber /\ app.at \notin raced
      BY <1>3, <1>4, <2>3
    <3>2. app.at \notin Starting
      BY <1>2, <2>1, <2>3, <3>1
    <3>3. info'[app.at].mem = info[app.at].mem /\ info'[app.at].RefCount = info[app.at].RefCount
      BY <1>10, <2>3, <3>1, <3>2
    <3> QED
      BY <1>2, <2>3, <3>1, <3>3
  <2> QED
    BY <1>10, <2>1, <2>2, <2>3 DEF ReadsCurrent
<1>11. CASE TryToSubscribe \/ Purge \/ Refuse
  <2>1. UNCHANGED <<app, info>>
    BY <1>11 DEF TryToSubscribe, Purge, Refuse
  <2>2. chain'.pc \in {"idle", "purge", "free"}
    <3>1. CASE TryToSubscribe
      BY <3>1 DEF TryToSubscribe, Idle
    <3>2. CASE Refuse
      BY <3>2 DEF Refuse, Idle
    <3>3. CASE Purge
      BY <1>1, <3>3 DEF Purge, ChainRecord
    <3> QED
      BY <1>11, <3>1, <3>2, <3>3
  <2> QED
    BY <1>10, <2>1, <2>2
<1>12. CASE PurgeFrees
  <2>1. chain.at \in Subscriber /\ info' = [info EXCEPT ![chain.at] = Blank("purged")]
        /\ UNCHANGED app /\ chain'.pc = "purge"
    BY <1>12, Standing DEF PurgeFrees, Idle
  <2>2. \A s \in Subscriber : info'[s] = info[s] \/ info'[s].mem = "purged"
    BY <1>1, <2>1 DEF Blank
  <2> QED
    BY <1>10, <2>1, <2>2
<1>13. CASE Accept
  <2>1. PICK s \in Subscriber \ Listed :
               /\ info[s].mem = "none" /\ chain' = [Idle EXCEPT !.pc = "body", !.at = s]
               /\ \A r \in Subscriber : r # s => info'[r] = info[r]
    BY <1>13, AcceptInfo
  <2>2. app' = app /\ chain'.pc = "body" /\ chain'.at = s /\ Starting = {} /\ Starting' = {s}
    BY <1>13, <2>1 DEF Accept, Idle, Starting
  <2>3. app.at # s
    <3>1. s \notin Leaving /\ s \notin Listed /\ ~Gone(s) /\ s # NoSubscriber
      BY <1>1, <1>13, <2>1 DEF Accept, Leaving, Gone
    <3> QED
      BY <3>1 DEF DVInvariant, WalkPlace
  <2>4. app.pc = "send" => info'[app.at] = info[app.at]
    BY <1>4, <2>1, <2>3
  <2> QED
    BY <1>2, <1>3, <2>2, <2>3, <2>4 DEF ReadsCurrent
<1>14. CASE InitialEventBody \/ InitialEventRead
  <2>1. /\ UNCHANGED <<app, info>> /\ Starting' = Starting
        /\ chain'.pc = "send" => chain'.at = chain.at /\ chain'.read = ReadFields(chain.at)
    <3>1. CASE InitialEventBody
      BY <1>1, <3>1 DEF InitialEventBody, Starting, ChainRecord
    <3>2. CASE InitialEventRead
      BY <1>1, <3>2 DEF InitialEventRead, Starting, ChainRecord
    <3> QED
      BY <1>14, <3>1, <3>2
  <2> QED
    BY <1>2, <1>3, <2>1 DEF ReadsCurrent, ReadFields
<1>15. CASE InitialEvent
  <2>1. /\ chain.pc = "send" /\ chain.at \in Subscriber
        /\ chain.read \in Fields /\ chain.body \in Nat
        /\ SendEvent_Body(chain.at, chain.read, chain.body)
        /\ app' = app /\ chain'.pc = "idle"
    BY <1>15, Standing DEF InitialEvent, ChainRecord, Idle
  <2>2. \A r \in Subscriber : r # chain.at => info'[r] = info[r]
    BY <1>1, <2>1, NotificationInfo
  <2>3. Starting = {chain.at}
    BY <2>1 DEF Starting
  <2> QED
    BY <1>10, <2>1, <2>2, <2>3
<1>16. ASSUME NEW r \in Subscriber, RenewEvents(r) \/ Expires(r) PROVE ReadsCurrent'
  <2>1. /\ UNCHANGED <<app, chain>>
        /\ \E t \in {"expired", "lapsed"} : info' = [info EXCEPT ![r].time = t]
    BY <1>16 DEF RenewEvents, Expires
  <2>2. \A s \in Subscriber : info'[s].mem = info[s].mem /\ info'[s].RefCount = info[s].RefCount
    BY <1>1, <2>1 DEF InfoRecord
  <2> QED
    BY <1>5, <2>1, <2>2
<1>17. ASSUME NEW r \in Subscriber,
              ProcessUNSUBSCRIBE(r) \/ \E response \in BOOLEAN : SendEventSink(r, response)
       PROVE  ReadsCurrent'
  <2>1. UNCHANGED <<app, chain>> /\ chain.pc = "idle"
    BY <1>17 DEF ProcessUNSUBSCRIBE, SendEventSink, Answer
  <2>2. ~EventLock \/ info' = info
    BY <1>17, SinkCases, UnsubscribeCase
  <2>3. CASE info' = info
    BY <1>5, <2>1, <2>3
  <2>4. CASE ~EventLock
    BY <1>4, <2>1, <2>4 DEF ReadsCurrent
  <2> QED
    BY <2>2, <2>3, <2>4
<1>18. CASE UNCHANGED <<members, info, SetupReady, EventLock, app, chain, requests, notes>>
  BY <1>5, <1>18
<1> QED
  BY <1>7, <1>8, <1>9, <1>11, <1>12, <1>13, <1>14, <1>15, <1>16, <1>17, <1>18, StepCases

\* PassedCurrent, of one subscriber.
EventCurrent(s) ==
  s \in Listed \ (raced \cup missed \cup Starting) /\ Passed(s) /\ info[s].time = "valid" =>
    last[s] = SetupReady
InitialEventCurrent(s) ==
  chain.pc \in {"read", "send"} /\ chain.at = s /\ s \notin raced /\ Passed(s) =>
    chain.body = SetupReady

\* Whom the walk has been past after a step.
LEMMA PassedThen ==
  ASSUME NEW s, Passed(s)', \A a, b : Before(a, b)' => Before(a, b)
  PROVE  /\ app'.pc # "lock"
         /\ app'.at = NoSubscriber \/ app'.at \in Leaving' \/ Before(s, app'.at)
<1>1. /\ app'.pc # "lock"
      /\ \/ app'.at \in {NoSubscriber} \cup Leaving'
         \/ \E i, j \in DOMAIN HeadSubscriberPtr' :
              i < j /\ HeadSubscriberPtr'[i] = s /\ HeadSubscriberPtr'[j] = app'.at
  BY DEF Passed, Before
<1>2. ASSUME NEW b,
             \E i, j \in DOMAIN HeadSubscriberPtr' :
               i < j /\ HeadSubscriberPtr'[i] = s /\ HeadSubscriberPtr'[j] = b
      PROVE  Before(s, b)
  <2>1. Before(s, b)'
    BY <1>2 DEF Before
  <2> QED
    BY <2>1
<1> QED
  BY <1>1, <1>2

\* No step breaks PassedCurrent.
LEMMA PassedStep ==
  ASSUME DVInvariant, [DVNext]_DVvars
  PROVE  PassedCurrent'
<1>1. /\ info \in [Subscriber -> InfoRecord] /\ app \in AppRecord /\ chain \in ChainRecord
      /\ DVTypeOK /\ NoneTwice /\ Listed \subseteq Subscriber /\ NoSubscriber \notin Subscriber
      /\ last \in [Subscriber -> Nat]
  BY Standing
<1> DEFINE Current(s) == EventCurrent(s) /\ InitialEventCurrent(s)
<1> SUFFICES ASSUME NEW s \in Subscriber PROVE Current(s)'
  <2>1. Listed' \subseteq Subscriber
    <3>1. HeadSubscriberPtr' \in Seq(Subscriber)
      BY ListStep
    <3>2. \A k \in DOMAIN HeadSubscriberPtr' : HeadSubscriberPtr'[k] \in Subscriber
      BY <3>1
    <3> QED
      BY <3>2 DEF Listed, ToSet
  <2>2. chain'.pc \in {"read", "send"} => chain'.at \in Subscriber
    BY <2>1, ChainPlaceStep DEF ChainPlace
  <2> QED
    BY <2>1, <2>2 DEF PassedCurrent, EventCurrent, InitialEventCurrent
<1>2. Current(s)
  BY DEF DVInvariant, PassedCurrent, EventCurrent, InitialEventCurrent
<1>3. raced \subseteq raced'
  BY RacedGrows
\* A step that moves nobody past s.
<1>4. ASSUME Passed(s)' => Passed(s), chain' = chain, last' = last, SetupReady' = SetupReady,
             missed' = missed, s \in Listed' => s \in Listed,
             s \in Listed' /\ s \notin raced' /\ info'[s].time = "valid" => info[s].time = "valid"
      PROVE  Current(s)'
  BY <1>2, <1>3, <1>4 DEF EventCurrent, InitialEventCurrent, Starting
<1>5. CASE UNCHANGED <<members, info, SetupReady, EventLock, app, chain, requests, notes>>
  <2>1. Passed(s)' <=> Passed(s)
    BY <1>5, SameList DEF Passed, Leaving, members
  <2>2. Listed' = Listed
    BY <1>5, SameList DEF members
  <2> QED
    BY <1>4, <1>5, <2>1, <2>2 DEF notes
<1>6. CASE SetState
  <2>1. ~Passed(s)'
    BY <1>1, <1>6 DEF SetState, Passed, AppRecord
  <2> QED
    BY <2>1 DEF EventCurrent, InitialEventCurrent
<1>7. CASE SendEvent
  <2>1. /\ First(HeadSubscriberPtr) \in Listed \cup {NoSubscriber}
        /\ First(HeadSubscriberPtr) = NoSubscriber => Listed = {}
        /\ ~Before(s, First(HeadSubscriberPtr))
    BY <1>1, HeadOfList
  <2>2. /\ app'.at = First(HeadSubscriberPtr) /\ Listed' = Listed /\ chain' = chain
        /\ \A a, b : Before(a, b)' <=> Before(a, b)
    BY <1>1, <1>7, SameList DEF SendEvent, members, AppRecord
  <2>3. Listed \cap Leaving' = {}
    BY <2>2, Standing DEF Leaving
  <2>4. CASE First(HeadSubscriberPtr) = NoSubscriber
    <3>1. Listed = {} /\ chain.pc \notin {"read", "send"}
      BY <2>1, <2>4, Standing
    <3> QED
      BY <2>2, <3>1 DEF EventCurrent, InitialEventCurrent
  <2>5. CASE First(HeadSubscriberPtr) # NoSubscriber
    <3>1. ~Passed(s)'
      BY <2>1, <2>2, <2>3, <2>5, PassedThen
    <3> QED
      BY <3>1 DEF EventCurrent, InitialEventCurrent
  <2> QED
    BY <2>4, <2>5
\* The walk goes on to the next of where it stands.
<1>8. ASSUME app.at \in Subscriber, ~Gone(app.at), app.pc # "lock",
             app'.at = After(app.at), UNCHANGED <<members, chain>>, Passed(s)'
      PROVE  Passed(s) \/ s = app.at \/ s \notin Listed
  <2>1. Listed' = Listed /\ Leaving' = Leaving /\ \A a, b : Before(a, b)' <=> Before(a, b)
    BY <1>8, SameList DEF members, Leaving
  <2>2. CASE app.at \notin Listed
    <3>1. app.at \in Leaving
      BY <1>1, <1>8, <2>2 DEF DVInvariant, WalkPlace
    <3> QED
      BY <1>8, <3>1 DEF Passed
  <2>3. CASE app.at \in Listed
    <3>1. After(app.at) \in Listed \cup {NoSubscriber}
      BY <1>1, <2>3, NextInList
    <3>2. /\ After(app.at) # NoSubscriber /\ Before(s, After(app.at)) => s = app.at \/ Before(s, app.at)
          /\ After(app.at) = NoSubscriber /\ s \in Listed => s = app.at \/ Before(s, app.at)
      BY <1>1, <2>3, NextInList
    <3>3. Listed \cap Leaving = {}
      BY Standing DEF Leaving
    <3>4. \/ After(app.at) = NoSubscriber
          \/ After(app.at) # NoSubscriber /\ Before(s, After(app.at))
      <4>1. app'.at = NoSubscriber \/ app'.at \in Leaving' \/ Before(s, app'.at)
        BY <1>8, <2>1, PassedThen
      <4> QED
        BY <1>8, <2>1, <3>1, <3>3, <4>1
    <3> QED
      BY <1>8, <3>2, <3>4 DEF Passed
  <2> QED
    BY <2>2, <2>3
<1>9. CASE Visit
  <2>1. /\ app.pc = "walk" /\ app.at \in Subscriber /\ ~Gone(app.at)
        /\ UNCHANGED <<members, info, SetupReady, chain, last, missed>>
    BY <1>1, <1>9 DEF Visit, AppRecord
  <2>2. Listed' = Listed /\ Leaving' = Leaving /\ Starting' = Starting
        /\ \A a, b : Before(a, b)' <=> Before(a, b)
    BY <2>1, SameList DEF members, Leaving, Starting
  <2>3. CASE app'.at = app.at
    <3>1. Passed(s)' => Passed(s)
      BY <2>1, <2>2, <2>3, PassedThen DEF Passed
    <3> QED
      BY <1>4, <2>1, <2>2, <3>1
  <2>4. CASE app'.at = After(app.at) /\ app'.at # app.at
    <3>1. info[app.at].time = "expired"
      BY <1>1, <1>9, <2>4 DEF Visit, AppRecord
    <3>2. app.at \in Starting => app.at \in raced'
      BY <1>9, RacedGrows
    <3>3. Passed(s)' => Passed(s) \/ s = app.at \/ s \notin Listed
      BY <1>8, <2>1, <2>4
    <3>4. EventCurrent(s)'
      BY <1>2, <1>3, <2>1, <2>2, <3>1, <3>3 DEF EventCurrent
    <3>5. InitialEventCurrent(s)'
      <4>1. chain.pc \in {"read", "send"} /\ chain.at = s => s \in Starting /\ s \in Listed
        BY Standing DEF Starting
      <4> QED
        BY <1>2, <1>3, <2>1, <3>2, <3>3, <4>1 DEF InitialEventCurrent
    <3> QED
      BY <3>4, <3>5
  <2>5. app'.at \in {app.at, After(app.at)}
    BY <1>1, <1>9 DEF Visit, AppRecord
  <2> QED
    BY <2>3, <2>4, <2>5
<1>10. CASE Notify
  <2>1. /\ app.pc = "send" /\ app.at \in Subscriber /\ info[app.at].mem = "live"
        /\ app.read \in Fields /\ SetupReady \in Nat
        /\ SendEvent_Body(app.at, app.read, SetupReady)
    BY <1>10, NotifyLive
  <2>2. /\ info'[s].time = info[s].time /\ missed' = missed \ {app.at}
        /\ s # app.at => last'[s] = last[s]
        /\ last'[app.at] = SetupReady
    BY <1>1, <2>1, NotificationInfo
  <2>3. UNCHANGED <<members, chain, SetupReady, raced>> /\ app'.at = After(app.at)
    BY <1>10 DEF Notify
  <2>4. Listed' = Listed /\ Starting' = Starting
    BY <2>3, SameList DEF members, Starting
  <2>5. Passed(s)' => Passed(s) \/ s = app.at \/ s \notin Listed
    BY <1>8, <2>1, <2>3 DEF Gone
  <2>6. EventCurrent(s)'
    BY <1>2, <2>2, <2>3, <2>4, <2>5 DEF EventCurrent
  <2>7. InitialEventCurrent(s)'
    <3>1. chain.pc \in {"read", "send"} /\ chain.at = s =>
            s \in Listed /\ (s = app.at => s \in raced)
      BY <2>1, Standing DEF DVInvariant, ReadsCurrent, Starting
    <3> QED
      BY <1>2, <2>3, <2>5, <3>1 DEF InitialEventCurrent
  <2> QED
    BY <2>6, <2>7
<1>11. CASE SendEventEnds
  <2>1. Passed(s)
    BY <1>11 DEF SendEventEnds, Passed
  <2>2. Listed' = Listed /\ UNCHANGED <<info, chain, last, SetupReady, missed>>
    BY <1>11, SameList DEF SendEventEnds, members, notes
  <2> QED
    BY <1>4, <2>1, <2>2
\* The chain's thread, where it leaves the list alone and starts nothing.
<1>12. ASSUME UNCHANGED <<members, app, SetupReady, last, missed>>, Leaving' \subseteq Leaving
       PROVE  (Passed(s)' => Passed(s)) /\ Listed' = Listed
  BY <1>12, SameList, PassedThen DEF members, Passed
<1>13. ASSUME UNCHANGED <<members, app, SetupReady, last, missed>>,
              chain'.pc \in {"idle", "purge"},
              chain.pc \in {"idle", "purge", "free"}, s \in Listed => info'[s] = info[s]
       PROVE  Current(s)'
  <2>1. Leaving' = {} /\ Starting = {}
    BY <1>13 DEF Leaving, Starting
  <2>2. (Passed(s)' => Passed(s)) /\ Listed' = Listed
    BY <1>12, <1>13, <2>1
  <2> QED
    BY <1>2, <1>3, <1>13, <2>1, <2>2 DEF EventCurrent, InitialEventCurrent
<1>14. CASE TryToSubscribe
  BY <1>13, <1>14 DEF TryToSubscribe, Idle, notes
<1>15. CASE Purge
  <2>1. chain.pc = "purge" /\ chain.at \in Listed
        /\ UNCHANGED <<info, SetupReady, app, last, raced>>
    BY <1>15, Standing DEF Purge
  <2>2. CASE info[chain.at].time # "expired"
    <3>1. UNCHANGED <<members, missed>> /\ chain'.pc = "purge"
      BY <1>1, <1>15, <2>1, <2>2 DEF Purge, ChainRecord
    <3> QED
      BY <1>13, <2>1, <3>1
  <2>3. CASE info[chain.at].time = "expired"
    <3>1. /\ HeadSubscriberPtr' = Without(chain.at)
          /\ missed' = IF app.at = chain.at THEN missed \cup Behind(chain.at) ELSE missed
          /\ chain' = [chain EXCEPT !.pc = "free", !.next = After(chain.at)]
      BY <1>15, <2>3 DEF Purge, RemoveSubscriberInfo
    <3>2. Listed' = Listed \ {chain.at} /\ \A a, b : Before(a, b)' => Before(a, b)
      BY <1>1, <2>1, <3>1, Removal
    <3>3. chain'.pc = "free" /\ chain'.at = chain.at
      BY <1>1, <3>1 DEF ChainRecord
    <3>4. Starting = {} /\ Starting' = {} /\ Leaving' = {chain.at}
      BY <2>1, <3>3 DEF Starting, Leaving
    <3>5. s \in Listed' /\ s \notin missed' /\ Passed(s)' => Passed(s)
      <4>1. Passed(s)' => app.pc # "lock"
                           /\ (app.at = NoSubscriber \/ app.at = chain.at \/ Before(s, app.at))
        BY <2>1, <3>2, <3>4, PassedThen
      <4>2. s \in Listed' /\ s \notin missed' /\ app.at = chain.at => Before(s, app.at)
        BY <1>1, <2>1, <3>1, <3>2, NextInList
      <4> QED
        BY <4>1, <4>2 DEF Passed
    <3>6. missed \subseteq missed'
      BY <3>1
    <3>7. EventCurrent(s)'
      BY <1>2, <2>1, <3>2, <3>4, <3>5, <3>6 DEF EventCurrent
    <3> QED
      BY <3>3, <3>7 DEF InitialEventCurrent
  <2> QED
    BY <2>2, <2>3
<1>16. CASE PurgeFrees
  <2>1. /\ chain.pc = "free" /\ chain.at \notin Listed /\ chain'.pc = "purge"
        /\ info' = [info EXCEPT ![chain.at] = Blank("purged")]
        /\ UNCHANGED <<members, app, SetupReady, last, missed>>
    BY <1>16, Standing DEF PurgeFrees, Idle, notes
  <2>2. s \in Listed => info'[s] = info[s]
    BY <1>1, <2>1
  <2> QED
    BY <1>13, <2>1, <2>2
<1>17. CASE Refuse
  BY <1>13, <1>17 DEF Refuse, Idle, notes
<1>18. CASE Accept
  <2>1. PICK r \in Subscriber \ Listed :
               /\ HeadSubscriberPtr' = <<r>> \o HeadSubscriberPtr
               /\ chain' = [Idle EXCEPT !.pc = "body", !.at = r]
               /\ \A q \in Subscriber : q # r => info'[q] = info[q]
    BY <1>18, AcceptInfo
  <2>2. Listed' = Listed \cup {r} /\ \A a, b : Before(a, b)' => a = r \/ Before(a, b)
    BY <1>1, <2>1, Insertion
  <2>3. /\ chain'.pc = "body" /\ Starting' = {r} /\ Starting = {} /\ Leaving' = {}
        /\ UNCHANGED <<app, SetupReady, last, missed>>
    BY <1>18, <2>1 DEF Accept, Idle, Starting, Leaving, notes
  <2>4. s # r /\ Passed(s)' => Passed(s)
    <3>1. ASSUME s # r, Passed(s)' PROVE Passed(s)
      <4>1. \A b : Before(s, b)' => Before(s, b)
        BY <2>2, <3>1
      <4>2. /\ app'.pc # "lock"
            /\ \/ app'.at \in {NoSubscriber}
               \/ \E i, j \in DOMAIN HeadSubscriberPtr' :
                    i < j /\ HeadSubscriberPtr'[i] = s /\ HeadSubscriberPtr'[j] = app'.at
        BY <2>3, <3>1 DEF Passed, Before
      <4>3. app'.at = app.at /\ app'.pc = app.pc
        BY <2>3
      <4>4. ASSUME \E i, j \in DOMAIN HeadSubscriberPtr' :
                     i < j /\ HeadSubscriberPtr'[i] = s /\ HeadSubscriberPtr'[j] = app'.at
            PROVE  Before(s, app.at)
        <5>1. \A b : (\E i, j \in DOMAIN HeadSubscriberPtr' :
                        i < j /\ HeadSubscriberPtr'[i] = s /\ HeadSubscriberPtr'[j] = b)
                     => Before(s, b)
          BY <4>1 DEF Before
        <5> QED
          BY <4>3, <4>4, <5>1
      <4> QED
        BY <4>2, <4>3, <4>4 DEF Passed
    <3> QED
      BY <3>1
  <2>5. EventCurrent(s)'
    BY <1>2, <1>3, <2>1, <2>2, <2>3, <2>4 DEF EventCurrent
  <2> QED
    BY <2>3, <2>5 DEF InitialEventCurrent
<1>19. CASE InitialEventBody \/ InitialEventRead
  <2>1. /\ UNCHANGED <<members, app, SetupReady, last, missed, info>>
        /\ Starting' = Starting /\ Leaving' = {} /\ chain'.at = chain.at
        /\ \/ chain'.body = SetupReady
           \/ chain.pc = "read" /\ chain'.body = chain.body
    <3>1. CASE InitialEventBody
      <4>1. /\ chain.pc = "body" /\ chain'.pc = "read" /\ chain'.at = chain.at
            /\ chain'.body = SetupReady
        BY <1>1, <3>1 DEF InitialEventBody, ChainRecord
      <4>2. UNCHANGED <<members, app, SetupReady, last, missed, info>>
        BY <3>1 DEF InitialEventBody, notes
      <4>3. Starting' = Starting /\ Leaving' = {}
        BY <4>1 DEF Starting, Leaving
      <4> QED
        BY <4>1, <4>2, <4>3
    <3>2. CASE InitialEventRead
      BY <1>1, <3>2 DEF InitialEventRead, Starting, Leaving, ChainRecord, notes
    <3> QED
      BY <1>19, <3>1, <3>2
  <2>2. (Passed(s)' => Passed(s)) /\ Listed' = Listed
    BY <1>12, <2>1
  <2> QED
    BY <1>2, <1>3, <2>1, <2>2 DEF EventCurrent, InitialEventCurrent
<1>20. CASE InitialEvent
  <2>1. /\ chain.pc = "send" /\ chain.at \in Subscriber
        /\ chain.read \in Fields /\ chain.body \in Nat
        /\ SendEvent_Body(chain.at, chain.read, chain.body)
        /\ UNCHANGED <<members, app, SetupReady>> /\ chain'.pc = "idle"
    BY <1>20, Standing DEF InitialEvent, ChainRecord, Idle
  <2>2. /\ info'[s].time = info[s].time /\ missed' = missed \ {chain.at}
        /\ s # chain.at => last'[s] = last[s]
        /\ last'[chain.at] = chain.body
    BY <1>1, <2>1, NotificationInfo
  <2>3. Starting = {chain.at} /\ Leaving' = {}
    BY <2>1 DEF Starting, Leaving
  <2>4. (Passed(s)' => Passed(s)) /\ Listed' = Listed
    BY <2>1, <2>3, SameList, PassedThen DEF members, Passed
  <2>5. EventCurrent(s)'
    BY <1>2, <1>3, <2>1, <2>2, <2>3, <2>4 DEF EventCurrent, InitialEventCurrent
  <2> QED
    BY <2>1, <2>5 DEF InitialEventCurrent
<1>21. ASSUME NEW r \in Subscriber, RenewEvents(r) \/ Expires(r) PROVE Current(s)'
  <2>1. /\ UNCHANGED <<members, app, chain, SetupReady, last, missed>>
        /\ \E t \in {"expired", "lapsed"} : info' = [info EXCEPT ![r].time = t]
    BY <1>21 DEF RenewEvents, Expires, notes
  <2>2. info'[s].time = "valid" => info[s].time = "valid"
    BY <1>1, <2>1 DEF InfoRecord
  <2>3. (Passed(s)' => Passed(s)) /\ Listed' = Listed
    BY <1>12, <2>1 DEF Leaving
  <2> QED
    BY <1>4, <2>1, <2>2, <2>3
<1>22. ASSUME NEW r \in Subscriber,
              ProcessUNSUBSCRIBE(r) \/ \E response \in BOOLEAN : SendEventSink(r, response)
       PROVE  Current(s)'
  <2>1. UNCHANGED <<app, chain, last, SetupReady, missed>>
    BY <1>22 DEF ProcessUNSUBSCRIBE, SendEventSink, notes
  <2>2. CASE UNCHANGED <<members, info>>
    <3>1. (Passed(s)' => Passed(s)) /\ Listed' = Listed
      BY <1>12, <2>1, <2>2 DEF Leaving
    <3> QED
      BY <1>4, <2>1, <2>2, <3>1
  <2>3. CASE ~UNCHANGED <<members, info>>
    <3>1. /\ ~EventLock /\ \E n \in Nat : \E d \in BOOLEAN : info' = Counted(r, n, d)
          /\ UNCHANGED members \/ (r \in Listed /\ RemoveSubscriberInfo(r))
      BY <1>22, <2>3, SinkCases, UnsubscribeCase
    <3>2. Listed' \subseteq Listed
      BY <1>1, <3>1, SameList, Removal DEF members, RemoveSubscriberInfo
    <3>3. app.at = NoSubscriber /\ app.pc # "lock" => Passed(s)
      BY DEF Passed
    <3>4. Passed(s)' => Passed(s)
      BY <2>1, <3>1, <3>3 DEF Passed, DVInvariant, WalkPlace
    <3>5. s \in Listed' /\ s \notin raced' => info'[s].mem # "freed"
      BY ReferencesStep DEF ReferencesCounted
    <3>6. s \in Listed' /\ s \notin raced' => info'[s].time = info[s].time
      BY <1>1, <3>1, <3>5, CountedInfo DEF Blank
    <3> QED
      BY <1>4, <2>1, <3>2, <3>4, <3>6
  <2> QED
    BY <2>2, <2>3
<1> HIDE DEF Current
<1> QED
  BY <1>5, <1>6, <1>7, <1>9, <1>10, <1>11, <1>14, <1>15, <1>16, <1>17, <1>18, <1>19, <1>20,
     <1>21, <1>22, StepCases

LEMMA DVInvariantStep ==
  ASSUME DVInvariant, [DVNext]_DVvars
  PROVE  DVInvariant'
BY DVTypeStep, ListStep, AllocatedStep, ChainPlaceStep, WalkPlaceStep, ReferencesStep,
   ReadsStep, PassedStep DEF DVInvariant

----------------------------------------------------------------------------
(* The theorems.                                                           *)

\* Every reachable state of the device's eventing (DVMicroStack.c) satisfies the
\* inductive invariant.
THEOREM DVInvariantCorrect == DVSafety => []DVInvariant
<1>1. DVInvariant /\ [DVNext]_DVvars => DVInvariant'
  BY DVInvariantStep
<1> QED
  BY DVInitInvariant, <1>1, PTL DEF DVSafety

\* The variables keep their types.
THEOREM DVTypeCorrect == DVSafety => []DVTypeOK
<1>1. DVInvariant => DVTypeOK
  BY DEF DVInvariant
<1> QED
  BY DVInvariantCorrect, <1>1, PTL

\* NumberOfSubscribers is the length of the list and never more than the bound that
\* SUBSCRIBE asks, however SUBSCRIBE, UNSUBSCRIBE and the sinks of notifications follow
\* on each other.
THEOREM CountMatchesCorrect == DVSafety => []CountMatches
<1>1. DVInvariant => CountMatches
  BY DEF DVInvariant
<1> QED
  BY DVInvariantCorrect, <1>1, PTL

\* RefCount counts the list and the notifications on their way, and who is freed by
\* its count is in no list, on no request and under no walk.
THEOREM ReferencesCountedCorrect == DVSafety => []ReferencesCounted
<1>1. DVInvariant => ReferencesCounted
  BY DEF DVInvariant
<1> QED
  BY DVInvariantCorrect, <1>1, PTL

\* Between two events every subscriber has been sent the present value, or is being
\* sent it as its initial event.
THEOREM LastEventCurrentCorrect == DVSafety => []LastEventCurrent
<1>1. ASSUME DVInvariant PROVE LastEventCurrent
  <2>1. app.pc = "idle" => app.at = NoSubscriber
    BY <1>1 DEF DVInvariant, WalkPlace
  <2>2. app.pc = "idle" => \A s : Passed(s)
    BY <2>1 DEF Passed
  <2> QED
    BY <1>1, <2>2 DEF DVInvariant, PassedCurrent, LastEventCurrent
<1> QED
  BY DVInvariantCorrect, <1>1, PTL
=============================================================================
