------------------------ MODULE LifeTimeMonitors_proof ------------------------
(***************************************************************************)
(* Proofs about the two lifetime monitors: LifeTimeMonitor, for any sets   *)
(* of keys, application threads and pool threads, any times and any number *)
(* of calls; and ILibLifeTime with the loop of its chain, for any clients, *)
(* objects and delays and any number of callbacks.                         *)
(***************************************************************************)
EXTENDS LifeTimeMonitor, ILibLifeTime, FiniteSetTheorems, SequenceTheorems, TLAPS

\* The interval is the time of some key.
LEMMA IntervalType ==
  ASSUME TypeOK, NEW K \in SUBSET Pending, IntervalForFirst(K)
  PROVE  Interval' \in 0..MaxDelay
BY DEF TypeOK, IntervalForFirst, Pending

\* No step takes a variable out of its type.
LEMMA TypeStep == TypeOK /\ [Next]_vars => TypeOK'
<1> SUFFICES ASSUME TypeOK, [Next]_vars PROVE TypeOK'
  OBVIOUS
<1> USE LifeTimeMonitorAssumption DEF Goto, Proc
<1>0. ASSUME NEW t \in Thread, NEW op \in {"put", "off"}, NEW K \in SUBSET Key, Call(t, op, K)
      PROVE  /\ calls' \in 0..MaxCalls /\ t \in Proc /\ t \notin Worker
             /\ lastCall' \in [op : {"none", "put", "off"}, keys : SUBSET Key]
  BY <1>0 DEF Call, TypeOK
<1>1. ASSUME NEW t \in Thread, NEW k \in Key, NEW d \in 0..MaxDelay, Add(t, k, d)
      PROVE  TypeOK'
  BY <1>0, <1>1 DEF Add, TypeOK
<1>2. ASSUME NEW t \in Thread, NEW k \in Key, Remove(t, k)
      PROVE  TypeOK'
  <2>1. Interval' \in 0..MaxDelay
    BY <1>2, IntervalType DEF Remove, TypeOK
  <2>2. /\ pc' \in [Proc -> {"idle", "pop", "fire", "rearm", "start", "end"}]
        /\ \A u \in Thread : pc'[u] # "end"
    BY <1>0, <1>2 DEF Remove, TypeOK
  <2>. QED
    BY <1>0, <1>2, <2>1, <2>2 DEF Remove, TypeOK, users
<1>3. ASSUME NEW t \in Thread, Clear(t)
      PROVE  TypeOK'
  BY <1>0, <1>3 DEF Clear, TypeOK, users
<1>4. ASSUME NEW p \in Proc, OnTimedEventPop(p)
      PROVE  TypeOK'
  BY <1>4 DEF OnTimedEventPop, TypeOK, users, timer, Pending
<1>5. ASSUME NEW p \in Proc, OnTimedEventFire(p)
      PROVE  TypeOK'
  BY <1>5 DEF OnTimedEventFire, TypeOK, users, timer
<1>6. ASSUME NEW p \in Proc, OnTimedEventRearm(p)
      PROVE  TypeOK'
  <2>1. Interval' \in 0..MaxDelay
    BY <1>6, IntervalType DEF OnTimedEventRearm, TypeOK, users
  <2>2. /\ pc' \in [Proc -> {"idle", "pop", "fire", "rearm", "start", "end"}]
        /\ \A u \in Thread : pc'[u] # "end"
    BY <1>6 DEF OnTimedEventRearm, Return, TypeOK, users
  <2>. QED
    BY <1>6, <2>1, <2>2 DEF OnTimedEventRearm, TypeOK, users
<1>7. ASSUME NEW p \in Proc, Start(p)
      PROVE  TypeOK'
  <2>1. /\ pc' \in [Proc -> {"idle", "pop", "fire", "rearm", "start", "end"}]
        /\ \A u \in Thread : pc'[u] # "end"
    BY <1>7 DEF Start, Return, TypeOK, users
  <2>2. /\ timeout' \in 0..MaxDelay /\ StartFlag' \in BOOLEAN
        /\ handle' \in 0..MaxDelay \cup {Null}
    BY <1>7 DEF Start, TypeOK, users
  <2>. QED
    BY <1>7, <2>1, <2>2 DEF Start, TypeOK, users
<1>8. CASE TimeOut
  BY <1>8 DEF TimeOut, TypeOK, users
<1>9. ASSUME NEW w \in Worker, HandleTimerBegin(w)
      PROVE  TypeOK'
  <2>1. queued' \in Nat
    BY <1>9 DEF HandleTimerBegin, TypeOK, users
  <2>2. /\ pc' \in [Proc -> {"idle", "pop", "fire", "rearm", "start", "end"}]
        /\ \A u \in Thread : pc'[u] # "end"
    BY <1>9 DEF HandleTimerBegin, TypeOK, users
  <2>. QED
    BY <1>9, <2>1, <2>2 DEF HandleTimerBegin, TypeOK, users
<1>10. ASSUME NEW w \in Worker, HandleTimerEnd(w)
      PROVE  TypeOK'
  <2>1. Interval' \in 0..MaxDelay /\ handle' \in 0..MaxDelay \cup {Null}
    BY <1>10 DEF HandleTimerEnd, TypeOK, users
  <2>. QED
    BY <1>10, <2>1 DEF HandleTimerEnd, TypeOK, users
<1>11. CASE Tick
  <2>1. \A x \in 0..MaxDelay \cup {Null} : Less(x) \in 0..MaxDelay \cup {Null}
    BY DEF Less
  <2>2. \A k \in Key : MonitorList[k] \in 0..MaxDelay \cup {Null}
    BY DEF TypeOK, users
  <2>. QED
    BY <1>11, <2>1, <2>2 DEF Tick, TypeOK, users
<1>12. CASE UNCHANGED vars
  BY <1>12 DEF vars, timer, TypeOK, users
<1>. QED
  BY <1>1, <1>2, <1>3, <1>4, <1>5, <1>6, <1>7, <1>8, <1>9, <1>10, <1>11, <1>12
  DEF Next, User, OnTimedEvent, HandleTimer

\* Callbacks are owed from the section that takes the keys off the list to the end of
\* the loop.
LEMMA OwedStep == TypeOK /\ OwedInLoop /\ [Next]_vars => OwedInLoop'
<1> SUFFICES ASSUME TypeOK, OwedInLoop, [Next]_vars PROVE OwedInLoop'
  OBVIOUS
<1> USE DEF Proc, Goto
<1>1. \A p \in Proc : pc[p] # "fire" => eventList[p] = {}
  BY DEF OwedInLoop
<1>2. pc \in [Proc -> {"idle", "pop", "fire", "rearm", "start", "end"}]
      /\ eventList \in [Proc -> SUBSET Key]
  BY DEF TypeOK
\* A step that begins no loop and ends none.
<1>3. ASSUME UNCHANGED eventList, \A p \in Proc : pc'[p] = pc[p] \/ pc[p] # "fire"
      PROVE  OwedInLoop'
  BY <1>1, <1>3 DEF OwedInLoop
<1>4. ASSUME NEW p \in Proc, OnTimedEventPop(p) PROVE OwedInLoop'
  BY <1>1, <1>2, <1>4 DEF OnTimedEventPop, OwedInLoop
<1>5. ASSUME NEW p \in Proc, OnTimedEventFire(p) PROVE OwedInLoop'
  BY <1>1, <1>2, <1>5 DEF OnTimedEventFire, OwedInLoop
<1>6. ASSUME NEW p \in Proc, OnTimedEventRearm(p) \/ Start(p) PROVE OwedInLoop'
  BY <1>2, <1>3, <1>6 DEF OnTimedEventRearm, Start
<1>7. ASSUME NEW t \in Thread, User(t) PROVE OwedInLoop'
  BY <1>2, <1>3, <1>7 DEF User, Call, Add, Remove, Clear
<1>8. ASSUME NEW w \in Worker, HandleTimer(w) PROVE OwedInLoop'
  BY <1>2, <1>3, <1>8 DEF HandleTimer, HandleTimerBegin, HandleTimerEnd
<1>9. CASE TimeOut \/ Tick \/ UNCHANGED vars
  BY <1>3, <1>9 DEF TimeOut, Tick, vars
<1> QED
  BY <1>4, <1>5, <1>6, <1>7, <1>8, <1>9 DEF Next, OnTimedEvent

\* No step loses a wakeup or leaves WaitFlag behind.
LEMMA WakeupStep == IInv /\ [Next]_vars => IInv'
<1> SUFFICES ASSUME IInv, [Next]_vars PROVE IInv'
  OBVIOUS
<1> USE LifeTimeMonitorAssumption DEF Goto, Proc
<1>0. TypeOK /\ TypeOK' /\ OwedInLoop'
  BY TypeStep, OwedStep DEF IInv
\* A thread that is awake after the step keeps the wakeup.
<1>1. ASSUME NEW p \in Proc, pc'[p] \in {"pop", "fire", "rearm", "start"}
      PROVE  NoLostWakeup'
  BY <1>1 DEF NoLostWakeup, Awake
\* A step of a thread that leaves the flag and the pool threads alone.
<1>2. ASSUME WaitFlag' = WaitFlag,
             \A w \in Worker : pc[w] # "idle" => pc'[w] # "idle"
      PROVE  WaitFlagOwned'
  BY <1>2 DEF IInv, WaitFlagOwned
<1>3. ASSUME NEW t \in Thread, NEW k \in Key, NEW d \in 0..MaxDelay, Add(t, k, d)
      PROVE  IInv'
  <2>1. pc'[t] = "pop" /\ \A w \in Worker : pc'[w] = pc[w]
    BY <1>0, <1>3 DEF Add, TypeOK
  <2>. QED
    BY <1>0, <1>1, <1>2, <1>3, <2>1 DEF Add, IInv
<1>4. ASSUME NEW t \in Thread, NEW k \in Key, Remove(t, k)
      PROVE  IInv'
  <2>1. \A w \in Worker : pc'[w] = pc[w]
    BY <1>0, <1>4 DEF Remove, TypeOK
  <2>2. NoLostWakeup'
    <3>1. CASE Pending # {k}
      <4>1. pc'[t] = "start"
        BY <1>0, <1>4, <3>1 DEF Remove, TypeOK
      <4>. QED
        BY <1>1, <4>1
    <3>2. CASE Pending = {k}
      <4>1. Pending' = {}
        BY <1>0, <1>4, <3>2 DEF Remove, TypeOK, Pending
      <4>. QED
        BY <4>1 DEF NoLostWakeup
    <3>. QED
      BY <3>1, <3>2
  <2>. QED
    BY <1>0, <1>2, <1>4, <2>1, <2>2 DEF Remove, IInv
<1>5. ASSUME NEW t \in Thread, Clear(t)
      PROVE  IInv'
  <2>1. Pending' = {}
    BY <1>5 DEF Clear, Pending
  <2>. QED
    BY <1>0, <1>2, <1>5, <2>1 DEF Clear, IInv, NoLostWakeup
<1>6. ASSUME NEW p \in Proc, OnTimedEventPop(p)
      PROVE  IInv'
  <2>1. pc'[p] = "fire" /\ \A w \in Worker : pc[w] # "idle" => pc'[w] # "idle"
    BY <1>0, <1>6 DEF OnTimedEventPop, TypeOK
  <2>. QED
    BY <1>0, <1>1, <1>2, <1>6, <2>1 DEF OnTimedEventPop, IInv, timer
<1>7. ASSUME NEW p \in Proc, OnTimedEventFire(p)
      PROVE  IInv'
  <2>1. pc'[p] \in {"fire", "rearm"} /\ \A w \in Worker : pc[w] # "idle" => pc'[w] # "idle"
    BY <1>0, <1>7 DEF OnTimedEventFire, TypeOK
  <2>. QED
    BY <1>0, <1>1, <1>2, <1>7, <2>1 DEF OnTimedEventFire, IInv, timer
<1>8. ASSUME NEW p \in Proc, OnTimedEventRearm(p)
      PROVE  IInv'
  <2>1. \A w \in Worker : pc[w] # "idle" => pc'[w] # "idle"
    BY <1>0, <1>8 DEF OnTimedEventRearm, Return, TypeOK
  <2>2. NoLostWakeup'
    <3>1. CASE Pending = {}
      BY <1>8, <3>1 DEF OnTimedEventRearm, NoLostWakeup, Pending
    <3>2. CASE Pending # {}
      <4>1. pc'[p] = "start"
        BY <1>0, <1>8, <3>2 DEF OnTimedEventRearm, TypeOK
      <4>. QED
        BY <1>1, <4>1
    <3>. QED
      BY <3>1, <3>2
  <2>. QED
    BY <1>0, <1>2, <1>8, <2>1, <2>2 DEF OnTimedEventRearm, IInv
<1>9. ASSUME NEW p \in Proc, Start(p)
      PROVE  IInv'
  <2>1. \A w \in Worker : pc[w] # "idle" => pc'[w] # "idle"
    BY <1>0, <1>9 DEF Start, Return, TypeOK
  <2>2. NoLostWakeup'
    <3>1. CASE ~WaitFlag
      <4>1. handle' = Interval /\ Interval # Null
        BY <1>0, <1>9, <3>1 DEF Start, TypeOK
      <4>. QED
        BY <1>0, <4>1 DEF NoLostWakeup, TypeOK
    <3>2. CASE WaitFlag
      <4>1. WaitFlag' /\ StartFlag'
        BY <1>9, <3>2 DEF Start
      <4>2. PICK w \in Worker : pc'[w] # "idle"
        BY <2>1, <3>2 DEF IInv, WaitFlagOwned
      <4>3. CASE pc'[w] = "end"
        BY <4>1, <4>3 DEF NoLostWakeup
      <4>4. CASE pc'[w] # "end"
        <5>1. pc'[w] \in {"pop", "fire", "rearm", "start"}
          BY <1>0, <4>2, <4>4 DEF TypeOK
        <5>. QED
          BY <1>1, <5>1
      <4>. QED
        BY <4>3, <4>4
    <3>. QED
      BY <3>1, <3>2
  <2>. QED
    BY <1>0, <1>2, <1>9, <2>1, <2>2 DEF Start, IInv
<1>10. CASE TimeOut
  <2>1. queued' > 0
    BY <1>0, <1>10 DEF TimeOut, TypeOK
  <2>. QED
    BY <1>0, <1>2, <1>10, <2>1 DEF TimeOut, IInv, NoLostWakeup
<1>11. ASSUME NEW w \in Worker, HandleTimerBegin(w)
      PROVE  IInv'
  <2>1. pc'[w] = "pop"
    BY <1>0, <1>11 DEF HandleTimerBegin, TypeOK
  <2>. QED
    BY <1>0, <1>1, <2>1 DEF IInv, WaitFlagOwned
<1>12. ASSUME NEW w \in Worker, HandleTimerEnd(w)
      PROVE  IInv'
  <2>1. WaitFlagOwned'
    BY <1>12 DEF HandleTimerEnd, WaitFlagOwned
  <2>2. CASE WaitFlag /\ StartFlag
    <3>1. handle' # Null
      BY <1>0, <1>12, <2>2 DEF HandleTimerEnd, TypeOK
    <3>. QED
      BY <1>0, <2>1, <3>1 DEF IInv, NoLostWakeup
  <2>3. CASE ~(WaitFlag /\ StartFlag)
    <3>1. /\ UNCHANGED <<MonitorList, handle, queued>>
          /\ \A p \in Proc : pc'[p] = pc[p] \/ (p = w /\ pc[p] = "end")
      BY <1>0, <1>12, <2>3 DEF HandleTimerEnd, TypeOK
    <3>2. NoLostWakeup'
      BY <2>3, <3>1 DEF IInv, NoLostWakeup, Awake, Pending
    <3>. QED
      BY <1>0, <2>1, <3>2 DEF IInv
  <2>. QED
    BY <2>2, <2>3
<1>13. CASE Tick
  <2>1. Pending' = Pending
    <3>1. \A k \in Key : MonitorList'[k] = Less(MonitorList[k])
      BY <1>13 DEF Tick
    <3>2. \A k \in Key : Less(MonitorList[k]) = Null <=> MonitorList[k] = Null
      BY <1>0 DEF TypeOK, Less
    <3>. QED
      BY <3>1, <3>2 DEF Pending
  <2>2. handle # Null => handle' # Null
    BY <1>0, <1>13 DEF Tick, Less, TypeOK
  <2>3. NoLostWakeup'
    BY <1>13, <2>1, <2>2 DEF Tick, IInv, NoLostWakeup, Awake
  <2>. QED
    BY <1>0, <1>2, <1>13, <2>3 DEF Tick, IInv
<1>14. CASE UNCHANGED vars
  BY <1>0, <1>2, <1>14 DEF vars, timer, IInv, NoLostWakeup, Awake, Pending
<1>. QED
  BY <1>3, <1>4, <1>5, <1>6, <1>7, <1>8, <1>9, <1>10, <1>11, <1>12, <1>13, <1>14
  DEF Next, User, OnTimedEvent, HandleTimer

\* The inductive invariant holds of every behaviour.
THEOREM InvariantCorrect == Safety => []IInv
<1>1. Init => IInv
  <2>1. ASSUME Init
        PROVE  TypeOK
    <3>1. /\ MonitorList \in [Key -> 0..MaxDelay \cup {Null}]
          /\ eventList \in [Proc -> SUBSET Key]
          /\ pc \in [Proc -> {"idle", "pop", "fire", "rearm", "start", "end"}]
          /\ \A t \in Thread : pc[t] # "end"
      BY <2>1 DEF Init, Proc
    <3>2. /\ Interval \in 0..MaxDelay /\ timeout \in 0..MaxDelay /\ calls \in 0..MaxCalls
          /\ queued \in Nat /\ handle \in 0..MaxDelay \cup {Null}
      BY <2>1, LifeTimeMonitorAssumption DEF Init
    <3>4. lastCall \in [op : {"none", "put", "off"}, keys : SUBSET Key]
      BY <2>1 DEF Init
    <3>3. WaitFlag \in BOOLEAN /\ StartFlag \in BOOLEAN
      BY <2>1, Zenon DEF Init
    <3>. QED
      BY <3>1, <3>2, <3>3, <3>4 DEF TypeOK
  <2>2. Init => NoLostWakeup /\ WaitFlagOwned /\ OwedInLoop
    BY DEF Init, NoLostWakeup, WaitFlagOwned, OwedInLoop, Pending
  <2>. QED
    BY <2>1, <2>2 DEF IInv
<1>. QED
  BY <1>1, WakeupStep, PTL DEF Safety

\* Type correctness of the monitor and its timer.
THEOREM TypeCorrect == Safety => []TypeOK
<1>1. IInv => TypeOK
  BY DEF IInv
<1>. QED
  BY <1>1, InvariantCorrect, PTL

\* Whichever way calls, timed-out waits and running callbacks interleave, a key that
\* has a time will be looked at again.
THEOREM WakeupNeverLost == Safety => []NoLostWakeup
<1>1. IInv => NoLostWakeup
  BY DEF IInv
<1>. QED
  BY <1>1, InvariantCorrect, PTL

----------------------------------------------------------------------------
(* The monitor is a LifeTimeClock.                                         *)

Owing(k) == {p \in Proc : k \in eventList[p]}

LEMMA ProcFinite == IsFiniteSet(Proc) /\ \A k : IsFiniteSet(Owing(k))
<1>1. IsFiniteSet(Proc)
  BY LifeTimeMonitorAssumption, FS_Union DEF Proc
<1> QED
  BY <1>1, FS_Subset DEF Owing

\* The callbacks that are owed for a key, one more and one less.
LEMMA OneMore ==
  ASSUME NEW k, NEW p \in Proc, p \notin Owing(k), Owing(k)' = Owing(k) \cup {p}
  PROVE  Cardinality(Owing(k)') = Cardinality(Owing(k)) + 1
BY ProcFinite, FS_AddElement

LEMMA OneLess ==
  ASSUME NEW k, NEW p \in Owing(k), Owing(k)' = Owing(k) \ {p}
  PROVE  Cardinality(Owing(k)) > 0 /\ Cardinality(Owing(k)') = Cardinality(Owing(k)) - 1
<1> DEFINE n == Cardinality(Owing(k))
<1>1. n \in Nat /\ n # 0
  BY ProcFinite, FS_CardinalityType, FS_EmptySet
<1>2. Cardinality(Owing(k)') = n - 1
  BY ProcFinite, FS_RemoveElement
<1> HIDE DEF n
<1>3. n > 0
  BY <1>1
<1> QED
  BY <1>2, <1>3 DEF n

\* Every step of the monitor is a step of the clock, or none.
LEMMA ClockStep == IInv /\ [Next]_vars => [Clock!Next]_(Clock!vars)
<1> SUFFICES ASSUME IInv, [Next]_vars PROVE [Clock!Next]_(Clock!vars)
  OBVIOUS
<1> DEFINE owed == [k \in Key |-> Cardinality({p \in Proc : k \in eventList[p]})]
<1>0. owed = [k \in Key |-> Cardinality(Owing(k))]
      /\ owed' = [k \in Key |-> Cardinality(Owing(k)')]
  BY DEF Owing
<1>1. /\ TypeOK /\ pc \in [Proc -> {"idle", "pop", "fire", "rearm", "start", "end"}]
      /\ eventList \in [Proc -> SUBSET Key]
      /\ MonitorList \in [Key -> 0..MaxDelay \cup {Null}]
      /\ \A p \in Proc : pc[p] # "fire" => eventList[p] = {}
  BY DEF IInv, TypeOK, OwedInLoop
<1> DEFINE call == [n |-> calls, op |-> lastCall.op, keys |-> lastCall.keys]
<1>2. ASSUME NEW t \in Thread, NEW k \in Key, NEW d \in 0..MaxDelay, Add(t, k, d)
      PROVE  Clock!Put(k)
  <2>1. call' = [n |-> call.n + 1, op |-> "put", keys |-> {k}] /\ owed' = owed
    BY <1>2 DEF Add, Call
  <2>2. Pending' = Pending \cup {k}
    <3>1. \A j \in Key : MonitorList'[j] = IF j = k THEN d ELSE MonitorList[j]
      BY <1>1, <1>2 DEF Add
    <3>2. d # Null
      BY LifeTimeMonitorAssumption
    <3> QED
      BY <3>1, <3>2 DEF Pending
  <2> QED
    BY <2>1, <2>2 DEF Clock!Put
<1>3. ASSUME NEW t \in Thread, NEW k \in Key, Remove(t, k)
      PROVE  Clock!TakeOff({k})
  <2>1. call' = [n |-> call.n + 1, op |-> "off", keys |-> {k}] /\ owed' = owed
    BY <1>3 DEF Remove, Call
  <2>2. Pending' = Pending \ {k}
    <3>1. \A j \in Key : MonitorList'[j] = IF j = k THEN Null ELSE MonitorList[j]
      BY <1>1, <1>3 DEF Remove
    <3> QED
      BY <3>1 DEF Pending
  <2> QED
    BY <2>1, <2>2 DEF Clock!TakeOff
<1>8. ASSUME NEW t \in Thread, Clear(t)
      PROVE  Clock!TakeOff(Key)
  <2>1. call' = [n |-> call.n + 1, op |-> "off", keys |-> Key] /\ owed' = owed
    BY <1>8 DEF Clear, Call
  <2>2. Pending' = {} /\ Pending \subseteq Key
    BY <1>8 DEF Clear, Pending
  <2> QED
    BY <2>1, <2>2 DEF Clock!TakeOff
<1>4. ASSUME NEW p \in Proc, OnTimedEventPop(p) PROVE \E S \in SUBSET Key : Clock!Expire(S)
  <2> DEFINE S == {k \in Pending : MonitorList[k] = 0}
  <2>1. S \in SUBSET Key /\ S \subseteq Pending /\ eventList[p] = {}
    BY <1>1, <1>4 DEF OnTimedEventPop, Pending
  <2>2. Pending' = Pending \ S
    <3>1. \A k \in Key : MonitorList'[k] = IF MonitorList[k] = 0 THEN Null ELSE MonitorList[k]
      BY <1>4 DEF OnTimedEventPop
    <3>2. 0 # Null
      BY LifeTimeMonitorAssumption
    <3> QED
      BY <3>1, <3>2 DEF Pending
  <2>3. /\ \A q \in Proc : q # p => eventList'[q] = eventList[q]
        /\ eventList'[p] = S
    BY <1>1, <1>4 DEF OnTimedEventPop
  <2>4. ASSUME NEW k \in Key
        PROVE  Cardinality(Owing(k)') = IF k \in S THEN Cardinality(Owing(k)) + 1
                                                   ELSE Cardinality(Owing(k))
    <3>1. CASE k \in S
      <4>1. p \notin Owing(k) /\ Owing(k)' = Owing(k) \cup {p}
        BY <2>1, <2>3, <3>1 DEF Owing
      <4> QED
        BY <3>1, <4>1, OneMore
    <3>2. CASE k \notin S
      <4>1. Owing(k)' = Owing(k)
        BY <2>1, <2>3, <3>2 DEF Owing
      <4> QED
        BY <3>2, <4>1
    <3> QED
      BY <3>1, <3>2
  <2> HIDE DEF S
  <2>5. owed' = [k \in Key |-> IF k \in S THEN owed[k] + 1 ELSE owed[k]]
    BY <1>0, <2>4
  <2>6. call' = call
    BY <1>4 DEF OnTimedEventPop, users
  <2>7. Clock!Expire(S)
    BY <2>1, <2>2, <2>5, <2>6 DEF Clock!Expire
  <2> QED
    BY <2>1, <2>7
<1>5. ASSUME NEW p \in Proc, OnTimedEventFire(p), eventList[p] # {}
      PROVE  \E k \in Key : Clock!Callback(k)
  <2>1. PICK k \in eventList[p] : eventList' = [eventList EXCEPT ![p] = @ \ {k}]
    BY <1>5 DEF OnTimedEventFire
  <2>2. k \in Key /\ Pending' = Pending
    BY <1>1, <1>5, <2>1 DEF OnTimedEventFire, Pending
  <2>3. /\ \A q \in Proc : q # p => eventList'[q] = eventList[q]
        /\ eventList'[p] = eventList[p] \ {k}
    BY <1>1, <2>1
  <2>4. p \in Owing(k) /\ Owing(k)' = Owing(k) \ {p}
    BY <2>1, <2>3 DEF Owing
  <2>5. Cardinality(Owing(k)) > 0 /\ Cardinality(Owing(k)') = Cardinality(Owing(k)) - 1
    BY <2>4, OneLess
  <2>6. \A j \in Key : j # k => Owing(j)' = Owing(j)
    BY <2>3 DEF Owing
  <2>7. owed' = [owed EXCEPT ![k] = @ - 1] /\ owed[k] > 0
    BY <1>0, <2>2, <2>5, <2>6
  <2>8. call' = call
    BY <1>5 DEF OnTimedEventFire, users
  <2>9. Clock!Callback(k)
    BY <2>2, <2>7, <2>8 DEF Clock!Callback
  <2> QED
    BY <2>2, <2>9
\* The other steps move neither a key nor a callback.
<1>6. ASSUME NEW p \in Proc, OnTimedEventFire(p), eventList[p] = {}
      PROVE  UNCHANGED <<MonitorList, eventList, users>>
  BY <1>6 DEF OnTimedEventFire
<1>7. CASE Tick
  <2>1. Pending' = Pending
    <3>1. \A k \in Key : MonitorList'[k] = Less(MonitorList[k])
      BY <1>7 DEF Tick
    <3>2. \A k \in Key : Less(MonitorList[k]) = Null <=> MonitorList[k] = Null
      BY <1>1, LifeTimeMonitorAssumption DEF Less
    <3> QED
      BY <3>1, <3>2 DEF Pending
  <2> QED
    BY <1>7, <2>1 DEF Tick, users, Clock!vars
<1>9. ASSUME UNCHANGED <<MonitorList, eventList, users>> PROVE [Clock!Next]_(Clock!vars)
  BY <1>9 DEF users, Pending, Clock!vars
<1>10. \/ \E t \in Thread : User(t)
       \/ \E p \in Proc : OnTimedEventPop(p) \/ OnTimedEventFire(p)
       \/ Tick
       \/ UNCHANGED <<MonitorList, eventList, users>>
  BY DEF Next, OnTimedEvent, OnTimedEventRearm, Start, TimeOut, HandleTimer, HandleTimerBegin,
         HandleTimerEnd, vars, users
<1>11. CASE \E t \in Thread : User(t)
  BY <1>2, <1>3, <1>8, <1>11 DEF User, Clock!Next
<1>12. CASE \E p \in Proc : OnTimedEventPop(p)
  BY <1>4, <1>12 DEF Clock!Next
<1>13. CASE \E p \in Proc : OnTimedEventFire(p)
  BY <1>5, <1>6, <1>9, <1>13 DEF Clock!Next
<1> QED
  BY <1>7, <1>9, <1>10, <1>11, <1>12, <1>13

\* The monitor implements the clock that the smart control point is modelled with: a
\* key leaves it by a call for that key or by an expiry, and each expiry has one
\* callback, for any finite sets of threads.
THEOREM ClockImplemented == Safety => ImplementsLifeTimeClock
<1>1. ASSUME Init PROVE Clock!Init
  <2>1. \A k \in Key : {p \in Proc : k \in eventList[p]} = {}
    BY <1>1 DEF Init
  <2>2. [k \in Key |-> Cardinality({p \in Proc : k \in eventList[p]})] = [k \in Key |-> 0]
    BY <2>1, FS_EmptySet
  <2>3. Pending = {}
    BY <1>1 DEF Init, Pending
  <2>4. [n |-> calls, op |-> lastCall.op, keys |-> lastCall.keys]
          = [n |-> 0, op |-> "none", keys |-> {}]
    BY <1>1 DEF Init
  <2> QED
    BY <2>2, <2>3, <2>4 DEF Clock!Init
<1> QED
  BY <1>1, ClockStep, InvariantCorrect, PTL DEF Safety, ImplementsLifeTimeClock

----------------------------------------------------------------------------
(* ILibLifeTime: the invariant.                                            *)

\* What a registration appends.
LEMMA Appended ==
  ASSUME NEW q \in Seq(Nat), NEW x \in Nat
  PROVE  /\ Append(q, x) \in Seq(Nat)
         /\ Len(Append(q, x)) = Len(q) + 1
         /\ DOMAIN Append(q, x) = DOMAIN q \cup {Len(q) + 1}
         /\ Len(q) + 1 \notin DOMAIN q
         /\ \A i \in DOMAIN q : Append(q, x)[i] = q[i]
         /\ Append(q, x)[Len(q) + 1] = x
<1>1. /\ Append(q, x) \in Seq(Nat)
      /\ Len(Append(q, x)) = Len(q) + 1
      /\ \A i \in 1..Len(q) : Append(q, x)[i] = q[i]
      /\ Append(q, x)[Len(q) + 1] = x
  BY AppendProperties
<1>2. /\ DOMAIN q = 1..Len(q) /\ Len(q) \in Nat
      /\ DOMAIN Append(q, x) = 1..Len(Append(q, x))
  BY <1>1, LenProperties
<1> QED
  BY <1>1, <1>2

LEMMA AppendedPrefix ==
  ASSUME NEW q \in Seq(Nat), NEW x \in Nat
  PROVE  SubSeq(Append(q, x), 1, Len(q)) = q
<1> DEFINE r == Append(q, x)
<1>1. /\ r \in Seq(Nat) /\ Len(r) = Len(q) + 1 /\ Len(q) \in Nat
      /\ \A i \in 1..Len(q) : r[i] = q[i]
  BY AppendProperties, LenProperties
<1> HIDE DEF r
<1>2. /\ SubSeq(r, 1, Len(q)) \in Seq(Nat)
      /\ Len(SubSeq(r, 1, Len(q))) = Len(q)
      /\ \A i \in 1..Len(q) : SubSeq(r, 1, Len(q))[i] = r[i]
  BY <1>1, SubSeqProperties
<1>3. SubSeq(r, 1, Len(q)) = q
  BY <1>1, <1>2, SeqEqual
<1> QED
  BY <1>3 DEF r

\* The registration of an entry.
LEMMA AddInsertStep ==
  ASSUME LTInvariant, NEW p \in Client \cup {Chain}, NEW d \in Data, NEW ms \in Delays,
         Len(expires) < MaxAdds, AddInsert(p, d, ms)
  PROVE  LTInvariant'
<1> DEFINE e == [id |-> Len(expires) + 1, data |-> d, exp |-> now + ms]
<1>1. LTTypeOK /\ EntriesKnown /\ EachInPlace /\ QueuedHaveExpired /\ AddingKnown /\ TickCovers
  BY DEF LTInvariant
<1>2. /\ ObjectList' = ObjectList \cup {e}
      /\ Unlocked /\ adding' = [step |-> "test", by |-> p, id |-> e.id]
      /\ expires' = Append(expires, e.exp)
      /\ pipe' = (pipe \/ ObjectList = {})
      /\ UNCHANGED <<now, Reserved, NextTriggerTick, check, stopping, doomed, fired, destroyed,
                     seen, cancelled>>
  BY DEF AddInsert, InsertEntry, Registered
<1>3. now + ms \in Nat /\ expires \in Seq(Nat) /\ Len(expires) \in Nat /\ MaxAdds \in Nat
  BY <1>1, LifeTimeAssumption DEF LTTypeOK
<1>4. e \in Entry /\ e.id = Len(expires) + 1 /\ e.exp = now + ms
  BY <1>3 DEF Entry
<1>5. /\ expires' \in Seq(Nat)
      /\ DOMAIN expires' = DOMAIN expires \cup {e.id}
      /\ e.id \notin DOMAIN expires
      /\ \A i \in DOMAIN expires : expires'[i] = expires[i]
      /\ expires'[e.id] = e.exp
  BY <1>2, <1>3, <1>4, Appended
<1> HIDE DEF e
<1>6. pipe' \in BOOLEAN
  BY <1>1, <1>2, Zenon DEF LTTypeOK
<1>7. LTTypeOK'
  BY <1>1, <1>2, <1>3, <1>4, <1>5, <1>6 DEF LTTypeOK, check, stopping, Never
<1>8. EntriesKnown'
  <2>1. EventQueue' = EventQueue
    BY <1>2 DEF check
  <2>2. \A f \in ObjectList \cup EventQueue : f.id \in DOMAIN expires /\ f.id # e.id /\ f # e
    BY <1>1, <1>5 DEF EntriesKnown
  <2> QED
    BY <1>1, <1>2, <1>5, <2>1, <2>2 DEF EntriesKnown
<1>9. EachInPlace'
  <2>1. /\ Listed' = Listed \cup {e.id}
        /\ Ids(EventQueue)' = Ids(EventQueue)
        /\ Doomed' = Doomed
    BY <1>2 DEF Listed, Ids, Doomed, check
  <2>2. e.id \notin fired \cup destroyed /\ e.id \notin Doomed
    BY <1>1, <1>5 DEF EachInPlace
  <2> QED
    BY <1>1, <1>2, <1>5, <2>1, <2>2 DEF EachInPlace
<1>10. QueuedHaveExpired'
  BY <1>1, <1>2 DEF QueuedHaveExpired, AddInsert, CanCall, check
<1>11. AddingKnown'
  <2>1. adding'.step = "test" /\ adding'.id = e.id
    BY <1>2
  <2> QED
    BY <1>5, <2>1 DEF AddingKnown, Unlocked
<1>12. TickCovers'
  <2>1. adding'.id = e.id /\ e.id \notin seen
    BY <1>1, <1>2, <1>5 DEF TickCovers
  <2>2. \A f \in ObjectList : f.id # adding.id
    BY <1>1, <1>2, <1>3 DEF AddingKnown, EntriesKnown
  <2>3. \A f \in ObjectList' : f.id # e.id => f \in ObjectList
    BY <1>2
  <2>4. seen' \subseteq DOMAIN expires'
    BY <1>1, <1>2, <1>5 DEF TickCovers
  <2> HIDE DEF Never
  <2> QED
    BY <1>1, <1>2, <2>1, <2>2, <2>3, <2>4 DEF TickCovers, check
<1> QED
  BY <1>7, <1>8, <1>9, <1>10, <1>11, <1>12 DEF LTInvariant

\* A removal: what it takes off the list is its thread's to destroy.
LEMMA RemoveStep ==
  ASSUME LTInvariant, NEW p \in Client \cup {Chain}, NEW d \in Data, LifeTime_Remove(p, d)
  PROVE  LTInvariant'
<1> DEFINE mine == {e \in ObjectList : e.data = d}
<1>1. LTTypeOK /\ EntriesKnown /\ EachInPlace /\ QueuedHaveExpired /\ AddingKnown /\ TickCovers
  BY DEF LTInvariant
<1>2. /\ ObjectList' = ObjectList \ mine
      /\ doomed' = [doomed EXCEPT ![p] = Ids(mine)]
      /\ Reserved' = IF ObjectList # {} /\ mine = {} THEN Reserved \cup {d} ELSE Reserved
      /\ cancelled' = cancelled \cup Ids({e \in EventQueue : e.data = d})
      /\ UNCHANGED <<now, NextTriggerTick, adding, check, pipe, stopping, expires, fired,
                     destroyed, seen>>
      /\ doomed[p] = {}
  BY DEF LifeTime_Remove, CanCall
<1>3. mine \subseteq ObjectList
  OBVIOUS
<1>4. Ids(mine) \subseteq 1..MaxAdds /\ Ids({e \in EventQueue : e.data = d}) \subseteq 1..MaxAdds
  BY <1>1 DEF LTTypeOK, Entry, Ids
<1>5. p = Chain => at = "callback"
  BY DEF LifeTime_Remove, CanCall
<1> HIDE DEF mine
<1>6. /\ doomed'[p] = Ids(mine)
      /\ \A q \in Client \cup {Chain} : q # p => doomed'[q] = doomed[q]
  BY <1>1, <1>2 DEF LTTypeOK
<1>7. LTTypeOK'
  <2>1. doomed' \in [Client \cup {Chain} -> SUBSET (1..MaxAdds)]
    BY <1>1, <1>2, <1>4 DEF LTTypeOK
  <2>2. Reserved' \in SUBSET Data /\ cancelled' \in SUBSET (1..MaxAdds)
    BY <1>1, <1>2, <1>4 DEF LTTypeOK
  <2>3. pipe' \in BOOLEAN /\ TerminateFlag' \in BOOLEAN
    BY <1>1, <1>2, Zenon DEF LTTypeOK, stopping
  <2> QED
    BY <1>1, <1>2, <2>1, <2>2, <2>3 DEF LTTypeOK, check, stopping
<1>8. EntriesKnown'
  BY <1>1, <1>2 DEF EntriesKnown, check
<1>9. EachInPlace'
  <2>1. Listed' = Listed \ Ids(mine) /\ Ids(mine) \subseteq Listed
        /\ Ids(EventQueue)' = Ids(EventQueue)
    BY <1>1, <1>2, <1>3 DEF Listed, Ids, EntriesKnown, check
  <2>2. Doomed' = Doomed \cup Ids(mine)
    BY <1>2, <1>6 DEF Doomed
  <2>3. Ids(mine) \cap Ids(EventQueue) = {}
    BY <1>1, <1>3 DEF Ids, EntriesKnown
  <2>4. \A q \in Client \cup {Chain} : doomed[q] \cap Ids(mine) = {}
    BY <1>1, <2>1 DEF EachInPlace, Doomed
  <2>5. \A q, r \in Client \cup {Chain} : q # r => doomed'[q] \cap doomed'[r] = {}
    BY <1>1, <1>6, <2>4 DEF EachInPlace
  <2> QED
    BY <1>1, <1>2, <2>1, <2>2, <2>3, <2>5 DEF EachInPlace
<1>10. QueuedHaveExpired'
  <2>1. doomed'[Chain] # {} => at = "callback"
    BY <1>1, <1>5, <1>6 DEF QueuedHaveExpired
  <2> QED
    BY <1>1, <1>2, <2>1 DEF QueuedHaveExpired, check
<1>11. TickCovers' /\ AddingKnown'
  BY <1>1, <1>2 DEF TickCovers, AddingKnown, Unlocked, check
<1> QED
  BY <1>7, <1>8, <1>9, <1>10, <1>11 DEF LTInvariant

LEMMA RemoveDestroysStep ==
  ASSUME LTInvariant, NEW p \in Client \cup {Chain}, RemoveDestroys(p)
  PROVE  LTInvariant'
<1>1. LTTypeOK /\ EntriesKnown /\ EachInPlace /\ QueuedHaveExpired /\ AddingKnown /\ TickCovers
  BY DEF LTInvariant
<1>2. PICK i \in doomed[p] : /\ doomed' = [doomed EXCEPT ![p] = @ \ {i}]
                             /\ destroyed' = destroyed \cup {i}
  BY DEF RemoveDestroys
<1>3. UNCHANGED <<now, list, check, pipe, stopping, expires, fired, seen, cancelled>>
  BY DEF RemoveDestroys
<1>4. i \in 1..MaxAdds
  BY <1>1, <1>2 DEF LTTypeOK
<1>5. /\ doomed'[p] = doomed[p] \ {i}
      /\ \A q \in Client \cup {Chain} : q # p => doomed'[q] = doomed[q]
  BY <1>1, <1>2 DEF LTTypeOK
<1>6. LTTypeOK'
  <2>1. pipe' \in BOOLEAN /\ TerminateFlag' \in BOOLEAN
    BY <1>1, <1>3, Zenon DEF LTTypeOK, stopping
  <2>2. doomed' \in [Client \cup {Chain} -> SUBSET (1..MaxAdds)]
    BY <1>1, <1>2 DEF LTTypeOK
  <2> QED
    BY <1>1, <1>2, <1>3, <1>4, <2>1, <2>2 DEF LTTypeOK, list, check, stopping
<1>7. EntriesKnown' /\ AddingKnown' /\ TickCovers'
  BY <1>1, <1>3 DEF EntriesKnown, AddingKnown, Unlocked, TickCovers, list, check
<1>8. EachInPlace'
  <2>1. Listed' = Listed /\ Ids(EventQueue)' = Ids(EventQueue)
    BY <1>3 DEF Listed, Ids, list, check
  <2>2. Doomed' = Doomed \ {i} /\ i \in Doomed
    <3>1. \A q \in Client \cup {Chain} : q # p => i \notin doomed[q]
      BY <1>1, <1>2 DEF EachInPlace
    <3> QED
      BY <1>2, <1>5, <3>1 DEF Doomed
  <2>3. \A q, r \in Client \cup {Chain} : q # r => doomed'[q] \cap doomed'[r] = {}
    BY <1>1, <1>5 DEF EachInPlace
  <2> QED
    BY <1>1, <1>2, <1>3, <2>1, <2>2, <2>3 DEF EachInPlace
<1>9. QueuedHaveExpired'
  <2>1. doomed'[Chain] # {} => doomed[Chain] # {}
    BY <1>5
  <2> QED
    BY <1>1, <1>3, <2>1 DEF QueuedHaveExpired, list, check
<1> QED
  BY <1>6, <1>7, <1>8, <1>9 DEF LTInvariant

\* The pass of the chain: what it finds expired goes to the queue.
LEMMA CheckSectionStep ==
  ASSUME LTInvariant, CheckSection
  PROVE  LTInvariant'
<1>1. LTTypeOK /\ EntriesKnown /\ EachInPlace /\ QueuedHaveExpired /\ AddingKnown /\ TickCovers
  BY DEF LTInvariant
<1>2. /\ at = "section" /\ at' = "fire"
      /\ Reserved' = {} /\ seen' = Listed
      /\ EventQueue' = {e \in ObjectList : e.exp < CurrentTick}
      /\ ObjectList' = {e \in ObjectList : e.exp >= CurrentTick}
      /\ Unlocked
      /\ UNCHANGED <<now, adding, CurrentTick, blocktime, slept, pipe, stopping, doomed, expires,
                     fired, destroyed, cancelled>>
  BY DEF CheckSection, Goes
<1>3. EventQueue = {} /\ NextTriggerTick \in Nat \cup {Never} /\ adding.id = 0
  BY <1>1, <1>2 DEF QueuedHaveExpired, AddingKnown, LTTypeOK
<1>4. /\ ObjectList = EventQueue' \cup ObjectList'
      /\ EventQueue' \cap ObjectList' = {}
  BY <1>1, <1>2 DEF LTTypeOK, Entry
<1>5. /\ NextTriggerTick' \in Nat \cup {Never}
      /\ \A e \in ObjectList' : NextTriggerTick' <= e.exp
      /\ NextTriggerTick' = Never => ObjectList' = {}
  <2> DEFINE ticks == Sooner(ObjectList', NextTriggerTick)
  <2>1. {e.exp : e \in ObjectList'} \subseteq ticks /\ ticks \subseteq Nat
    BY <1>1, <1>2, <1>3 DEF Sooner, LTTypeOK, Entry
  <2>2. CASE ticks = {}
    <3>1. NextTriggerTick' = Never /\ ObjectList' = {}
      BY <2>1, <2>2 DEF CheckSection
    <3> QED
      BY <3>1
  <2>3. CASE ticks # {}
    <3>1. PICK t \in ticks : (\A u \in ticks : t <= u) /\ NextTriggerTick' = t
      BY <2>3 DEF CheckSection
    <3> HIDE DEF ticks
    <3>2. t \in Nat /\ t # Never
      BY <2>1, <3>1 DEF Never
    <3>3. \A e \in ObjectList' : t <= e.exp
      BY <2>1, <3>1
    <3> QED
      BY <3>1, <3>2, <3>3
  <2> QED
    BY <2>2, <2>3
<1>6. LTTypeOK'
  <2>1. pipe' \in BOOLEAN /\ TerminateFlag' \in BOOLEAN
    BY <1>1, <1>2, Zenon DEF LTTypeOK, stopping
  <2>2. seen' \in SUBSET (1..MaxAdds)
    BY <1>1, <1>2 DEF LTTypeOK, Listed, Ids, Entry
  <2> QED
    BY <1>1, <1>2, <1>4, <1>5, <2>1, <2>2 DEF LTTypeOK, stopping
<1>7. EntriesKnown'
  BY <1>1, <1>2, <1>4 DEF EntriesKnown
<1>8. EachInPlace'
  <2>1. /\ Listed' \cup Ids(EventQueue)' = Listed
        /\ Ids(EventQueue) = {} /\ Doomed' = Doomed
    BY <1>2, <1>3, <1>4 DEF Listed, Ids, Doomed
  <2> QED
    BY <1>1, <1>2, <2>1 DEF EachInPlace
<1>9. QueuedHaveExpired'
  BY <1>1, <1>2 DEF QueuedHaveExpired
<1>10. TickCovers'
  <2>1. Listed \subseteq DOMAIN expires
    BY <1>1 DEF EntriesKnown, Listed, Ids
  <2>2. adding'.id \notin seen'
    BY <1>1, <1>2, <1>3 DEF LTTypeOK, Listed, Ids, Entry
  <2> QED
    BY <1>1, <1>2, <1>5, <2>1, <2>2 DEF TickCovers
<1>11. AddingKnown'
  BY <1>1, <1>2 DEF AddingKnown, Unlocked
<1> QED
  BY <1>6, <1>7, <1>8, <1>9, <1>10, <1>11 DEF LTInvariant

\* The next of the queue is called.
LEMMA FireStep ==
  ASSUME LTInvariant, Fire
  PROVE  LTInvariant'
<1>1. LTTypeOK /\ EntriesKnown /\ EachInPlace /\ QueuedHaveExpired /\ AddingKnown /\ TickCovers
  BY DEF LTInvariant
<1>2. /\ at = "fire"
      /\ UNCHANGED <<now, list, CurrentTick, blocktime, slept, pipe, stopping, doomed, expires,
                     destroyed, seen, cancelled>>
  BY DEF Fire
<1>3. pipe' \in BOOLEAN /\ TerminateFlag' \in BOOLEAN
  BY <1>1, <1>2, Zenon DEF LTTypeOK, stopping
<1>6. AddingKnown'
  BY <1>1, <1>2 DEF AddingKnown, Unlocked, list
<1>4. CASE EventQueue = {} /\ at' = "compute" /\ UNCHANGED <<EventQueue, fired>>
  <2>1. Listed' = Listed /\ Ids(EventQueue)' = Ids(EventQueue) /\ Doomed' = Doomed
    BY <1>2, <1>4 DEF Listed, Ids, Doomed, list
  <2>2. EachInPlace'
    BY <1>1, <1>2, <1>4, <2>1 DEF EachInPlace
  <2>3. LTTypeOK'
    BY <1>1, <1>2, <1>3, <1>4 DEF LTTypeOK, list, stopping
  <2>4. EntriesKnown' /\ QueuedHaveExpired' /\ TickCovers'
    BY <1>1, <1>2, <1>4 DEF EntriesKnown, QueuedHaveExpired, TickCovers, list
  <2> QED
    BY <1>6, <2>2, <2>3, <2>4 DEF LTInvariant
<1>5. ASSUME at' = "callback", NEW e \in EventQueue,
             EventQueue' = EventQueue \ {e}, fired' = fired \cup {e.id}
      PROVE  LTInvariant'
  <2>1. e.id \in 1..MaxAdds /\ e.id \in DOMAIN expires
    BY <1>1 DEF LTTypeOK, EntriesKnown, Entry
  <2>2. LTTypeOK'
    BY <1>1, <1>2, <1>3, <1>5, <2>1 DEF LTTypeOK, list, stopping
  <2>3. EntriesKnown' /\ QueuedHaveExpired' /\ TickCovers'
    BY <1>1, <1>2, <1>5 DEF EntriesKnown, QueuedHaveExpired, TickCovers, list
  <2>4. /\ Listed' = Listed /\ Doomed' = Doomed
        /\ Ids(EventQueue)' = Ids(EventQueue) \ {e.id} /\ e.id \in Ids(EventQueue)
    <3>1. \A f \in EventQueue : f.id = e.id => f = e
      BY <1>1 DEF EntriesKnown
    <3> QED
      BY <1>2, <1>5, <3>1 DEF Listed, Ids, Doomed, list
  <2>5. e.id \notin Listed /\ e.id \notin Doomed
    BY <1>1, <2>4 DEF EachInPlace, EntriesKnown, Listed, Ids
  <2>6. EachInPlace'
    BY <1>1, <1>2, <1>5, <2>1, <2>4, <2>5 DEF EachInPlace
  <2> QED
    BY <1>6, <2>2, <2>3, <2>6 DEF LTInvariant
<1> QED
  BY <1>4, <1>5 DEF Fire

\* The chain is freed, with the entries that are left.
LEMMA FreeChainStep ==
  ASSUME LTInvariant, FreeChain
  PROVE  LTInvariant' /\ EventQueue = {} /\ doomed[Chain] = {}
<1>1. LTTypeOK /\ EntriesKnown /\ EachInPlace /\ QueuedHaveExpired /\ AddingKnown /\ TickCovers
  BY DEF LTInvariant
<1>2. /\ at = "loop" /\ at' = "freed"
      /\ destroyed' = destroyed \cup Listed
      /\ ObjectList' = {} /\ Reserved' = {} /\ pipe' = FALSE
      /\ UNCHANGED <<now, NextTriggerTick, adding, CurrentTick, EventQueue, blocktime, slept,
                     stopping, doomed, expires, fired, seen, cancelled>>
  BY DEF FreeChain, Goes
<1>3. EventQueue = {} /\ doomed[Chain] = {}
  BY <1>1, <1>2 DEF QueuedHaveExpired
<1>4. Listed \subseteq 1..MaxAdds
  BY <1>1 DEF LTTypeOK, Listed, Ids, Entry
<1>5. pipe' \in BOOLEAN /\ TerminateFlag' \in BOOLEAN
  BY <1>1, <1>2, Zenon DEF LTTypeOK, stopping
<1>6. LTTypeOK'
  BY <1>1, <1>2, <1>4, <1>5 DEF LTTypeOK, stopping
<1>7. EntriesKnown' /\ QueuedHaveExpired' /\ AddingKnown' /\ TickCovers'
  BY <1>1, <1>2 DEF EntriesKnown, QueuedHaveExpired, AddingKnown, Unlocked, TickCovers
<1>8. EachInPlace'
  <2>1. Listed' = {} /\ Ids(EventQueue)' = Ids(EventQueue) /\ Doomed' = Doomed
    BY <1>2 DEF Listed, Ids, Doomed
  <2>2. \A p, q \in Client \cup {Chain} : p # q => doomed'[p] \cap doomed'[q] = {}
    BY <1>1, <1>2 DEF EachInPlace
  <2>3. /\ fired \cup destroyed \subseteq DOMAIN expires
        /\ Listed \cup Ids(EventQueue) \cup Doomed = DOMAIN expires \ (fired \cup destroyed)
        /\ Doomed \cap (Listed \cup Ids(EventQueue)) = {}
    BY <1>1 DEF EachInPlace
  <2>4. Listed \cap Ids(EventQueue) = {}
    BY <1>3 DEF Ids
  <2> QED
    BY <1>2, <2>1, <2>2, <2>3, <2>4 DEF EachInPlace
<1> QED
  BY <1>3, <1>6, <1>7, <1>8 DEF LTInvariant

\* The steps that leave every entry where it is.
LEMMA StayStep ==
  ASSUME LTInvariant, UNCHANGED <<ObjectList, EventQueue, doomed, expires, fired, destroyed>>,
         LTTypeOK', QueuedHaveExpired', AddingKnown', TickCovers'
  PROVE  LTInvariant'
<1>1. EntriesKnown'
  BY DEF LTInvariant, EntriesKnown
<1>2. Listed' = Listed /\ Ids(EventQueue)' = Ids(EventQueue) /\ Doomed' = Doomed
  BY DEF Listed, Ids, Doomed
<1>3. EachInPlace'
  BY <1>2 DEF LTInvariant, EachInPlace
<1> QED
  BY <1>1, <1>3 DEF LTInvariant

\* How long the chain will sleep: the short cut, and the computation after the pass.
LEMMA CheckFastStep ==
  ASSUME LTInvariant, CheckFast
  PROVE  LTInvariant'
<1>1. LTTypeOK /\ EntriesKnown /\ EachInPlace /\ QueuedHaveExpired /\ AddingKnown /\ TickCovers
  BY DEF LTInvariant
<1>2. /\ at = "loop" /\ CurrentTick' = now
      /\ UNCHANGED <<now, list, EventQueue, slept, pipe, stopping, doomed, expires, fired,
                     destroyed, cancelled>>
  BY DEF CheckFast
<1>3. EventQueue = {} /\ doomed[Chain] = {} /\ now \in Nat /\ NextTriggerTick \in Nat \cup {Never}
  BY <1>1, <1>2 DEF QueuedHaveExpired, LTTypeOK
<1>4. pipe' \in BOOLEAN /\ TerminateFlag' \in BOOLEAN
  BY <1>1, <1>2, Zenon DEF LTTypeOK, stopping
<1>5. MaxWait \in Nat
  BY LifeTimeAssumption
<1>8. AddingKnown'
  BY <1>1, <1>2 DEF AddingKnown, Unlocked, list
<1>6. CASE /\ NextTriggerTick > now /\ NextTriggerTick # Never
           /\ at' = "wait" /\ blocktime' = NextTriggerTick - now /\ seen' = Listed \ {adding.id}
  <2>1. seen' \in SUBSET (1..MaxAdds) /\ seen' \subseteq DOMAIN expires
    BY <1>1, <1>6 DEF LTTypeOK, EntriesKnown, Listed, Ids, Entry
  <2>2. blocktime' \in Nat
    BY <1>3, <1>6 DEF Never
  <2>3. LTTypeOK'
    BY <1>1, <1>2, <1>4, <1>6, <2>1, <2>2 DEF LTTypeOK, list, stopping
  <2>4. QueuedHaveExpired'
    BY <1>1, <1>2, <1>3, <1>6 DEF QueuedHaveExpired, list
  <2>5. \A e \in ObjectList :
          e.exp \in Nat /\ (e.id \in seen' => NextTriggerTick <= e.exp)
    BY <1>1, <1>6 DEF TickCovers, LTTypeOK, Entry
  <2>6. \A e \in ObjectList : e.id \in seen' => blocktime' <= e.exp - now
    BY <1>3, <1>6, <2>5 DEF Never
  <2>7. TickCovers'
    BY <1>1, <1>2, <1>6, <2>1, <2>6 DEF TickCovers, list
  <2> QED
    BY <1>2, <1>8, <2>3, <2>4, <2>7, StayStep DEF list
<1>7. CASE at' = "reset" /\ blocktime' = MaxWait /\ UNCHANGED seen
  <2>1. LTTypeOK'
    BY <1>1, <1>2, <1>4, <1>5, <1>7 DEF LTTypeOK, list, stopping
  <2>2. QueuedHaveExpired'
    BY <1>1, <1>2, <1>3, <1>7 DEF QueuedHaveExpired, list
  <2>3. TickCovers'
    BY <1>1, <1>2, <1>7 DEF TickCovers, list
  <2> QED
    BY <1>2, <1>8, <2>1, <2>2, <2>3, StayStep DEF list
<1> QED
  BY <1>6, <1>7 DEF CheckFast

LEMMA ComputeStep ==
  ASSUME LTInvariant, Compute
  PROVE  LTInvariant'
<1>1. LTTypeOK /\ EntriesKnown /\ EachInPlace /\ QueuedHaveExpired /\ AddingKnown /\ TickCovers
  BY DEF LTInvariant
<1>2. /\ at = "compute" /\ at' = "wait"
      /\ UNCHANGED <<now, list, CurrentTick, EventQueue, slept, pipe, stopping, doomed, history>>
  BY DEF Compute, Goes
<1> DEFINE left == NextTriggerTick - CurrentTick
<1>3. blocktime' = IF NextTriggerTick # Never /\ blocktime > left
                     THEN (IF left < 1 THEN 1 ELSE left) ELSE blocktime
  BY DEF Compute
<1>4. NextTriggerTick \in Nat \cup {Never} /\ CurrentTick \in Nat /\ blocktime \in Nat
  BY <1>1 DEF LTTypeOK
<1>5. left \in Int
  BY <1>4 DEF Never
<1>6. \A e \in ObjectList : e.exp \in Nat
  BY <1>1 DEF LTTypeOK, Entry
<1>7. NextTriggerTick # Never =>
        \A e \in ObjectList : e.id \in seen => left <= e.exp - CurrentTick
  BY <1>1, <1>4, <1>6 DEF TickCovers, Never
<1> HIDE DEF left
<1>8. blocktime' \in Nat
  BY <1>3, <1>4, <1>5
<1>9. NextTriggerTick # Never => blocktime' <= 1 \/ blocktime' <= left
  BY <1>3, <1>4, <1>5
<1>10. \A e \in ObjectList : e.id \in seen => blocktime' <= 1 \/ blocktime' <= e.exp - CurrentTick
  <2>1. CASE NextTriggerTick = Never
    BY <1>1, <1>2, <2>1 DEF TickCovers
  <2>2. CASE NextTriggerTick # Never
    BY <1>4, <1>5, <1>6, <1>7, <1>8, <1>9, <2>2
  <2> QED
    BY <2>1, <2>2
<1>11. pipe' \in BOOLEAN /\ TerminateFlag' \in BOOLEAN
  BY <1>1, <1>2, Zenon DEF LTTypeOK, stopping
<1>12. LTTypeOK'
  BY <1>1, <1>2, <1>8, <1>11 DEF LTTypeOK, list, stopping, history
<1>13. QueuedHaveExpired'
  BY <1>1, <1>2 DEF QueuedHaveExpired, list
<1>14. TickCovers'
  BY <1>1, <1>2, <1>10 DEF TickCovers, list, history
<1>15. AddingKnown'
  BY <1>1, <1>2 DEF AddingKnown, Unlocked, list, history
<1> QED
  BY <1>2, <1>12, <1>13, <1>14, <1>15, StayStep DEF list, history

\* What AddEx does after the insertion.
LEMMA AddTestStep ==
  ASSUME LTInvariant, AddTest
  PROVE  LTInvariant'
<1>1. LTTypeOK /\ EntriesKnown /\ EachInPlace /\ QueuedHaveExpired /\ AddingKnown /\ TickCovers
  BY DEF LTInvariant
<1>2. /\ adding.step = "test"
      /\ UNCHANGED <<now, ObjectList, Reserved, NextTriggerTick, check, pipe, stopping, doomed,
                     history>>
  BY DEF AddTest
<1> DEFINE exp == expires[adding.id]
<1>3. adding.id \in DOMAIN expires /\ exp \in Nat
  BY <1>1, <1>2 DEF AddingKnown, Unlocked, LTTypeOK
<1>4. \A e \in ObjectList : e.id = adding.id => e.exp = exp
  BY <1>1 DEF EntriesKnown
<1>5. NextTriggerTick \in Nat \cup {Never} /\ (\A e \in ObjectList : e.exp \in Nat)
      /\ 0 \notin seen
  BY <1>1 DEF LTTypeOK, Entry
<1>6. pipe' \in BOOLEAN /\ TerminateFlag' \in BOOLEAN
  BY <1>1, <1>2, Zenon DEF LTTypeOK, stopping
<1>7. QueuedHaveExpired'
  BY <1>1, <1>2 DEF QueuedHaveExpired, check, history
<1>8. adding' = IF NextTriggerTick > exp THEN [adding EXCEPT !.step = "write"] ELSE NotAdding
  BY DEF AddTest
<1> HIDE DEF exp
<1>9. CASE NextTriggerTick > exp
  <2>1. /\ adding'.step = "write" /\ adding'.id = adding.id
        /\ adding' \in [step : {"none", "test", "write"}, by : Client \cup {Chain},
                         id : 0..MaxAdds]
    BY <1>1, <1>8, <1>9 DEF LTTypeOK
  <2>2. LTTypeOK'
    BY <1>1, <1>2, <1>6, <2>1 DEF LTTypeOK, check, stopping, history
  <2>3. NextTriggerTick # Never
    BY <1>3, <1>5, <1>9 DEF Never
  <2>4. \A e \in ObjectList : e.id # adding.id => NextTriggerTick <= e.exp
    BY <1>1, <2>3 DEF TickCovers
  <2>5. \A e \in ObjectList : exp <= e.exp
    BY <1>3, <1>4, <1>5, <1>9, <2>3, <2>4 DEF Never
  <2>6. AddingKnown'
    BY <1>2, <1>3, <2>1, <2>5 DEF AddingKnown, Unlocked, history, exp
  <2>7. TickCovers'
    BY <1>1, <1>2, <2>1 DEF TickCovers, check, history
  <2> QED
    BY <1>2, <1>7, <2>2, <2>6, <2>7, StayStep DEF check, history
<1>10. CASE ~(NextTriggerTick > exp)
  <2>1. adding' = NotAdding
    BY <1>8, <1>10
  <2>2. adding'.step = "none" /\ adding'.id = 0
        /\ adding' \in [step : {"none", "test", "write"}, by : Client \cup {Chain},
                         id : 0..MaxAdds]
    BY <2>1, LifeTimeAssumption DEF NotAdding
  <2>3. LTTypeOK'
    BY <1>1, <1>2, <1>6, <2>2 DEF LTTypeOK, check, stopping, history
  <2>4. AddingKnown'
    BY <2>2 DEF AddingKnown, Unlocked
  <2>5. NextTriggerTick # Never => \A e \in ObjectList : NextTriggerTick <= e.exp
    <3>1. NextTriggerTick <= exp
      BY <1>3, <1>5, <1>10 DEF Never
    <3> QED
      BY <1>1, <1>4, <3>1 DEF TickCovers
  <2>6. TickCovers'
    BY <1>1, <1>2, <1>5, <2>2, <2>5 DEF TickCovers, check, history
  <2> QED
    BY <1>2, <1>7, <2>3, <2>4, <2>6, StayStep DEF check, history
<1> QED
  BY <1>9, <1>10

LEMMA AddWriteStep ==
  ASSUME LTInvariant, AddWrite
  PROVE  LTInvariant'
<1>1. LTTypeOK /\ EntriesKnown /\ EachInPlace /\ QueuedHaveExpired /\ AddingKnown /\ TickCovers
  BY DEF LTInvariant
<1>2. /\ adding.step = "write" /\ adding' = NotAdding
      /\ NextTriggerTick' = expires[adding.id]
      /\ UNCHANGED <<now, ObjectList, Reserved, check, pipe, stopping, doomed, history>>
  BY DEF AddWrite
<1>3. NextTriggerTick' \in Nat /\ \A e \in ObjectList : NextTriggerTick' <= e.exp
  BY <1>1, <1>2 DEF AddingKnown, Unlocked, LTTypeOK
<1>4. adding'.step = "none" /\ adding'.id = 0
      /\ adding' \in [step : {"none", "test", "write"}, by : Client \cup {Chain},
                       id : 0..MaxAdds]
  BY <1>2, LifeTimeAssumption DEF NotAdding
<1>5. LTTypeOK'
  <2>1. pipe' \in BOOLEAN /\ TerminateFlag' \in BOOLEAN
    BY <1>1, <1>2, Zenon DEF LTTypeOK, stopping
  <2> QED
    BY <1>1, <1>2, <1>3, <1>4, <2>1 DEF LTTypeOK, check, stopping, history
<1>6. AddingKnown'
  BY <1>4 DEF AddingKnown, Unlocked
<1>7. TickCovers'
  <2>1. 0 \notin seen /\ NextTriggerTick' # Never
    BY <1>1, <1>3 DEF LTTypeOK, Never
  <2> QED
    BY <1>1, <1>2, <1>3, <1>4, <2>1 DEF TickCovers, check, history
<1>8. QueuedHaveExpired'
  BY <1>1, <1>2 DEF QueuedHaveExpired, check, history
<1> QED
  BY <1>2, <1>5, <1>6, <1>7, <1>8, StayStep DEF check, history

LEMMA LTStep == LTInvariant /\ [LTNext]_LTvars => LTInvariant'
<1> SUFFICES ASSUME LTInvariant, [LTNext]_LTvars PROVE LTInvariant'
  OBVIOUS
<1>1. LTTypeOK /\ QueuedHaveExpired /\ AddingKnown /\ TickCovers
  BY DEF LTInvariant
<1>2. pipe \in BOOLEAN /\ TerminateFlag \in BOOLEAN
  BY <1>1 DEF LTTypeOK
<1>3. CASE CheckReset
  <2>1. LTTypeOK'
    <3>1. pipe' \in BOOLEAN /\ TerminateFlag' \in BOOLEAN
      BY <1>2, <1>3, Zenon DEF CheckReset, stopping
    <3> QED
      BY <1>1, <1>3, <3>1 DEF CheckReset, Goes, LTTypeOK, stopping, history
  <2>2. QueuedHaveExpired' /\ AddingKnown' /\ TickCovers'
    BY <1>1, <1>3 DEF CheckReset, Goes, QueuedHaveExpired, AddingKnown, Unlocked,
       TickCovers, history
  <2> QED
    BY <1>3, <2>1, <2>2, StayStep DEF CheckReset, history
<1>4. CASE CallbackReturns \/ Select
  <2>1. /\ at' \in {"fire", "select"} /\ slept' \in Nat
        /\ at' = "fire" => at = "callback" /\ doomed[Chain] = {}
        /\ at' = "select" => at = "wait"
        /\ UNCHANGED <<now, list, CurrentTick, EventQueue, blocktime, pipe, stopping, doomed,
                       history>>
    BY <1>1, <1>4 DEF CallbackReturns, Select, Goes, LTTypeOK
  <2>2. LTTypeOK'
    <3>1. pipe' \in BOOLEAN /\ TerminateFlag' \in BOOLEAN
      BY <1>2, <2>1, Zenon DEF stopping
    <3> QED
      BY <1>1, <2>1, <3>1 DEF LTTypeOK, list, stopping, history
  <2>3. QueuedHaveExpired' /\ AddingKnown' /\ TickCovers'
    BY <1>1, <2>1 DEF QueuedHaveExpired, AddingKnown, Unlocked,
       TickCovers, list, history
  <2> QED
    BY <2>1, <2>2, <2>3, StayStep DEF list, history
<1>5. CASE Woken \/ Drain
  <2>1. /\ at \in {"select", "drain"} /\ at' \in {"drain", "loop"}
        /\ CurrentTick' \in {0, CurrentTick} /\ blocktime' \in {0, blocktime}
        /\ slept' \in {0, slept} /\ UNCHANGED <<now, list, EventQueue, stopping, doomed, history>>
        /\ pipe' \in {FALSE, pipe}
    BY <1>5, Zenon DEF Woken, Drain, Goes
  <2>2. EventQueue = {} /\ doomed[Chain] = {} /\ CurrentTick' \in Nat /\ CurrentTick' <= now
    BY <1>1, <2>1 DEF QueuedHaveExpired, LTTypeOK
  <2>3. LTTypeOK'
    <3>1. pipe' \in BOOLEAN /\ TerminateFlag' \in BOOLEAN
      BY <1>2, <2>1, Zenon DEF stopping
    <3> QED
      BY <1>1, <2>1, <2>2, <3>1 DEF LTTypeOK, list, stopping, history
  <2>4. QueuedHaveExpired' /\ AddingKnown' /\ TickCovers'
    BY <1>1, <2>1, <2>2 DEF QueuedHaveExpired, AddingKnown, Unlocked,
       TickCovers, list, history
  <2> QED
    BY <2>1, <2>3, <2>4, StayStep DEF list, history
<1>6. CASE StopFlag \/ StopUnblock
  <2>1. /\ stopper' \in {"flagged", "done"} /\ pipe' \in {TRUE, pipe}
        /\ TerminateFlag' \in {TRUE, TerminateFlag}
        /\ UNCHANGED <<now, list, check, doomed, history>>
    BY <1>6 DEF StopFlag, StopUnblock
  <2>2. LTTypeOK'
    <3>1. pipe' \in BOOLEAN /\ TerminateFlag' \in BOOLEAN
      BY <1>2, <2>1, Zenon
    <3> QED
      BY <1>1, <2>1, <3>1 DEF LTTypeOK, list, check, history
  <2>3. QueuedHaveExpired' /\ AddingKnown' /\ TickCovers'
    BY <1>1, <2>1 DEF QueuedHaveExpired, AddingKnown, Unlocked,
       TickCovers, list, check, history
  <2> QED
    BY <2>1, <2>2, <2>3, StayStep DEF list, check, history
<1>7. CASE TimePasses
  <2>1. LTTypeOK'
    <3>1. pipe' \in BOOLEAN /\ TerminateFlag' \in BOOLEAN
      BY <1>2, <1>7, Zenon DEF TimePasses, stopping
    <3> QED
      BY <1>1, <1>7, <3>1 DEF TimePasses, LTTypeOK, list, check, stopping, history
  <2>2. now' >= now /\ now \in Nat /\ CurrentTick \in Nat /\ now' \in Nat
    BY <1>1, <1>7 DEF TimePasses, LTTypeOK
  <2>3. QueuedHaveExpired' /\ AddingKnown' /\ TickCovers'
    BY <1>1, <1>7, <2>2 DEF TimePasses, QueuedHaveExpired, AddingKnown, Unlocked,
       TickCovers, list, check, history
  <2> QED
    BY <1>7, <2>1, <2>3, StayStep DEF TimePasses, list, check, history
<1>8. CASE UNCHANGED LTvars
  <2>1. LTTypeOK'
    <3>1. pipe' \in BOOLEAN /\ TerminateFlag' \in BOOLEAN
      BY <1>2, <1>8, Zenon DEF LTvars, stopping
    <3> QED
      BY <1>1, <1>8, <3>1 DEF LTvars, LTTypeOK, list, check, stopping, history
  <2>2. QueuedHaveExpired' /\ AddingKnown' /\ TickCovers'
    BY <1>1, <1>8 DEF LTvars, QueuedHaveExpired, AddingKnown, Unlocked,
       TickCovers, list, check, history
  <2> QED
    BY <1>8, <2>1, <2>2, StayStep DEF LTvars, list, check, history
<1>9. ASSUME NEW p \in Client \cup {Chain}, LifeTimeCall(p) \/ RemoveDestroys(p)
      PROVE  LTInvariant'
  BY <1>9, AddInsertStep, RemoveStep, RemoveDestroysStep DEF LifeTimeCall
<1> QED
  BY <1>3, <1>4, <1>5, <1>6, <1>7, <1>8, <1>9, AddTestStep, AddWriteStep, CheckFastStep,
     CheckSectionStep, FireStep, ComputeStep, FreeChainStep
  DEF LTNext, ChainStep, SelectReturns, SelectSocket

\* The inductive invariant of the C monitor and its chain holds of every behaviour.
THEOREM LTInvariantCorrect == LTSafety => []LTInvariant
<1>1. LTInit => LTInvariant
  <2> SUFFICES ASSUME LTInit PROVE LTInvariant
    OBVIOUS
  <2>1. Ids({}) = {}
    BY DEF Ids
  <2>2. DOMAIN expires = {} /\ expires \in Seq(Nat)
    BY EmptySeq DEF LTInit
  <2>7. /\ adding.step = "none" /\ adding.id = 0
        /\ adding \in [step : {"none", "test", "write"}, by : Client \cup {Chain},
                        id : 0..MaxAdds]
    BY LifeTimeAssumption DEF LTInit, NotAdding
  <2>3. LTTypeOK
    <3>1. pipe \in BOOLEAN /\ TerminateFlag \in BOOLEAN
      BY Zenon DEF LTInit
    <3> QED
      BY <2>2, <2>7, <3>1 DEF LTInit, LTTypeOK
  <2>4. EntriesKnown /\ QueuedHaveExpired /\ AddingKnown /\ TickCovers
    BY <2>2, <2>7
    DEF LTInit, EntriesKnown, QueuedHaveExpired, AddingKnown, Unlocked, TickCovers, Never
  <2>5. Doomed = {}
    BY DEF LTInit, Doomed
  <2>6. EachInPlace
    BY <2>1, <2>2, <2>5 DEF LTInit, EachInPlace, Listed
  <2> QED
    BY <2>3, <2>4, <2>6 DEF LTInvariant
<1> QED
  BY <1>1, LTStep, PTL DEF LTSafety

\* Type correctness of the C monitor and its chain.
THEOREM LTTypeCorrect == LTSafety => []LTTypeOK
<1>1. LTInvariant => LTTypeOK
  BY DEF LTInvariant
<1> QED
  BY <1>1, LTInvariantCorrect, PTL

\* The chain never sleeps past an entry whose registration had ended when it last looked,
\* without the lock (ILibParsers.c:4735) or with it (4752-4765), whenever AddEx wakes it
\* and writes NextTriggerTick.
THEOREM SleepsForSeenCorrect == LTSafety => []SleepsForSeen
<1>1. LTInvariant => SleepsForSeen
  BY DEF LTInvariant, TickCovers, SleepsForSeen
<1> QED
  BY <1>1, LTInvariantCorrect, PTL

----------------------------------------------------------------------------
(* The monitor and its chain are TimedCallbacks.                           *)

Closed == at = "freed" /\ \A p \in Client : doomed[p] = {}

\* When the monitor is closed nothing is in any of the places.
LEMMA ClosedSettled == LTInvariant /\ Closed => DOMAIN expires \subseteq fired \cup destroyed
<1> SUFFICES ASSUME LTInvariant, Closed PROVE DOMAIN expires \subseteq fired \cup destroyed
  OBVIOUS
<1>1. ObjectList = {} /\ EventQueue = {} /\ doomed[Chain] = {}
  BY DEF LTInvariant, QueuedHaveExpired, Closed
<1>2. Listed = {} /\ Ids(EventQueue) = {} /\ Doomed = {}
  BY <1>1 DEF Listed, Ids, Doomed, Closed
<1> QED
  BY <1>2 DEF LTInvariant, EachInPlace

\* Every step is a step of the abstract monitor, or none.
LEMMA CallbacksStep == LTInvariant /\ [LTNext]_LTvars => [Callbacks!Next]_(Callbacks!vars)
<1> SUFFICES ASSUME LTInvariant, [LTNext]_LTvars PROVE [Callbacks!Next]_(Callbacks!vars)
  OBVIOUS
<1>1. LTTypeOK /\ EntriesKnown /\ EachInPlace /\ QueuedHaveExpired
  BY DEF LTInvariant
<1>2. Callbacks!Pending = DOMAIN expires \ (fired \cup destroyed)
  BY DEF Callbacks!Pending
<1>3. Closed' => DOMAIN expires' \subseteq fired' \cup destroyed'
  <2>1. LTInvariant'
    BY LTStep
  <2>2. (LTInvariant /\ Closed => DOMAIN expires \subseteq fired \cup destroyed)'
    BY ClosedSettled, PTL
  <2> QED
    BY <2>1, <2>2
<1>4. Callbacks!vars = <<now, expires, fired, destroyed, Closed>>
      /\ Callbacks!vars' = <<now', expires', fired', destroyed', Closed'>>
  BY DEF Callbacks!vars, Closed
<1>5. Closed \in BOOLEAN /\ Closed' \in BOOLEAN
  BY Zenon DEF Closed
<1>6. ASSUME NEW p \in Client \cup {Chain}, NEW d \in Data, NEW ms \in Delays,
             AddInsert(p, d, ms)
      PROVE  Callbacks!Next
  <2>1. /\ expires' = Append(expires, now + ms)
        /\ UNCHANGED <<now, at, doomed, fired, destroyed>>
    BY <1>6 DEF AddInsert, Registered, check
  <2>2. at # "freed"
    BY <1>6 DEF AddInsert, CanCall
  <2>3. ~Closed /\ ~Closed'
    BY <2>1, <2>2 DEF Closed
  <2>4. expires \in Seq(Nat) /\ now \in Nat /\ now + ms \in Nat /\ now + ms >= now
    BY <1>1, LifeTimeAssumption DEF LTTypeOK
  <2>5. /\ Len(expires') = Len(expires) + 1
        /\ SubSeq(expires', 1, Len(expires)) = expires
        /\ expires'[Len(expires')] = now + ms
    BY <2>1, <2>4, Appended, AppendedPrefix
  <2>6. Callbacks!Register
    BY <2>1, <2>3, <2>4, <2>5 DEF Callbacks!Register, Closed
  <2> QED
    BY <2>3, <2>6 DEF Callbacks!Next, Closed
<1>7. ASSUME NEW p \in Client \cup {Chain}, NEW d \in Data, LifeTime_Remove(p, d)
      PROVE  UNCHANGED Callbacks!vars
  <2>1. at # "freed" /\ UNCHANGED <<now, at, expires, fired, destroyed>>
    BY <1>7 DEF LifeTime_Remove, CanCall, check
  <2> QED
    BY <1>4, <2>1 DEF Closed
<1>8. ASSUME NEW p \in Client \cup {Chain}, RemoveDestroys(p)
      PROVE  Callbacks!Next
  <2>1. PICK i \in doomed[p] : destroyed' = destroyed \cup {i}
    BY <1>8 DEF RemoveDestroys
  <2>2. UNCHANGED <<now, expires, fired>>
    BY <1>8 DEF RemoveDestroys
  <2>3. ~Closed
    BY <1>1, <2>1 DEF Closed, QueuedHaveExpired
  <2>4. {i} \in SUBSET Callbacks!Pending
    BY <1>1, <1>2, <2>1 DEF EachInPlace, Doomed
  <2>5. Closed' => Callbacks!Pending \subseteq destroyed'
    BY <1>2, <1>3, <2>2
  <2>6. Callbacks!Destroy
    BY <1>5, <2>1, <2>2, <2>4, <2>5 DEF Callbacks!Destroy, Closed
  <2> QED
    BY <2>3, <2>6 DEF Callbacks!Next, Closed
<1>9. ASSUME Fire
      PROVE  [Callbacks!Next]_(Callbacks!vars)
  <2>1. at = "fire" /\ at' \in {"compute", "callback"} /\ UNCHANGED <<now, expires, destroyed>>
    BY <1>9 DEF Fire
  <2>2. ~Closed /\ ~Closed'
    BY <2>1 DEF Closed
  <2>3. CASE UNCHANGED fired
    <3>1. Closed' = Closed
      BY <1>5, <2>2, Zenon
    <3> QED
      BY <1>4, <2>1, <2>3, <3>1
  <2>4. ASSUME NEW e \in EventQueue, fired' = fired \cup {e.id}
        PROVE  Callbacks!Next
    <3>1. e.id \in Callbacks!Pending
      BY <1>1, <1>2 DEF EachInPlace, Ids
    <3>2. expires[e.id] <= now
      <4>1. e.exp \in Nat /\ CurrentTick \in Nat /\ now \in Nat
        BY <1>1 DEF LTTypeOK, Entry
      <4> QED
        BY <1>1, <4>1 DEF EntriesKnown, QueuedHaveExpired
    <3>3. Callbacks!Fire
      BY <2>1, <2>2, <2>4, <3>1, <3>2 DEF Callbacks!Fire, Closed
    <3> QED
      BY <2>2, <3>3 DEF Callbacks!Next, Closed
  <2> QED
    BY <1>9, <2>3, <2>4 DEF Fire
<1>10. ASSUME FreeChain
       PROVE  Callbacks!Next
  <2>1. at = "loop" /\ destroyed' = destroyed \cup Listed /\ UNCHANGED <<now, expires, fired>>
    BY <1>10 DEF FreeChain, Goes
  <2>2. ~Closed
    BY <2>1 DEF Closed
  <2>3. Listed \in SUBSET Callbacks!Pending
    BY <1>1, <1>2 DEF EachInPlace
  <2>4. Closed' => Callbacks!Pending \subseteq destroyed'
    BY <1>2, <1>3, <2>1
  <2>5. Callbacks!Destroy
    BY <1>5, <2>1, <2>3, <2>4 DEF Callbacks!Destroy, Closed
  <2> QED
    BY <2>2, <2>5 DEF Callbacks!Next, Closed
<1>11. ASSUME TimePasses
       PROVE  Callbacks!Next
  <2>1. at # "freed" /\ now' = now + 1 /\ UNCHANGED <<at, expires, fired, destroyed>>
    BY <1>11 DEF TimePasses, check, history
  <2>2. ~Closed /\ ~Closed'
    BY <2>1 DEF Closed
  <2>3. Callbacks!Tick
    BY <2>1, <2>2 DEF Callbacks!Tick, Closed
  <2> QED
    BY <2>2, <2>3 DEF Callbacks!Next, Closed
<1>12. ASSUME \/ CheckFast \/ CheckReset \/ CheckSection \/ CallbackReturns \/ Compute
              \/ Select \/ Woken \/ Drain
       PROVE  UNCHANGED Callbacks!vars
  <2>1. at # "freed" /\ at' # "freed" /\ UNCHANGED <<now, expires, fired, destroyed>>
    BY <1>12 DEF CheckFast, CheckReset, CheckSection, CallbackReturns, Compute, Select, Woken,
                 Drain, Goes, history
  <2> QED
    BY <1>4, <2>1 DEF Closed
<1>13. ASSUME AddTest \/ AddWrite \/ StopFlag \/ StopUnblock \/ UNCHANGED LTvars
       PROVE  UNCHANGED Callbacks!vars
  <2>1. UNCHANGED <<now, at, doomed, expires, fired, destroyed>>
    BY <1>13 DEF AddTest, AddWrite, StopFlag, StopUnblock, LTvars, check, history
  <2> QED
    BY <1>4, <2>1 DEF Closed
<1> QED
  BY <1>6, <1>7, <1>8, <1>9, <1>10, <1>11, <1>12, <1>13
  DEF LTNext, ChainStep, SelectReturns, SelectSocket, LifeTimeCall

\* The C monitor and its chain implement TimedCallbacks.
THEOREM TimedCallbacksImplemented == LTSafety => ImplementsTimedCallbacks
<1>1. LTInit => Callbacks!Init
  <2> SUFFICES ASSUME LTInit PROVE Callbacks!Init
    OBVIOUS
  <2>1. ~Closed
    BY DEF LTInit, Closed
  <2> QED
    BY <2>1 DEF LTInit, Callbacks!Init, Closed
<1> QED
  BY <1>1, CallbacksStep, LTInvariantCorrect, PTL
  DEF LTSafety, ImplementsTimedCallbacks, Callbacks!Spec
=============================================================================
