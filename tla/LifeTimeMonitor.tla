-------------------------- MODULE LifeTimeMonitor --------------------------
(***************************************************************************)
(* Global/UPnP/LifeTimeMonitor.cs and the SafeTimer (SafeTimer.cs) it runs *)
(* on: one timer serves any number of keys.                                *)
(*                                                                         *)
(* Application threads call Add, Remove and Clear; timed-out waits run     *)
(* HandleTimer on pool threads, several at a time when a wait that was     *)
(* stopped had already been queued.  LifeTimeMonitor's list is guarded by  *)
(* MonitorLock and SafeTimer's flags by RegLock, but the timer's Interval  *)
(* is written by the first under MonitorLock and by the second under       *)
(* RegLock.                                                                *)
(*                                                                         *)
(* Times are what remains of them, in ticks; a due entry or wait has 0.    *)
(* RegLock sections are one action each.  A MonitorLock section is one     *)
(* action up to its call of Start, which is another (pc = "start").        *)
(***************************************************************************)
EXTENDS Naturals, FiniteSets

CONSTANTS
  Key,          (* the objects times are set for                              *)
  Thread,       (* threads that call the monitor                              *)
  Worker,       (* pool threads that run HandleTimer                          *)
  MaxDelay,     (* the longest time that is set                               *)
  MaxCalls,     (* bound: number of calls                                     *)
  Prompt,       (* TRUE: code takes no time; FALSE: any thread can be delayed *)
  Null

ASSUME LifeTimeMonitorAssumption ==
  /\ Thread \cap Worker = {} /\ IsFiniteSet(Thread) /\ IsFiniteSet(Worker)
  /\ MaxDelay \in Nat /\ MaxCalls \in Nat
  /\ Null \notin Nat
  /\ Prompt \in BOOLEAN

VARIABLES
  MonitorList,  (* the time that remains to each key, Null if none is set     *)
  Interval,     (* SafeTimer.Interval                                         *)
  timeout,      (* SafeTimer.timeout                                          *)
  WaitFlag,     (* a HandleTimer is at work                                   *)
  StartFlag,    (* Start was called meanwhile                                 *)
  handle,       (* what remains of the registered wait, Null if there is none *)
  queued,       (* timed-out waits that the pool has still to run             *)
  pc,           (* where each thread is                                       *)
  eventList,    (* the keys each thread has taken off the list and has to fire *)
  calls,        (* calls so far; bounded                                      *)
  lastCall      (* history: what the last call did, to which keys             *)

timer == <<Interval, timeout, WaitFlag, StartFlag, handle, queued>>
users == <<calls, lastCall>>
vars == <<MonitorList, timer, pc, eventList, users>>

Proc == Thread \cup Worker

TypeOK ==
  /\ MonitorList \in [Key -> 0..MaxDelay \cup {Null}]
  /\ Interval \in 0..MaxDelay /\ timeout \in 0..MaxDelay
  /\ WaitFlag \in BOOLEAN /\ StartFlag \in BOOLEAN
  /\ handle \in 0..MaxDelay \cup {Null}
  /\ queued \in Nat
  /\ pc \in [Proc -> {"idle", "pop", "fire", "rearm", "start", "end"}]
  /\ \A t \in Thread : pc[t] # "end"
  /\ eventList \in [Proc -> SUBSET Key]
  /\ calls \in 0..MaxCalls
  /\ lastCall \in [op : {"none", "put", "off"}, keys : SUBSET Key]

Init ==
  /\ MonitorList = [k \in Key |-> Null]
  /\ Interval = 0 /\ timeout = 0 /\ WaitFlag = FALSE /\ StartFlag = FALSE
  /\ handle = Null /\ queued = 0
  /\ pc = [p \in Proc |-> "idle"]
  /\ eventList = [p \in Proc |-> {}]
  /\ calls = 0 /\ lastCall = [op |-> "none", keys |-> {}]

----------------------------------------------------------------------------
Goto(p, label) == pc' = [pc EXCEPT ![p] = label]

Pending == {k \in Key : MonitorList[k] # Null}

\* Only the steps up to a Start hold MonitorLock from one action to the next.
MonitorLockFree == \A p \in Proc : pc[p] # "start"

\* A thread that leaves OnTimedEvent goes back to its caller: the user of the
\* monitor, or HandleTimer.
Return(p) == IF p \in Worker THEN "end" ELSE "idle"

\* The interval becomes the time of the first of the keys K.
IntervalForFirst(K) ==
  \E k \in K : /\ \A j \in K : MonitorList[k] <= MonitorList[j]
               /\ Interval' = MonitorList[k]

\* A call that is to put the keys K on the clock or take them off it.
Call(t, op, K) ==
  /\ pc[t] = "idle" /\ MonitorLockFree
  /\ calls < MaxCalls /\ calls' = calls + 1
  /\ lastCall' = [op |-> op, keys |-> K]

\* Add stops the timer and replaces the key's time; OnTimedEvent follows.  A time
\* of 0 stands for the 10 ms that are used for no time or a negative one.
Add(t, k, d) ==
  /\ Call(t, "put", {k})
  /\ handle' = Null
  /\ MonitorList' = [MonitorList EXCEPT ![k] = d]
  /\ Goto(t, "pop")
  /\ UNCHANGED <<Interval, timeout, WaitFlag, StartFlag, queued, eventList>>

\* Mutated form of Remove: the timer is not started for the keys that remain.
RemoveStops(t, k) ==
  /\ Call(t, "off", {k})
  /\ k \in Pending
  /\ handle' = Null
  /\ MonitorList' = [MonitorList EXCEPT ![k] = Null]
  /\ UNCHANGED <<Interval, pc, timeout, WaitFlag, StartFlag, queued, eventList>>

\* Remove of a key that has a time; of any other it does nothing.
Remove(t, k) ==
  /\ Call(t, "off", {k})
  /\ k \in Pending
  /\ handle' = Null
  /\ MonitorList' = [MonitorList EXCEPT ![k] = Null]
  /\ IF Pending # {k}
       THEN IntervalForFirst(Pending \ {k}) /\ Goto(t, "start")
       ELSE UNCHANGED <<Interval, pc>>
  /\ UNCHANGED <<timeout, WaitFlag, StartFlag, queued, eventList>>

Clear(t) ==
  /\ Call(t, "off", Key)
  /\ handle' = Null
  /\ MonitorList' = [k \in Key |-> Null]
  /\ UNCHANGED <<Interval, timeout, WaitFlag, StartFlag, queued, pc, eventList>>

----------------------------------------------------------------------------
\* Mutated form of OnTimedEventPop: the keys that are due leave the list and are not
\* fired.
OnTimedEventPopDrops(p) ==
  /\ pc[p] = "pop" /\ MonitorLockFree
  /\ MonitorList' = [k \in Key |-> IF MonitorList[k] = 0 THEN Null ELSE MonitorList[k]]
  /\ Goto(p, "fire")
  /\ UNCHANGED <<timer, eventList, users>>

\* OnTimedEvent, first lock: the keys that are due leave the list.
OnTimedEventPop(p) ==
  /\ pc[p] = "pop" /\ MonitorLockFree
  /\ eventList' = [eventList EXCEPT ![p] = {k \in Pending : MonitorList[k] = 0}]
  /\ MonitorList' = [k \in Key |-> IF MonitorList[k] = 0 THEN Null ELSE MonitorList[k]]
  /\ Goto(p, "fire")
  /\ UNCHANGED <<timer, users>>

\* Its loop over them, outside the lock (WeakEvent.Fire lets no exception through).
\* Keys that were due together fire in any order here.
OnTimedEventFire(p) ==
  /\ pc[p] = "fire"
  /\ IF eventList[p] = {}
       THEN Goto(p, "rearm") /\ UNCHANGED eventList
       ELSE /\ \E k \in eventList[p] : eventList' = [eventList EXCEPT ![p] = @ \ {k}]
            /\ UNCHANGED pc
  /\ UNCHANGED <<MonitorList, timer, users>>

\* Its second lock: the timer is set for the first of the keys that remain.
OnTimedEventRearm(p) ==
  /\ pc[p] = "rearm" /\ MonitorLockFree
  /\ IF Pending = {}
       THEN Goto(p, Return(p)) /\ UNCHANGED Interval
       ELSE IntervalForFirst(Pending) /\ Goto(p, "start")
  /\ UNCHANGED <<MonitorList, timeout, WaitFlag, StartFlag, handle, queued, eventList, users>>

\* SafeTimer.Start: registers a wait, or leaves that to the HandleTimer at work.
Start(p) ==
  /\ pc[p] = "start"
  /\ IF WaitFlag
       THEN /\ StartFlag' = TRUE
            /\ timeout' = IF Interval < timeout THEN Interval ELSE timeout
            /\ UNCHANGED handle
       ELSE /\ handle' = Interval
            /\ UNCHANGED <<StartFlag, timeout>>
  /\ Goto(p, Return(p))
  /\ UNCHANGED <<MonitorList, Interval, WaitFlag, queued, eventList, users>>

----------------------------------------------------------------------------
\* The wait times out: its callback is queued, and no Stop will take it back.
TimeOut ==
  /\ handle = 0
  /\ handle' = Null
  /\ queued' = queued + 1
  /\ UNCHANGED <<MonitorList, Interval, timeout, WaitFlag, StartFlag, pc, eventList, users>>

\* HandleTimer up to the event that OnTimedEvent handles.
HandleTimerBegin(w) ==
  /\ pc[w] = "idle" /\ queued > 0
  /\ queued' = queued - 1
  /\ handle' = Null
  /\ WaitFlag' = TRUE /\ StartFlag' = FALSE /\ timeout' = Interval
  /\ Goto(w, "pop")
  /\ UNCHANGED <<MonitorList, Interval, eventList, users>>

\* Mutated form of HandleTimerEnd: a Start that came meanwhile is forgotten.
HandleTimerEndForgets(w) ==
  /\ pc[w] = "end"
  /\ WaitFlag' = FALSE /\ StartFlag' = FALSE
  /\ Goto(w, "idle")
  /\ UNCHANGED <<Interval, handle, MonitorList, timeout, queued, eventList, users>>

\* The rest of it (AutoReset is FALSE).
HandleTimerEnd(w) ==
  /\ pc[w] = "end"
  /\ IF WaitFlag /\ StartFlag THEN Interval' = timeout /\ handle' = timeout
                              ELSE UNCHANGED <<Interval, handle>>
  /\ WaitFlag' = FALSE /\ StartFlag' = FALSE
  /\ Goto(w, "idle")
  /\ UNCHANGED <<MonitorList, timeout, queued, eventList, users>>

\* Nothing runs and nothing is about to.
Quiet == (\A p \in Proc : pc[p] = "idle") /\ queued = 0 /\ handle # 0

Less(time) == IF time \in {0, Null} THEN time ELSE time - 1

\* Time passes.
Tick ==
  /\ Prompt => Quiet
  /\ MonitorList' = [k \in Key |-> Less(MonitorList[k])]
  /\ handle' = Less(handle)
  /\ UNCHANGED <<Interval, timeout, WaitFlag, StartFlag, queued, pc, eventList, users>>

----------------------------------------------------------------------------
User(t) ==
  \/ \E k \in Key, d \in 0..MaxDelay : Add(t, k, d)
  \/ \E k \in Key : Remove(t, k)
  \/ Clear(t)

OnTimedEvent(p) == OnTimedEventPop(p) \/ OnTimedEventFire(p) \/ OnTimedEventRearm(p)

HandleTimer(w) == HandleTimerBegin(w) \/ HandleTimerEnd(w)

Next ==
  \/ \E t \in Thread : User(t)
  \/ \E p \in Proc : OnTimedEvent(p) \/ Start(p)
  \/ TimeOut
  \/ \E w \in Worker : HandleTimer(w)
  \/ Tick

\* Time goes on, the pool runs what is queued, and a thread that is inside the
\* monitor or one of its callbacks gets to the end of it.  No call is ever owed.
Fairness ==
  /\ WF_vars(Tick) /\ WF_vars(TimeOut)
  /\ \A p \in Proc : WF_vars(OnTimedEvent(p) \/ Start(p))
  /\ \A w \in Worker : WF_vars(HandleTimer(w))

Safety == Init /\ [][Next]_vars

Spec == Safety /\ Fairness

----------------------------------------------------------------------------
Awake == {p \in Proc : pc[p] \in {"pop", "fire", "rearm", "start"}}

\* No wakeup is lost: while a key has a time, a wait is registered or timed out, or
\* some thread is on its way to register one - also when the Start of one thread
\* meets the HandleTimer of another, or when two run at a time.
NoLostWakeup ==
  Pending # {} =>
    \/ handle # Null \/ queued > 0 \/ Awake # {}
    \/ WaitFlag /\ StartFlag /\ \E w \in Worker : pc[w] = "end"

\* WaitFlag is only left set while there is a HandleTimer that will look at it.
WaitFlagOwned == WaitFlag => \E w \in Worker : pc[w] # "idle"

\* A thread owes callbacks in the loop of OnTimedEvent only.
OwedInLoop == \A p \in Proc : pc[p] # "fire" => eventList[p] = {}

\* The inductive invariant.
IInv == TypeOK /\ NoLostWakeup /\ WaitFlagOwned /\ OwedInLoop

Clock == INSTANCE LifeTimeClock WITH
  call <- [n |-> calls, op |-> lastCall.op, keys |-> lastCall.keys],
  clock <- Pending,
  expired <- [k \in Key |-> Cardinality({p \in Proc : k \in eventList[p]})]

\* The monitor is the clock its users rely on: a key is on the clock from the call that
\* put it there until a call for it or an expiry, and each expiry is followed by one
\* callback, also when several threads are in OnTimedEvent at a time.
ImplementsLifeTimeClock == Clock!Init /\ [][Clock!Next]_(Clock!vars)

\* A key that is left on the clock expires, and its callback runs.
LeftKeysExpire == Clock!Fairness

\* "There can only be one pending event per object."
OnePendingEvent ==
  \A k \in Key :
    /\ Cardinality({p \in Proc : k \in eventList[p]}) <= 1
    /\ k \in Pending => \A p \in Proc : k \notin eventList[p]

\* "The class will call back at the right moment": when code takes no time, time
\* does not pass over a key that is due.
NeverLate == Quiet => \A k \in Pending : MonitorList[k] > 0
=============================================================================
