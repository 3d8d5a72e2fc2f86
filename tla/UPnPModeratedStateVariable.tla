--------------------- MODULE UPnPModeratedStateVariable ---------------------
(***************************************************************************)
(* Global/UPnP/UPnPModeratedStateVariable.cs: a state variable that, while *)
(* a moderation period runs, merges the values it is set to and publishes  *)
(* the result when the period ends.                                        *)
(*                                                                         *)
(* Application threads set the value; the end of a period comes from the   *)
(* variable's LifeTimeMonitor, on any thread, as the two steps of          *)
(* LifeTimeClock.  Both hold lock(this), also while base.Value publishes   *)
(* and calls the application's OnModified handler: there the thread can    *)
(* set the value again, inside the lock it already holds.                  *)
(*                                                                         *)
(* A value is the set of updates it stands for: an accumulator merges by   *)
(* uniting, and the default one shows the latest member only.              *)
(***************************************************************************)
EXTENDS Naturals

CONSTANTS
  Writer,         (* threads that set the value                                *)
  MaxCalls,       (* bound: calls of the setters                               *)
  Sink,           (* the thread in LifeTimeSink                                *)
  None

ASSUME ModerationAssumption ==
  /\ Sink \notin Writer /\ None \notin Writer /\ Sink # None
  /\ MaxCalls \in Nat

VARIABLES
  Seconds,        (* 0: no moderation; 1: there is a period                    *)
  PendingObject,  (* the updates merged so far                                 *)
  PendingEvents,  (* 0 outside a period, else 1 + the updates merged in it     *)
  CurrentValue,   (* base.Value                                                *)
  clock,          (* the variable is on its LifeTimeMonitor                    *)
  expired,        (* expiries taken off it whose sink has not run yet          *)
  holder,         (* who is in base.Value, that is in OnModified, with the lock *)
  pc,             (* per thread: which branch of the setter it has taken       *)
  updates,        (* history: updates that were accepted, numbered from 1      *)
  published,      (* history: updates that were published                      *)
  nested,         (* history: updates made by OnModified handlers              *)
  failed,         (* history: a moderated base.Value ended in an exception     *)
  events,         (* history: events of moderated values                       *)
  periods,        (* history: periods begun                                    *)
  calls           (* bound: calls so far                                       *)

variable == <<Seconds, PendingObject, PendingEvents, CurrentValue>>
history == <<updates, published, nested, failed, events, periods>>
vars == <<variable, clock, expired, holder, pc, history, calls>>

TypeOK ==
  /\ Seconds \in {0, 1} /\ PendingEvents \in Nat
  /\ PendingObject \subseteq Nat /\ CurrentValue \subseteq Nat
  /\ clock \in BOOLEAN /\ expired \in Nat
  /\ holder \in Writer \cup {Sink, None}
  /\ pc \in [Writer -> {"idle", "direct", "moderated"}]
  /\ updates \in Nat /\ published \subseteq Nat /\ nested \subseteq Nat
  /\ failed \in BOOLEAN
  /\ events \in Nat /\ periods \in Nat
  /\ calls \in 0..MaxCalls

Init ==
  /\ Seconds \in {0, 1}
  /\ PendingObject = {} /\ PendingEvents = 0 /\ CurrentValue = {}
  /\ clock = FALSE /\ expired = 0
  /\ holder = None
  /\ pc = [w \in Writer |-> "idle"]
  /\ updates = 0 /\ published = {} /\ nested = {} /\ failed = FALSE
  /\ events = 0 /\ periods = 0
  /\ calls = 0

----------------------------------------------------------------------------
Call == calls < MaxCalls /\ calls' = calls + 1

\* base.Value = S: the event is sent from here.
Publish(S) ==
  /\ CurrentValue' = S
  /\ published' = published \cup S

\* ModerationPeriod is set, by any thread outside the lock, or by an OnModified handler.
SetModerationPeriod(s) ==
  /\ Call
  /\ Seconds' = s
  /\ UNCHANGED <<PendingObject, PendingEvents, CurrentValue, clock, expired, holder, pc,
                 history>>

\* The setter of Value looks at the period before it takes the lock.
SetValue(w) ==
  /\ Call
  /\ pc[w] = "idle"
  /\ pc' = [pc EXCEPT ![w] = IF Seconds = 0 THEN "direct" ELSE "moderated"]
  /\ UNCHANGED <<variable, clock, expired, holder, history>>

\* No moderation: the value is published, or refused, without the lock.
SetValueDirect(w) ==
  /\ pc[w] = "direct"
  /\ pc' = [pc EXCEPT ![w] = "idle"]
  /\ \/ updates' = updates + 1 /\ Publish({updates + 1})
     \/ UNCHANGED <<updates, CurrentValue, published>>
  /\ UNCHANGED <<Seconds, PendingObject, PendingEvents, clock, expired, holder, nested,
                 failed, events, periods, calls>>

\* The first value of a period is published at once.  If it is refused (it is not an
\* allowed value, or out of range) the caller gets the exception, and PendingEvents
\* stays raised.
SetValueFirst(w) ==
  /\ pc[w] = "moderated" /\ holder = None
  /\ PendingEvents = 0
  /\ PendingEvents' = 1
  /\ \/ /\ updates' = updates + 1
        /\ Publish({updates + 1})
        /\ events' = events + 1
        /\ holder' = w
        /\ UNCHANGED <<pc, failed>>
     \/ /\ failed' = TRUE
        /\ pc' = [pc EXCEPT ![w] = "idle"]
        /\ UNCHANGED <<updates, CurrentValue, published, events, holder>>
  /\ UNCHANGED <<Seconds, PendingObject, clock, expired, nested, periods, calls>>

\* The rest of that branch, once the OnModified handler has returned.
SetValueFirstEnd(w) ==
  /\ holder = w
  /\ holder' = None
  /\ pc' = [pc EXCEPT ![w] = "idle"]
  /\ PendingObject' = {}
  /\ clock' = TRUE
  /\ periods' = periods + 1
  /\ UNCHANGED <<Seconds, PendingEvents, CurrentValue, expired, updates, published,
                 nested, failed, events, calls>>

\* Mutated form of SetValueMerge: the timer is set for every value.
SetValueMergeRearms(w) ==
  /\ pc[w] = "moderated" /\ holder = None
  /\ PendingEvents > 0
  /\ PendingEvents' = PendingEvents + 1
  /\ PendingObject' = PendingObject \cup {updates + 1}
  /\ updates' = updates + 1
  /\ clock' = TRUE
  /\ pc' = [pc EXCEPT ![w] = "idle"]
  /\ UNCHANGED <<Seconds, CurrentValue, expired, holder, published, nested, failed,
                 events, periods, calls>>

\* Mutated form of SetValueMerge: the merged value is published as well.
SetValueMergePublishes(w) ==
  /\ pc[w] = "moderated" /\ holder = None
  /\ PendingEvents > 0
  /\ PendingEvents' = PendingEvents + 1
  /\ PendingObject' = PendingObject \cup {updates + 1}
  /\ updates' = updates + 1
  /\ Publish(PendingObject')
  /\ events' = events + 1
  /\ pc' = [pc EXCEPT ![w] = "idle"]
  /\ UNCHANGED <<Seconds, clock, expired, holder, nested, failed, periods, calls>>

\* Any other value of the period is merged; whether it is allowed shows at the end.
SetValueMerge(w) ==
  /\ pc[w] = "moderated" /\ holder = None
  /\ PendingEvents > 0
  /\ PendingEvents' = PendingEvents + 1
  /\ PendingObject' = PendingObject \cup {updates + 1}
  /\ updates' = updates + 1
  /\ pc' = [pc EXCEPT ![w] = "idle"]
  /\ UNCHANGED <<Seconds, CurrentValue, clock, expired, holder, published, nested,
                 failed, events, periods, calls>>

\* The OnModified handler of the thread that holds the lock sets the value.
HandlerSetValue ==
  /\ Call
  /\ holder # None
  /\ updates' = updates + 1
  /\ nested' = nested \cup {updates + 1}
  /\ IF Seconds = 0
       THEN Publish({updates + 1}) /\ UNCHANGED <<PendingEvents, PendingObject>>
       ELSE /\ PendingEvents' = PendingEvents + 1
            /\ PendingObject' = PendingObject \cup {updates + 1}
            /\ UNCHANGED <<CurrentValue, published>>
  /\ UNCHANGED <<Seconds, clock, expired, holder, pc, failed, events, periods>>

\* The handler throws instead of returning: the lock is left, and nothing else is done.
HandlerThrows ==
  /\ holder # None
  /\ holder' = None
  /\ failed' = TRUE
  /\ pc' = [w \in Writer |-> IF w = holder THEN "idle" ELSE pc[w]]
  /\ UNCHANGED <<variable, clock, expired, updates, published, nested, events, periods,
                 calls>>

----------------------------------------------------------------------------
\* LifeTimeMonitor takes the variable off its list.
Expire ==
  /\ clock
  /\ clock' = FALSE
  /\ expired' = expired + 1
  /\ UNCHANGED <<variable, holder, pc, history, calls>>

\* Mutated form of LifeTimeSink: the test is PendingEvents > 2.
LifeTimeSinkOffByOne ==
  /\ expired > 0 /\ holder = None
  /\ expired' = expired - 1
  /\ IF PendingEvents > 2
       THEN /\ Publish(PendingObject)
            /\ events' = events + 1
            /\ holder' = Sink
            /\ UNCHANGED <<PendingObject, PendingEvents>>
       ELSE /\ PendingObject' = {} /\ PendingEvents' = 0
            /\ UNCHANGED <<CurrentValue, published, events, holder>>
  /\ UNCHANGED <<Seconds, clock, pc, updates, nested, failed, periods, calls>>

\* Mutated form of LifeTimeSink: a period in which nothing was merged does not end.
LifeTimeSinkIdles ==
  /\ expired > 0 /\ holder = None
  /\ expired' = expired - 1
  /\ IF PendingEvents > 1
       THEN /\ Publish(PendingObject)
            /\ events' = events + 1
            /\ holder' = Sink
       ELSE UNCHANGED <<CurrentValue, published, events, holder>>
  /\ UNCHANGED <<Seconds, PendingObject, PendingEvents, clock, pc, updates, nested,
                 failed, periods, calls>>

\* LifeTimeSink: what was merged is published.  If the merged value is refused the
\* exception ends the sink (WeakEvent.Fire logs it), and nothing is reset.
LifeTimeSink ==
  /\ expired > 0 /\ holder = None
  /\ expired' = expired - 1
  /\ IF PendingEvents > 1
       THEN /\ \/ /\ Publish(PendingObject)
                  /\ events' = events + 1
                  /\ holder' = Sink
                  /\ UNCHANGED failed
               \/ /\ failed' = TRUE
                  /\ UNCHANGED <<CurrentValue, published, events, holder>>
            /\ UNCHANGED <<PendingObject, PendingEvents>>
       ELSE /\ PendingObject' = {} /\ PendingEvents' = 0
            /\ UNCHANGED <<CurrentValue, published, failed, events, holder>>
  /\ UNCHANGED <<Seconds, clock, pc, updates, nested, periods, calls>>

\* The rest of the sink, once the OnModified handler has returned.
LifeTimeSinkEnd ==
  /\ holder = Sink
  /\ holder' = None
  /\ PendingObject' = {} /\ PendingEvents' = 0
  /\ UNCHANGED <<Seconds, CurrentValue, clock, expired, pc, history, calls>>

----------------------------------------------------------------------------
Setter(w) == SetValueDirect(w) \/ SetValueFirst(w) \/ SetValueFirstEnd(w) \/ SetValueMerge(w)

PeriodEnd == LifeTimeSink \/ LifeTimeSinkEnd

Next ==
  \/ \E s \in {0, 1} : SetModerationPeriod(s)
  \/ \E w \in Writer : SetValue(w) \/ Setter(w)
  \/ HandlerSetValue \/ HandlerThrows
  \/ Expire
  \/ PeriodEnd

\* Threads inside the setter get on, an armed timer expires and its sink runs, as
\* LifeTimeMonitor promises.  Nobody has to set a value.
Fairness ==
  /\ \A w \in Writer : WF_vars(Setter(w))
  /\ WF_vars(Expire)
  /\ WF_vars(PeriodEnd)

Safety == Init /\ [][Next]_vars

Spec == Safety /\ Fairness

----------------------------------------------------------------------------
Timers == expired + IF clock THEN 1 ELSE 0

\* A period has exactly one timer, set or about to be handled, and without a period
\* there is none: periods do not overlap, and every one has its end in sight - as
\* long as no moderated value was refused and no handler threw.
OnePeriod ==
  Timers = IF PendingEvents = 0 \/ holder # None \/ failed THEN 0 ELSE 1

\* Whatever the order of setters, sinks and changes of the period, an update that the
\* setter accepted has been published or waits in PendingObject, and nothing waits
\* there that was published before, so that an accumulator counts each update once.
\* Only what an OnModified handler sets may be lost.
NothingLost ==
  /\ (1..updates) \ nested \subseteq published \cup PendingObject
  /\ published \cup PendingObject \subseteq 1..updates
  /\ holder = None /\ ~failed => published \cap PendingObject = {}

\* At most two events are sent for a moderation period, one at its beginning and one
\* at its end; a period is counted when the first value has been sent.
BoundedRate ==
  events <= 2 * periods + (IF holder \in Writer \/ failed THEN 1 ELSE 0)

\* The accumulator is reset "at the end of the moderation period": a period that has
\* begun ends, and the next value is published at once again.
PeriodEnds == (PendingEvents > 0) ~> (PendingEvents = 0)

\* So it does if no moderated value was refused and no handler threw.
PeriodEndsIfAllowed == (PendingEvents > 0) ~> (PendingEvents = 0 \/ failed)
=============================================================================
