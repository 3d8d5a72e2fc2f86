---------------------------- MODULE ILibLifeTime ----------------------------
(***************************************************************************)
(* The lifetime monitor of the C microstack and the loop of the chain that *)
(* drives it (ILibParsers.c).  Any thread adds and removes timed           *)
(* callbacks; they are called on the chain's own thread, which sleeps in   *)
(* select until the next one is due or until a byte in its pipe wakes it.  *)
(*                                                                         *)
(* A section under the lock of ObjectList is one action, but for AddEx,    *)
(* which wakes the chain before it has written NextTriggerTick.  The       *)
(* accesses of the chain to NextTriggerTick outside of the lock, the       *)
(* callbacks, the select and the emptying of the pipe are actions of their *)
(* own.  (A test of NextTriggerTick and the use of it are one access: only *)
(* a lower value is written between them, for a shorter wait.)  Time is    *)
(* counted in steps of the shortest wait (1000 ms).  Behaviours are        *)
(* followed until the chain is freed.                                      *)
(***************************************************************************)
EXTENDS Integers, Sequences

CONSTANTS
  Client,      \* the other threads that use the monitor
  Chain,       \* the thread of the chain: its callbacks use it too
  Data,        \* the objects callbacks are registered for
  Delays,      \* the times they are registered with
  MaxWait,     \* UPNP_MAX_WAIT, beyond the horizon
  MaxAdds,     \* bound: the callbacks registered
  MaxTime      \* bound: the horizon

ASSUME LifeTimeAssumption ==
  /\ Chain \notin Client
  /\ Delays \subseteq Nat /\ MaxAdds \in Nat /\ MaxTime \in Nat
  /\ MaxWait \in Nat /\ MaxWait > MaxTime + 1

VARIABLES
  now,              \* ILibGetUptime
  ObjectList,       \* the entries, soonest first
  Reserved,         \* pointers flagged for removal
  NextTriggerTick,
  adding,           \* the AddEx that holds the lock of ObjectList: step, thread and entry
  at,               \* where the chain's thread is
  CurrentTick, EventQueue, blocktime, \* its locals
  slept,            \* when it called select
  pipe,             \* whether there are bytes in the pipe
  TerminateFlag,
  stopper,          \* how far a call of ILibStopChain is
  doomed,           \* by thread: the entries its Remove has still to destroy
  expires,          \* the times of the entries made so far
  fired, destroyed, \* what became of them
  seen,             \* the entries in the list when the chain last looked at it
  cancelled         \* the entries that a Remove was called for while pending

list == <<ObjectList, Reserved, NextTriggerTick, adding>>
check == <<at, CurrentTick, EventQueue, blocktime, slept>>
stopping == <<TerminateFlag, stopper>>
history == <<expires, fired, destroyed, seen, cancelled>>
LTvars == <<now, list, check, pipe, stopping, doomed, history>>

Entry == [id : 1..MaxAdds, data : Data, exp : Nat]
Never == -1

LTTypeOK ==
  /\ now \in Nat
  /\ ObjectList \in SUBSET Entry /\ EventQueue \in SUBSET Entry
  /\ Reserved \in SUBSET Data
  /\ NextTriggerTick \in Nat \cup {Never}
  /\ adding \in [step : {"none", "test", "write"}, by : Client \cup {Chain}, id : 0..MaxAdds]
  /\ at \in {"loop", "reset", "section", "fire", "callback", "compute", "wait", "select",
             "drain", "freed"}
  /\ CurrentTick \in Nat /\ blocktime \in Nat /\ slept \in Nat
  /\ pipe \in BOOLEAN /\ TerminateFlag \in BOOLEAN
  /\ stopper \in {"none", "flagged", "done"}
  /\ doomed \in [Client \cup {Chain} -> SUBSET (1..MaxAdds)]
  /\ expires \in Seq(Nat)
  /\ fired \in SUBSET (1..MaxAdds) /\ destroyed \in SUBSET (1..MaxAdds)
  /\ seen \in SUBSET (1..MaxAdds) /\ cancelled \in SUBSET (1..MaxAdds)

NotAdding == [step |-> "none", by |-> Chain, id |-> 0]
Unlocked == adding.step = "none"

\* ILibCreateLifeTime, and ILibStartChain up to its loop.
LTInit ==
  /\ now = 1
  /\ ObjectList = {} /\ Reserved = {} /\ NextTriggerTick = 0 /\ adding = NotAdding
  /\ at = "loop" /\ CurrentTick = 0 /\ EventQueue = {} /\ blocktime = 0 /\ slept = 0
  /\ pipe = FALSE /\ TerminateFlag = FALSE /\ stopper = "none"
  /\ doomed = [p \in Client \cup {Chain} |-> {}]
  /\ expires = <<>> /\ fired = {} /\ destroyed = {} /\ seen = {} /\ cancelled = {}

Ids(q) == {e.id : e \in q}
Listed == Ids(ObjectList)

----------------------------------------------------------------------------
\* A client calls when it has no call under way, the chain's thread from a callback.
CanCall(p) ==
  /\ doomed[p] = {}
  /\ IF p = Chain THEN at = "callback" ELSE at # "freed"

\* An entry is inserted before the first that is not sooner: of two with the same time
\* the later one comes first.
Before(e, f) == e.exp < f.exp \/ (e.exp = f.exp /\ e.id > f.id)

InsertEntry(e) == ObjectList' = ObjectList \cup {e}

Registered(p, e) ==
  /\ adding' = [step |-> "test", by |-> p, id |-> e.id]
  /\ expires' = Append(expires, e.exp)
  /\ UNCHANGED <<now, Reserved, NextTriggerTick, check, stopping, doomed, fired, destroyed,
                 seen, cancelled>>

\* Mutated form of AddInsert: the chain is not told of an entry in an empty list.
AddInsertSilent(p, d, ms) ==
  /\ CanCall(p) /\ Unlocked
  /\ LET e == [id |-> Len(expires) + 1, data |-> d, exp |-> now + ms]
     IN  InsertEntry(e) /\ Registered(p, e)
  /\ UNCHANGED pipe

\* AddEx takes the lock and inserts the entry.  The chain is woken for the first entry of
\* an empty list, but not for one that becomes the head of a list: a node is compared with
\* an entry there.  (The uptime is read before the section: a call that waits for the lock
\* is one with less delay.)
AddInsert(p, d, ms) ==
  /\ CanCall(p) /\ Unlocked
  /\ LET e == [id |-> Len(expires) + 1, data |-> d, exp |-> now + ms]
     IN  InsertEntry(e) /\ Registered(p, e)
  /\ pipe' = (pipe \/ ObjectList = {})

\* Mutated form of AddTest: NextTriggerTick is left to the chain.
AddTestLeaves ==
  /\ adding.step = "test"
  /\ adding' = NotAdding
  /\ UNCHANGED <<now, ObjectList, Reserved, NextTriggerTick, check, pipe, stopping, doomed, history>>

\* "If this notification is sooner than the existing one, replace it": the test, which
\* ends AddEx if it is not ...
AddTest ==
  /\ adding.step = "test"
  /\ adding' = IF NextTriggerTick > expires[adding.id] THEN [adding EXCEPT !.step = "write"]
                                                       ELSE NotAdding
  /\ UNCHANGED <<now, ObjectList, Reserved, NextTriggerTick, check, pipe, stopping, doomed, history>>

\* ... and the write.
AddWrite ==
  /\ adding.step = "write"
  /\ NextTriggerTick' = expires[adding.id]
  /\ adding' = NotAdding
  /\ UNCHANGED <<now, ObjectList, Reserved, check, pipe, stopping, doomed, history>>

\* Remove, its section.  An object that no entry is for may be pending in Check.
LifeTime_Remove(p, d) ==
  /\ CanCall(p) /\ Unlocked
  /\ LET mine == {e \in ObjectList : e.data = d}
     IN  /\ ObjectList' = ObjectList \ mine
         /\ doomed' = [doomed EXCEPT ![p] = Ids(mine)]
         /\ Reserved' = IF ObjectList # {} /\ mine = {} THEN Reserved \cup {d} ELSE Reserved
  /\ cancelled' = cancelled \cup Ids({e \in EventQueue : e.data = d})
  /\ UNCHANGED <<now, NextTriggerTick, adding, check, pipe, stopping, expires, fired,
                 destroyed, seen>>

\* The destructors of what it removed.
RemoveDestroys(p) ==
  /\ \E i \in doomed[p] :
       /\ doomed' = [doomed EXCEPT ![p] = @ \ {i}]
       /\ destroyed' = destroyed \cup {i}
  /\ UNCHANGED <<now, list, check, pipe, stopping, expires, fired, seen, cancelled>>

----------------------------------------------------------------------------
Goes(from, to) == at = from /\ at' = to

\* The loop of ILibStartChain, with ILibLifeTime_Check as the first PreSelect of it,
\* and the short cut of that: the next entry is still to come.  It does not ask for the
\* lock, and sees nothing of an entry whose AddEx has not written its tick.
CheckFast ==
  /\ at = "loop" /\ ~TerminateFlag
  /\ CurrentTick' = now
  /\ LET left == NextTriggerTick - now
     IN  IF NextTriggerTick > now /\ NextTriggerTick # Never /\ MaxWait > left
           THEN at' = "wait" /\ blocktime' = left /\ seen' = Listed \ {adding.id}
           ELSE at' = "reset" /\ blocktime' = MaxWait /\ UNCHANGED seen
  /\ UNCHANGED <<now, list, EventQueue, slept, pipe, stopping, doomed, expires, fired,
                 destroyed, cancelled>>

\* The assignment before the section.
CheckReset ==
  /\ Goes("reset", "section")
  /\ NextTriggerTick' = Never
  /\ UNCHANGED <<now, ObjectList, Reserved, adding, CurrentTick, EventQueue, blocktime, slept,
                 pipe, stopping, doomed, history>>

Sooner(q, tick) == {e.exp : e \in q} \cup (IF tick = Never THEN {} ELSE {tick})

\* Mutated form of CheckSection: the expired entries are queued and stay in the list.
CheckSectionKeeps ==
  /\ Goes("section", "fire") /\ Unlocked
  /\ Reserved' = {}
  /\ EventQueue' = {e \in ObjectList : e.exp < CurrentTick}
  /\ seen' = Listed
  /\ UNCHANGED <<now, ObjectList, NextTriggerTick, adding, CurrentTick, blocktime, slept, pipe,
                 stopping, doomed, expires, fired, destroyed, cancelled>>

\* The section: the expired entries are queued, and the next tick found.
CheckSection ==
  /\ Goes("section", "fire") /\ Unlocked
  /\ Reserved' = {}
  /\ EventQueue' = {e \in ObjectList : e.exp < CurrentTick}
  /\ ObjectList' = {e \in ObjectList : e.exp >= CurrentTick}
  /\ LET ticks == Sooner(ObjectList', NextTriggerTick)
     IN  IF ticks = {} THEN NextTriggerTick' = Never
         ELSE \E t \in ticks : (\A u \in ticks : t <= u) /\ NextTriggerTick' = t
  /\ seen' = Listed
  /\ UNCHANGED <<now, adding, CurrentTick, blocktime, slept, pipe, stopping, doomed, expires,
                 fired, destroyed, cancelled>>

\* The next of the queued entries.  Reserved has the objects of entries, and is asked
\* for the entry itself: no entry is ever found in it.
Fire ==
  /\ at = "fire"
  /\ \/ /\ EventQueue = {}
        /\ at' = "compute" /\ UNCHANGED <<EventQueue, fired>>
     \/ /\ at' = "callback"
        /\ \E e \in EventQueue :
             /\ \A f \in EventQueue : ~Before(f, e)
             /\ EventQueue' = EventQueue \ {e} /\ fired' = fired \cup {e.id}
  /\ UNCHANGED <<now, list, CurrentTick, blocktime, slept, pipe, stopping, doomed, expires,
                 destroyed, seen, cancelled>>

CallbackReturns ==
  /\ Goes("callback", "fire")
  /\ doomed[Chain] = {} /\ ~(~Unlocked /\ adding.by = Chain)
  /\ UNCHANGED <<now, list, CurrentTick, EventQueue, blocktime, slept, pipe, stopping, doomed,
                 history>>

\* "Compute how much time until next trigger".
Compute ==
  /\ Goes("compute", "wait")
  /\ LET left == NextTriggerTick - CurrentTick
     IN  blocktime' = IF NextTriggerTick # Never /\ blocktime > left
                        THEN (IF left < 1 THEN 1 ELSE left) ELSE blocktime
  /\ UNCHANGED <<now, list, CurrentTick, EventQueue, slept, pipe, stopping, doomed, history>>

\* The other PreSelects are over, and select is called.
Select ==
  /\ Goes("wait", "select")
  /\ slept' = now
  /\ UNCHANGED <<now, list, CurrentTick, EventQueue, blocktime, pipe, stopping, doomed, history>>

\* A timeout is over when it has passed, and every one but MaxWait at the horizon.
Elapsed == now >= slept + blocktime \/ (now = MaxTime /\ blocktime < MaxWait)

\* The byte is seen, or nothing is; the loop begins again with fresh locals.
Woken ==
  /\ at = "select"
  /\ IF pipe
       THEN at' = "drain" /\ UNCHANGED <<CurrentTick, blocktime, slept>>
       ELSE at' = "loop" /\ CurrentTick' = 0 /\ blocktime' = 0 /\ slept' = 0
  /\ UNCHANGED <<now, list, EventQueue, pipe, stopping, doomed, history>>

SelectReturns == (pipe \/ Elapsed) /\ Woken

\* One of the other sockets of the chain has something.
SelectSocket == Woken

\* "Empty the pipe".
Drain ==
  /\ Goes("drain", "loop")
  /\ pipe' = FALSE
  /\ CurrentTick' = 0 /\ blocktime' = 0 /\ slept' = 0
  /\ UNCHANGED <<now, list, EventQueue, stopping, doomed, history>>

\* The end of ILibStartChain: the timer is flushed.
FreeChain ==
  /\ Goes("loop", "freed")
  /\ TerminateFlag /\ Unlocked
  /\ destroyed' = destroyed \cup Listed
  /\ ObjectList' = {} /\ Reserved' = {}
  /\ pipe' = FALSE
  /\ UNCHANGED <<now, NextTriggerTick, adding, CurrentTick, EventQueue, blocktime, slept, stopping,
                 doomed, expires, fired, seen, cancelled>>

----------------------------------------------------------------------------
\* ILibStopChain: the flag and, if there is still a chain, the byte.
StopFlag ==
  /\ stopper = "none" /\ at # "freed"
  /\ stopper' = "flagged" /\ TerminateFlag' = TRUE
  /\ UNCHANGED <<now, list, check, pipe, doomed, history>>

\* Mutated form of StopUnblock: the chain is not unblocked.
StopUnblockNot ==
  /\ stopper = "flagged" /\ at # "freed"
  /\ stopper' = "done"
  /\ UNCHANGED <<now, list, check, pipe, TerminateFlag, doomed, history>>

StopUnblock ==
  /\ stopper = "flagged" /\ at # "freed"
  /\ stopper' = "done" /\ pipe' = TRUE
  /\ UNCHANGED <<now, list, check, TerminateFlag, doomed, history>>

TimePasses ==
  /\ now < MaxTime /\ at # "freed"
  /\ now' = now + 1
  /\ UNCHANGED <<list, check, pipe, stopping, doomed, history>>

ChainStep ==
  \/ CheckFast \/ CheckReset \/ CheckSection \/ Fire \/ CallbackReturns \/ Compute
  \/ Select \/ SelectReturns \/ Drain \/ FreeChain

LifeTimeCall(p) ==
  \/ \E d \in Data, ms \in Delays :
       Len(expires) < MaxAdds /\ now + ms < MaxTime /\ AddInsert(p, d, ms)
  \/ \E d \in Data : LifeTime_Remove(p, d)

LTNext ==
  \/ ChainStep \/ SelectSocket \/ AddTest \/ AddWrite \/ TimePasses \/ StopFlag \/ StopUnblock
  \/ \E p \in Client \cup {Chain} : LifeTimeCall(p) \/ RemoveDestroys(p)

\* The chain's thread and the threads inside of a call go on, callbacks return, and
\* time passes.
LTSafety == LTInit /\ [][LTNext]_LTvars

LTSpec ==
  /\ LTSafety
  /\ WF_LTvars(ChainStep) /\ WF_LTvars(StopUnblock) /\ WF_LTvars(TimePasses)
  /\ WF_LTvars(AddTest \/ AddWrite)
  /\ \A p \in Client \cup {Chain} : WF_LTvars(RemoveDestroys(p))

----------------------------------------------------------------------------
\* An entry is on the list or in the queue with the time it was registered with, and
\* once.
EntriesKnown ==
  /\ \A e \in ObjectList \cup EventQueue : e.id \in DOMAIN expires /\ e.exp = expires[e.id]
  /\ \A e, f \in ObjectList \cup EventQueue : e.id = f.id => e = f
  /\ ObjectList \cap EventQueue = {}

Doomed == UNION {doomed[p] : p \in Client \cup {Chain}}

\* What has become of no entry is in one of three places.
EachInPlace ==
  /\ fired \cup destroyed \subseteq DOMAIN expires
  /\ Listed \cup Ids(EventQueue) \cup Doomed = DOMAIN expires \ (fired \cup destroyed)
  /\ Doomed \cap (Listed \cup Ids(EventQueue)) = {}
  /\ \A p, q \in Client \cup {Chain} : p # q => doomed[p] \cap doomed[q] = {}

\* The queue belongs to one pass of the chain, and holds what had expired then.
QueuedHaveExpired ==
  /\ EventQueue # {} => at \in {"fire", "callback"}
  /\ CurrentTick <= now /\ \A e \in EventQueue : e.exp < CurrentTick
  /\ doomed[Chain] # {} => at = "callback"
  /\ at = "freed" => ObjectList = {}

\* The entry an AddEx is at; it writes its tick if that is the soonest.
AddingKnown ==
  /\ IF Unlocked THEN adding.id = 0 ELSE adding.id \in DOMAIN expires
  /\ adding.step = "write" => \A e \in ObjectList : expires[adding.id] <= e.exp

\* NextTriggerTick is no later than any entry but the one that is being added, and while
\* it is not set after the chain has looked, nothing is left of what it saw.
TickCovers ==
  /\ seen \subseteq DOMAIN expires /\ adding.id \notin seen
  /\ NextTriggerTick # Never =>
       \A e \in ObjectList : e.id # adding.id => NextTriggerTick <= e.exp
  /\ at \in {"fire", "callback", "compute"} /\ NextTriggerTick = Never =>
       \A e \in ObjectList : e.id \notin seen
  /\ at \in {"reset", "section", "fire", "callback", "compute"} => blocktime = MaxWait
  /\ at \in {"wait", "select"} =>
       \A e \in ObjectList :
         e.id \in seen => blocktime <= 1 \/ blocktime <= e.exp - CurrentTick

\* The inductive invariant.
LTInvariant ==
  LTTypeOK /\ EntriesKnown /\ EachInPlace /\ QueuedHaveExpired /\ AddingKnown /\ TickCovers

\* Every callback is called at most once and not before its time, or destroyed, and
\* not both, whatever threads remove while the chain fires; when the chain is freed
\* none is left that is neither.
Callbacks == INSTANCE TimedCallbacks WITH
  closed <- (at = "freed" /\ \A p \in Client : doomed[p] = {})
ImplementsTimedCallbacks == Callbacks!Spec

\* While the chain sleeps and no byte wakes it, it sleeps no longer than any entry it saw
\* had to wait when its pass began (or the shortest wait); what its callbacks took comes on
\* top.  It has seen the entries whose AddEx had ended when it last looked, at
\* NextTriggerTick without the lock or at the list with it.
SleepsForSeen ==
  at = "select" /\ ~pipe =>
    \A e \in ObjectList :
      e.id \in seen => blocktime <= 1 \/ blocktime <= e.exp - CurrentTick

\* The same of every entry: "a timed callback with millisecond granularity".  It does not
\* hold: an entry that is added later than the chain has looked, or is being added then,
\* wakes nobody if the list was not empty, or wakes the chain before its tick is written.
SleepsForAll ==
  at = "select" /\ ~pipe =>
    \A e \in ObjectList : blocktime <= 1 \/ blocktime <= e.exp - CurrentTick

\* "If it is, that means we shouldn't fire this item anymore": an entry that was removed
\* while it was pending is not fired.
RemovedNotFired == fired \cap cancelled = {}

\* Every callback registered is called or destroyed in the end.
AllSettle == \A i \in 1..MaxAdds : i \in DOMAIN expires ~> i \in fired \cup destroyed

\* A chain that is stopped gets to its end.
StopEnds == TerminateFlag ~> at = "freed"
=============================================================================
