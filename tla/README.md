# Formal models of the UPnP stack

This directory holds TLA+ models of the UPnP stacks of this repository: of the C# stack
in `src/Global/UPnP`, which discovers devices, tracks their lifetimes, fetches their
descriptions and carries their events, and of the concurrent parts of the embedded C
microstack, which the code generators copy into every generated C device. The tools and
samples are built on these two. The models are checked with TLC on small instances, and
the properties that matter most are proved with TLAPS for every value of the constants.
`PROJECT.json` lists the components, the runs, the source lines behind every definition,
the hazards and the theorems.

Paths below are relative to `src/Global/UPnP` unless they start with `src/`; `ILib*.c` are in
`src/Tools/DeviceBuilder/FileStore`, `DVMicroStack.c` in `src/Samples/DeviceProtectionSample`.

## 1. Inventory

### 1.1 How the parts interact

```
   network ──► SSDP, UPnPControlPoint ──(announcements, search answers, byebyes)──┐
   host ─────► NetworkInfo ──(an interface is lost)───────────────────────────────┤
   user ─────► Rescan, ForceDeviceAddition, ForceDisposeDevice ───────────────────┤
                                                                                  ▼
   UPnPDeviceFactory ◄──CreateDevice── UPnPInternalSmartControlPoint ──Add/Remove──► LifeTimeMonitor
     │      ▲         ──OnDevice/OnFailed──►    │      ▲                              │      ▲
     │      │ OnHttpRequestCompleted            │      └────────OnExpired─────────────┘      │
     ▼      │                                   │ WeakEvent: added, removed, expired         ▼
   HttpRequestor                                ▼                                         SafeTimer
                                       UPnPSmartControlPoint (one per application user)      ▲
                                                │ OnAddedDevice, OnRemovedDevice, ...        │
                                                ▼                                            │
                                           application ──Value──► UPnPModeratedStateVariable ┘
```

Eventing stands beside this: an application's `UPnPService` subscribes to the `UPnPService`
of a device, and each end has a `LifeTimeMonitor` or a table with times.

```
   application ──Subscribe, UnSubscribe──► UPnPService (control point) ──SUBSCRIBE, renewal, UNSUBSCRIBE──┐
                                             │        ▲                                                    ▼
                                        LifeTimeMonitor (renewal)  ◄──answers, or none──  UPnPService (device)
                                                                                            ▲
                                                             state variables ──SendEvents──┘
```

The C microstack has the same roles in other shapes: one thread runs a *chain* of objects
(`ILibStartChain`), which is where the lifetime monitor, the web server and the web client
live; other threads talk to it through locks and a pipe.

```
   other threads ──AddEx, Remove──► ILibLifeTime ◄──Check── ILibStartChain ──► web client, web server
        │                                │                       ▲                       │
        │                                └──ForceUnBlockChain────┘ (pipe)                │ SUBSCRIBE, answers
        ├──SetState──► DVMicroStack: subscriber list under EventLock ◄───────────────────┘
        ├──ILibReaderWriterLock (four semaphores)
        └──QueueUserWorkItem──► ILibThreadPool (a queue and two semaphores)
```

Nothing here runs on one thread. Socket callbacks, HTTP completions, timed-out
waits and the application's calls each come on a thread of their own, and events
are raised after the lock that guards the state has been left. Time enters through
`LifeTimeMonitor` only.

### 1.2 Components

| Component | State | Operations | What is hard | What makes it correct |
|---|---|---|---|---|
| Smart control point core, `UPnPInternalSmartControlPoint.cs` | `deviceTable` (records in creation mode or with a device, by UDN), `activeDeviceList`, two clocks, the factory | announcement and search sinks, byebye, lost interface, rescan, forced addition, two clock sinks, factory sinks | stale expiries, late or repeated failures, the check of a record outside the lock, two keys for one record, a lifetime of 0, events raised late | one device object per UDN, every tracked device has a lifetime running, every record in creation mode has a creation that can end it, listeners see each object come and go once, silent devices are reaped |
| Device factory, `UPnPDeviceFactory.cs` | the device being built, `ServiceNum`, outstanding requests | description answer, walk of the device tree, SCPD answers | answers race the walk and change the array it walks; several failures | a device is delivered once and complete, or failure is reported, never both |
| Lifetime monitor, `LifeTimeMonitor.cs`, `SafeTimer.cs` | sorted list of times, interval, flags, a registered wait | `Add`, `Remove`, `Clear`, `OnTimedEvent`; `Start`, `Stop`, `HandleTimer` | two locks, one field written under both; waits that cannot be taken back; two `HandleTimer` at once | no wakeup is lost, each expiry is called back once |
| Moderated state variable, `UPnPModeratedStateVariable.cs` | `PendingObject`, `PendingEvents`, `Seconds`, the value | setter, end of the period, change of the period | handlers that set the value again inside the lock, exceptions out of `base.Value`, a period changed meanwhile | no update lost or counted twice, one timer per period, two events per period, periods end |
| Smart control point filter, `UPnPSmartControlPoint.cs` | filters, `MultiFilter`, delegates | constructor (register, replay), added and removed sinks, filters | the constructor's replay races the directory's events | no matching device is missed, none is announced a third time, removals are forwarded |
| Weak events, `WeakEvent.cs` | list of weak delegates | `Register`, `UnRegister`, `Fire` | `Fire` copies the list without the lock and runs the handlers later; it swallows their exceptions | a handler registered before a `Fire` is run by it |
| HTTP requestor, `HttpRequestor.cs` | pending requests, retries | `LaunchRequest`, the completion callbacks | a server that never answers | one completion per request |
| GENA eventing, `UPnPService.cs`, `UPnPDevice.cs` | subscriber: `CurrentSID`, `SubscribeCounter`, renewal cycle; publisher: subscriber table, `SEQ`, expiry | subscribe, renew, cancel, notify | answers that arrive after the opposite request, renewal timers shared by old and new subscriptions, records written back from a copy | a subscriber that has subscribed stays so until it stops, its counter agrees with it, and what it leaves behind lapses |
| HTTP pipeline, `HTTPRequest.cs`, `HTTPSession.cs`, `AsyncSocket.cs` | queue of pipelined requests, session, socket | pipeline, answer, close | close while answers are under way | answers go to their requests in order |
| Mini web server, `MiniWebServer.cs` | sessions, idle timers | accept, receive, expire | an idle session that becomes busy when it expires | no session is closed in use |
| SSDP and control point, `SSDP.cs`, `UPnPControlPoint.cs`; interface watcher, `NetworkInfo.cs` | sockets | send searches, parse packets, poll | loss, duplication and reordering of datagrams | a source of inputs, in any order |
| Device host, `UPnPDevice.cs`; service descriptions, `ServiceGenerator.cs` and others | description, services, arguments | serve, invoke, marshal | conversions | data conversion, little state |
| C reader-writer lock, `ILibParsers.c` | three counters, `Exit`, four semaphores | read and write, lock and unlock, destroy | the decision who is next is made under the counters' semaphore and signalled outside of it; destruction around blocked threads | exclusion, the right to write passed on once, nobody left blocked |
| C thread pool, `ILibThreadPool.c` | `NumThreads`, `Terminate`, the queue, two semaphores | join, queue, destroy | late joiners, work queued from callbacks, destruction with work queued | an item runs once, none is forgotten, the pool is freed when nobody uses it |
| C lifetime monitor and chain, `ILibParsers.c` | `ObjectList`, `Reserved`, `NextTriggerTick`; pipe, `TerminateFlag` | add, remove, check, flush; select, unblock, stop | `NextTriggerTick` is read and written without the lock, the wake-up for a new first entry, removal of an entry that is being fired | each callback is called once and not early, or destroyed |
| C eventing publisher, `DVMicroStack.c` | list of subscribers, `RefCount`, `SEQ`, expiry | SUBSCRIBE, renewal, UNSUBSCRIBE, `SendEvent`, end of a notification | SUBSCRIBE changes the list without the lock that the walk and the sinks take; subscribers are freed while notifications are on their way | list and counter agree, references are counted, the last event carries the present value |
| Rest of the C microstack, `ILibWeb*.c`, `ILibAsync*.c`, `ILibSSDPClient.c` | web client and server, sockets | requests, sessions, searches | reuse and destruction of connections | one answer per request |
| AV stacks, tools, samples | content metadata, windows | - | - | no core logic of their own |

The hazards, each at its line, are in `PROJECT.json`.

## 2. Modules

| Module | Models | Role |
|---|---|---|
| `UPnPInternalSmartControlPoint` | the core | detailed specification |
| `DeviceDirectory` | what the core promises its listeners | abstract specification; implemented by the core, used by the filter |
| `UPnPDeviceFactory` | one device creation | detailed specification |
| `DeviceCreation` | what a creation promises the core | abstract specification; implemented by the factory |
| `LifeTimeMonitor` | monitor and `SafeTimer` | detailed specification |
| `LifeTimeClock` | what a monitor promises its users | abstract specification; implemented by the monitor, the clock used in the core and in the moderated variable |
| `UPnPSmartControlPoint` | an application's control point | composed with `DeviceDirectory` through INSTANCE |
| `UPnPModeratedStateVariable` | a moderated variable | detailed specification |
| `UPnPServiceEventing` | both ends of an event subscription | detailed specification |
| `ILibReaderWriterLock` | the C reader-writer lock | detailed specification |
| `ReaderWriter` | what such a lock promises | abstract specification; implemented by the lock |
| `ILibThreadPool` | the C thread pool | detailed specification |
| `WorkExecutor` | what a pool promises | abstract specification; implemented by the pool |
| `ILibLifeTime` | the C lifetime monitor and the loop of its chain | detailed specification |
| `TimedCallbacks` | what such a monitor promises | abstract specification; implemented by `ILibLifeTime` |
| `DVEventing` | the subscribers of a generated C device | detailed specification |
| `*_proof` | theorems about the module of that name | TLAPS |
| `LifeTimeMonitors_proof` | theorems about `LifeTimeMonitor` and `ILibLifeTime` | TLAPS |
| `EventPublishers_proof` | theorems about `UPnPModeratedStateVariable` and `DVEventing` | TLAPS |
| `MCUPnPInternalSmartControlPoint`, `MCUPnPDeviceFactory`, `MCUPnPSmartControlPoint` | constants and symmetry for TLC | instances |

The abstract modules are the joints: a component is checked against the promise of
the one below it, and the one below is checked to keep that promise.

Operators named `...Early`, `...Skips`, `...Forgets` and so on, each under the
comment "Mutated form of ...", are no part of a specification. Each is what an
action would be after a plausible mistake in the code, and putting it in the
action's place makes TLC report the property it was written for.

### 2.1 `UPnPInternalSmartControlPoint`

State: `deviceTable`, `activeDeviceList` and the fields of `DeviceInfo` have the
names of the code. A clock is a set of keys with a time set, plus a count of expiries that
have left it and whose sink has not run (`lifeTimeExpired`, `updateExpired`), as
`LifeTimeClock` prescribes. `deviceFactory` has the state of every creation, where a
creation also stands for the device object it delivers. `notices` are events that a
thread owes after it has left the lock, `raised` those it has raised.

| Action | Code |
|---|---|
| `AnnounceNew`, `AnnounceSameSource`, `AnnounceOtherSource` | the three branches of `SSDPNotifySink` (alive) and `UPnPControlPointSearchSink` |
| `SSDPNotifySinkByeBye`, `NetworkInfoOldInterfaceSink` | the byebye branch and the lost interface, both through `UnprotectedRemoveMe` |
| `Rescan`, `RescanAdd` | the copy of the keys under the lock, and the loop after it |
| `ForceDeviceAddition` | the same |
| `LifeTimeExpires`, `DeviceLifeTimeClockSink`, `UpdateExpires`, `DeviceUpdateClockSink` | the two halves of an expiry, for each clock |
| `UpdateDeviceSink` | the end of a source switch, in `UPnPDevice.cs` |
| `DeviceFactoryCreationCheck`, `DeviceFactoryCreationSink`, `DeviceFactoryFailedSink` | the check of line 439 before the lock, the part under it, and the failure |
| `Fire` | the events raised after the lock |

Abstracted: the searches that Rescan and others send (no state of theirs), the
seconds of lifetimes (an entry may expire at any moment after it is set, so the
10 s filter on source changes may always have passed), and the network address of
an interface (any set of listed devices may have been reached over it, and the order of the
list is free). A creation is an atomic promise here (`DeviceCreation`), and may never be answered.

`Refused` are the URLs that parse and are no http URL. `StoreAndCreate` stores the record first, as the
code does, and then `CreateDevice` throws for such a URL, or for none: the record stays and no creation
exists. `InterfaceToHost` of an object is "local", "switching" while a source switch fetches the
new description, or "null": a device that was added by URL has no address of this host, and one
whose source was switched has lost it. The loop of a lost interface throws at the first listed device
that has none (line 141): what it has removed before stays removed, and is never announced.

### 2.2 `UPnPDeviceFactory`

`pc` and `walk` are the thread that runs `FetchServiceDocuments` (line 133), at the
grain of its three reads of `device.Services` per service; `Services` is the array,
which shrinks when `RemoveService` runs on another thread. The walk's thread may end early, for two
reasons that nothing on it catches: its index is out of range (`crashed`), or the SCPDURL is no http
URL and `LaunchRequest` throws (`refused`). `requests` are what
`HttpRequestor` has not completed. An answer is one action under `CBLock`:
`ScpdParses`, `ScpdMalformed` or `ScpdFails`. What an XML document says is reduced to
these outcomes.

### 2.3 `LifeTimeMonitor`

Sections under `RegLock` are one action. A section under `MonitorLock` is one action up to
its call of `Start`, which is another; in between the lock stays held
(`MonitorLockFree`). This is the grain at which the two locks interleave. `Interval` is
shared by both. Times are what remains, in ticks; `TimeOut` queues the callback of
a wait, and nothing takes it back, as with `RegisterWaitForSingleObject`. Several
workers may run `HandleTimer` at once. With `Prompt` TRUE, time passes only when
nothing is running: this separates lateness that the code causes from lateness
of the scheduler. `lastCall` records what the calls of a user did to which keys. It is what
`LifeTimeClock` calls `call`: there the clock changes only by a call (`Put`, `TakeOff`), which gives that
record a new number, or by an expiry, which owes a callback. A key that left the list in any other way
would be a step of neither.

### 2.4 `UPnPModeratedStateVariable`

A value is the set of the updates it stands for, so that uniting is what an
accumulator does and a lost or doubled update is visible. `holder` is the thread in
`base.Value`, which holds `lock(this)` while the application's OnModified handler runs;
`HandlerSetValue` is a reentrant set, `HandlerThrows` an exception out of it. The period
is read before the lock (`SetValue`), and the branch taken then is `pc`. Whether a
value is allowed is a free choice. `Seconds` is 0 or 1: only that there is a period
matters.

### 2.5 `UPnPSmartControlPoint`

Composed with `DeviceDirectory`, whose variables are its own. The constructor is
`Register`, `Snapshot`, `Replay` and `Constructed`; `WeakEvent.Fire` is `Fire` (handlers
copied) and, later, `HandleAddedDevice` or `HandleRemovedDevice`.
`CheckDeviceAgainstFilter` is the code's recursion over a device tree. The actions use
`Matching`, which says the same without recursion, over all devices of the tree (`Tree`, the least
set with the root that is closed under embedding), so that it can be reasoned about; the ASSUME
`MatchingIsTheRecursion` of the MC module compares the two for every root and filter of the instance.
`Combined` is the rule for several filters; that a name agrees with a filter string is
the relation `Passes` (with version) or `Begins` (type only). `heard` counts what the
application was told.

### 2.6 `UPnPServiceEventing`

The control point's end: `SubscribeCounter`, `CurrentSID` and `CurrentTimeout` have the names of the
code. `cycle` says whether `SubscribeCycle` (a `LifeTimeMonitor`) holds a time for the service, and
`expired` counts the expiries whose sink is still to run, as `LifeTimeClock` prescribes. `app` is
where each thread (`Caller`) is between its steps: `SubscribeLock` covers only the counting, so that what
follows it on one thread interleaves with everything on another. `RenewSink` and `_Update` set the
counter to 0 without that lock; such a write is taken to come before or after a counting, not between its
read and its write. `arming` are the responses that have left the lock and are still to set the clock. `requests` counts the requests under way by operation, SID
and state: *sent*, answered *ok*, or *failed*. The device's end: `SubscriberTable` holds the time left
of each SID, and `walk` is a thread in `SendEvents` with the entry it has copied.

| Action | Code |
|---|---|
| `Subscribe` (`Count`), `SubscribeSend` | `Subscribe`: the counting under the lock, and the request of the first caller after it, or an exception of `ParseURL` or `IPAddress.Parse` (lines 2020-2021) |
| `UnSubscribe`, `UnSubscribeRead`, `UnSubscribeSend` | `UnSubscribe`: counter, read of the SID (or the same exceptions, line 2126), request and clearing |
| `Update`, `UpdateReset`, `UpdateSubscribe` | `_Update`: a device that has changed its address is subscribed to anew |
| `HandleSubscribeResponse`, `SubscribeArms` | the answer to SUBSCRIBE, and the `Add` after it |
| `HandleUnsubscribeResponse` | the answer to UNSUBSCRIBE, which removes the renewal time |
| `Renew`, `RenewSink` | the clock's sink, which may throw before it sends (line 2159), and the answer to the renewal |
| `SubscribeEvent`, `RenewEvent`, `CancelEvent` | the device serves a request (`_SubscribeEvent`, `_RenewEvent`, `_CancelEvent`) |
| `Lose` | it does not; what it served may be lost on the way back as well |
| `SendEvents`, `SendEventsCopy`, `SendEventsWrite` | the keys, one entry copied, the copy written back |
| `Tick` | half a timeout passes |

Time is counted in halves of the timeout because the renewal comes after one half: one
more half is the time an answer has before the subscription is over.

### 2.7 `ILibReaderWriterLock`

The three counters, `Exit` and the three semaphores have the names of the code; `CounterLock` is
held for one action. `pc` is each thread's place: blocked on a semaphore, woken, granted
(the function has returned TRUE), denied, or leaving. `signals` are the readers that a finishing
writer still has to signal one by one. Destroy2 takes effect when it sets `Exit` and posts for
everyone who is blocked; it then waits for `ExitLock` once for each of them.

### 2.8 `ILibThreadPool`

A section under the queue's lock is one action; each `sem_wait` and `sem_post` outside of it is one of
its own. The host thread queues and destroys; callbacks queue as well, and when the pool has no
thread the caller runs the item itself (`inline`, a stack because such a callback may queue again).
A worker that joins may do so at any time, also behind Destroy.

### 2.9 `ILibLifeTime`

A section under the lock of `ObjectList` is one action, with one exception: `AddEx` wakes the chain
before it writes `NextTriggerTick`, which the chain reads without the lock. It is therefore three
steps, with the lock held (`adding`): insertion and wake-up (`AddInsert`), the test (`AddTest`) and the write
(`AddWrite`). The chain's accesses to `NextTriggerTick`
outside of the lock, each callback, the select and the emptying of the pipe are actions of their own. An
access to the 64-bit variable is taken to be atomic, and the chain's reads in one test and the use that follows
count as one: between them only a lower value can be written, which makes a wait shorter.
The chain's thread is `at`, with `CurrentTick`, `EventQueue` and `blocktime` as its locals; its callbacks
may call the monitor too. `doomed` are the entries that a Remove has unlinked and still has to
destroy. `SelectSocket` lets another socket end any select. Time is counted in steps of the
shortest wait. The code inserts an entry before the first one that is not earlier, so that its place in the
list follows from its time and from when it was made; `ObjectList` and `EventQueue` are therefore
sets of entries with that order (`Before`).

### 2.10 `DVEventing`

`info` has what is in a subscriber's record; `mem` says whether it is allocated, freed by its
count, or purged by TryToSubscribe. The increments of `RefCount` and `SEQ` are a read and a write, because the
initial event makes them without `EventLock`. TryToSubscribe's search for expired subscribers is
a walk of its own, without the lock (`Purge`): it takes one out of the list, and frees it in a later step
(`PurgeFrees`). Taking it out clears its `Next` (line 1921) before it is freed (line 2093), so
that a walk of the application that stands there ends there; `missed` are the subscribers behind it, which are
not notified until the next event. `requests` are the notifications that the web client
(external) has accepted, in order for each subscriber. Once a thread has reached a freed
subscriber the behaviour ends (`Die`): what a C program does then has no meaning, and
nothing is claimed of it.

## 3. Properties

Core: `LifetimeCovered`, `ActiveTracked`, `CreationCovered`, `StaleSwitchHarmless`,
`ImplementsDeviceDirectory` (safety), `SilentDeviceReaped` (liveness).
Two exceptions are stated in `ActiveTracked` because the code makes them: an object is
`orphaned`, that is listed without a record, when a second creation for its UDN fails late
(line 429), or when its lifetime is 0 and the clock's sink runs inside `Add` (line 467).
The invariant shows that there is no third way. `CreationCovered` excepts records for which
no creation could be started, because the announcement had no URL or one that is refused: such a record stays in
creation mode until a byebye or, after a rescan, an expiry removes it.

Factory: `DeliveredComplete`, `ImplementsDeviceCreation`, `EventuallyReported`. The last
has two exceptions: a request was refused, or a service was dropped from the list under the walk before the
walk had come to the end of that list (`UnderWalk`). The second is the subject of the first
finding; a removal from another device's list, or from one the walk has done with, excuses nothing. One
behind the index in the list under the walk does: the places still to come have moved.

Monitor: `NoLostWakeup`, `ImplementsLifeTimeClock` (safety: a key leaves by a call or by an expiry that
is called back), `LeftKeysExpire` (that the clock's fairness is kept as well).

Moderated variable: `OnePeriod`, `NothingLost`, `BoundedRate`, `PeriodEndsIfAllowed`.
`NothingLost` excepts what an OnModified handler sets in the middle of a publication
(line 163 or 105 resets it), and the last property what follows an exception.

Filter: `NothingMissed`, `HeardTwiceAtMost`, `EventuallyHeard`, `EventuallyGone`.
"Twice" is the replay plus one event. A control point with one filter and `MultiFilter` still
set announces an inner device once for each of its services that match, hence the
second bound. `EventuallyGone` excepts filters that match a service of the device: that
removal ends in an invalid cast (line 444) that `WeakEvent` swallows.

Eventing: `StaysSubscribed`, `CounterMeansSubscribed`, `LeftBehindLapses`. What the code does
not keep is stated as a reason (`excuses`), recorded by the step that causes it. The invariants show
that these reasons suffice; none of the ten can be left out, for TLC then finds a violation. A subscription lapses
only after

* a failed renewal, which the application is told (`RenewalFailed`), or one that threw before it was
  sent, which `WeakEvent.Fire` catches and the application is not told (`RenewThrew`);
* an UNSUBSCRIBE answered after a newer subscription was made (`StrayAnswer`);
* an entry written back over a renewal or a cancellation (`Overwritten`);
* a new subscription made by `_Update` (`Updated`).

Counter and SID disagree, once no call is at work and no SUBSCRIBE under way, only after

* a SUBSCRIBE that was refused or lost (`Refused`), or a call that threw when it had counted (`Threw`);
* a SUBSCRIBE answered when its caller had gone (`Late`);
* UnSubscribe(null) with several callers (`Forced`), or an UnSubscribe that cleared the SID of a
  Subscribe that crossed it on another thread (`Crossed`);
* a failed renewal.

`LeftBehindLapses` is about subscriptions with a timeout. An infinite one that is left behind the device
keeps, and sends its events to, for ever.

Reader-writer lock: `OneBaton`, `ExitLockStable`, `ImplementsReaderWriter`, `BlockedServed`.
Exclusion is part of the refinement, also for threads that are blocked when the lock is
destroyed. `BlockedServed` promises a reader only that it gets in if the writers pause again and
again: the code prefers writers.

Thread pool: `PostPerItem`, `CountedHaveLeft`, `ImplementsExecutor`, `QueuedIsTaken`, `DestroyReturns`.
A thread that joins after Destroy has counted (`Late`) excuses the last, and a second post of
`AbortHandle`: that is what the code does then (section 7.2).

C lifetime: `SleepsForSeen`, `ImplementsTimedCallbacks`, `AllSettle`, `StopEnds`. `SleepsForSeen` is about
the entries whose `AddEx` had ended when the chain last looked, and its wait is reckoned from the start of that
pass: what the callbacks took comes on top. Entries added since, or being added then, may be later (section
7.2), and `AllSettle` shows that they are called all the same.

C eventing: `CountMatches`, `ReferencesCounted`, `LastEventCurrent`, `UnlistedIsFreed`. Excepted are
subscribers that the walk met before their initial event was sent (`raced`), because an increment may be
lost there, those purged by TryToSubscribe, those behind one that was purged under the walk (`missed`), and
those that a failed notification disposed of: the code leaks them when more than one notification was on its way.

The type invariants are proved (`TypeCorrect`, `LTTypeCorrect`, `DVTypeCorrect`) and therefore not
in the runs.

## 4. Runs

All passing runs finish within a few minutes on two workers. Deadlock is not
checked (`CHECK_DEADLOCK FALSE`) because these systems really may stop: nothing is
announced any more, no time is set, or a creation has ended. What must not stop is
stated as liveness.

| Run | Instance | Shows |
|---|---|---|
| `device_factory` | root device with three services, embedded device with one | every order of answers against every position of the walk |
| `device_factory_resilience` | the same | finding 1 |
| `smart_control_point` | 2 UDNs, 3 URLs of which one is refused, 2 creations, 3 inputs | all safety properties of the core, that it implements the directory, and that a silent device loses its record |
| `lifetime_monitor` | 2 keys, 2 threads, 2 workers, delays up to 2, 3 calls | safety, and the clock's promise with its liveness |
| `moderated_state_variable` | 2 writers, 6 calls | all properties of the variable |
| `smart_control_point_filter` | two root devices, one with an embedded device, three services, three filters | all properties of the filter |
| `eventing` | 2 callers, 2 SIDs, infinite and finite timeout, 3 calls | both ends of a subscription, under crossing calls, loss and late answers |
| `reader_writer_lock` | 4 threads and the destroyer | safety, liveness, and that it is a reader-writer lock |
| `thread_pool` | 3 workers, 3 items, the host | safety, liveness, and that it is an executor |
| `c_lifetime` | 1 client and the chain, 2 objects, delays 0 and 2, 2 entries, 4 ticks | that each callback is called once or destroyed, and that a stopped chain ends |
| `c_lifetime_removed` | the same | finding 2 |
| `dv_eventing` | 3 subscribers of which 2 fit, one change of the variable | list, counter, references and last event, and that who has left the list is freed |

### 4.1 Bounds, and why they are enough

* `Tree` of the factory: with three services in a device a removal can be before,
  at, and behind the walk's index; the embedded device gives the step to the next array.
* Core: two creations let one race the other for the same UDN, the other's failure come after the
  delivery, and a forced addition meet an announcement; two UDNs let a
  forced addition deliver another device than the one announced, and a lost interface remove
  several devices; two URLs are needed for a source change, and the third is one
  that is refused. `MaxInputs` 3 is
  enough for announce, remove and announce again with everything stale still pending;
  expiries and failures are no inputs. The run has a liveness property and therefore
  no symmetry; `Symmetry` of `MCUPnPInternalSmartControlPoint` is for its safety properties alone, on
  larger instances (4 inputs).
* Monitor: two workers are needed for a `HandleTimer` whose wait was stopped too late,
  two threads for calls that meet it, two keys for a remaining key that must be set
  anew. Three calls allow an `Add` whose wait is queued, and two calls around it.
* Variable: six calls are two periods with a change of the period in each, or one with
  reentrant sets; `SetModerationPeriod` counts as a call.
* Filter: the device filter fits only the embedded device, the service filter all
  services, so that a match is found at the root, in an embedded device and in its
  services, and the combination of filters is satisfied by an embedded device with its
  own services. The application attaches removal delegates late; addition delegates are
  those it gave the constructor.
* Eventing: three calls are Subscribe, UnSubscribe and Subscribe again, each with the answers of
  the others still on their way, or two callers and one that leaves; with two threads each of them may
  also be met by another between its counting and its end. Two SIDs are enough for one
  subscription that is held and one left behind; a device that has no SID to give refuses. The
  walk of `SendEvents` has no bound: it may be under way at any time.
* Reader-writer lock: four threads are a reader and a writer inside or about to signal, and two
  more that are blocked, of the same kind or of both. Calls are not bounded.
* Thread pool: three workers are one counted by Destroy, one on its way out, and one that joins late. Three
  items are one that runs, one queued by it, and one in the queue.
* C lifetime: two entries are enough for one to become the head before the other, and for one to
  expire while the other is removed; one client is enough for an `AddEx` that the chain meets between its
  wake-up and its write; two objects tell the data pointer from the entry. Delay 0 is
  due at once. Four ticks let an entry of delay 2 be added, waited for and missed by a full wait.
* C eventing: with two places and three subscribers one is refused, or takes the place of an
  expired one. One change of the variable, together with the initial events, puts two notifications
  on their way to one subscriber. A subscriber lives once, so that `UnlistedIsFreed` (again and again nobody is left
  behind) says the same of the instance as one such statement for each subscriber. That a walk which ended early is made
  good by the next takes a second change, and is left to the theorem (`LastEventCurrentCorrect`).
* The proofs of section 6 need none of these bounds: the constants are arbitrary there,
  the number of inputs and calls among them.

## 5. Fairness

* **Core.** A set key expires and its sink runs: this is what `LifeTimeMonitor` is shown to do
  (`LeftKeysExpire`). A thread in Rescan's loop or owing an event goes on.
  Nothing is assumed of the network, of the user, or of creations.
* **Factory.** The walk goes on unless it has thrown, and every request that was sent is completed. The latter is an
  assumption about the servers as well: the requests' `Timeout` does not apply to
  asynchronous calls (`HttpRequestor.cs:106`), so a server that neither answers nor closes
  keeps a creation pending. The core is therefore checked without it.
* **Monitor.** Time passes, a wait that is due is queued, the pool runs what is queued, and
  every thread inside the monitor goes on. No call is ever owed.
* **Variable.** A thread inside the setter goes on; a set timer expires and its sink runs. An
  OnModified handler returns or throws: one that does neither holds the lock for ever in the
  code as well.
* **Filter.** The constructor goes on, owed events are fired and their handlers run. Devices
  need not enter or leave.

* **Eventing.** As long as a thread of the client can go on or a request can be served (or its connection
  closes, `Lose`), one of these happens; and time passes. Half a timeout is taken to be longer than any request, expiry or response is
  under way: `Tick` waits for these. Nothing is assumed of the application, or of the device's
  events.
* **Reader-writer lock.** A thread with the lock gives it back, and a thread inside goes on when
  its semaphore lets it. Which of several blocked threads a semaphore wakes is not said.
* **Thread pool.** Workers go on when they can, the host does so inside its functions, and callbacks return.
  Nobody has to join.
* **C lifetime.** The chain's thread and an AddEx or Remove under way go on, callbacks return, time passes
  up to the horizon; a select with a finite timeout ends there.
* **C eventing.** Both threads go on, and the web client ends every notification. Subscribers
  need not come, renew or leave.

Every condition is weak fairness, because each of these steps stays enabled until it is taken, with one
exception: the sink of a C notification runs on the chain's thread, which serves other requests in between
and waits for `EventLock`. The chain's loop comes back to the web client after each of them, so `RequestEnds` is
strongly fair.

## 6. Proofs

The theorems are about `Safety` (`Init /\ [][Next]_vars`), which each module's `Spec`
implies, or about `Spec` itself. They assume only the module's named `ASSUME`: distinctness of the
null values and keys, bounds that are natural numbers, a tree in which no service occurs
twice for the factory, finitely many threads for the monitor, the C lock and the pool, and for the filter the shape of
the relations: the set of services is finite, devices form a forest, and a service belongs to one
device. The sets themselves may be of any size.

**Core** (`UPnPInternalSmartControlPoint_proof`): `TypeCorrect`,
`LifetimeAlwaysCovered`, `ActiveAlwaysTracked`, `CreationAlwaysCovered`,
`StaleSwitchAlwaysHarmless`, `DirectoryImplemented`. The safety properties are
not inductive. Removals and refreshes set the timer of the record's *UDN field*, not of its
key, and that field is FORCEDDEVICE in a device that was added by URL; that this never
takes another record's key off the clock needs `RecordUDN` (the field is the key or
FORCEDDEVICE) and that no device is ever held under FORCEDDEVICE. That a
late failure or delivery finds its own UDN needs `PromisedUDN`; that an object
is not installed twice needs `ListedDone`; the harmless stale switch needs
`PendingNeedsDevice`. `IInv` is the conjunction, `InvariantStep` has one step per
action, and the removal, the new record and the installation are lemmas of their own
(`RemoveMeStep`, `NewRecordStep`, `CreationSinkStep`). Refinement follows from `IInv` by
mapping each action to `Enter`, `Leave`, `Tell` or a stutter (`DirectoryStep`).

**Factory** (`UPnPDeviceFactory_proof`): `TypeCorrect`, `DeliveryComplete`, `CreationImplemented`,
for any device tree. Each service is still ahead of the walk, has one request under way, has been
counted once, or is *lost*: the walk skipped it when an array shrank, or its answer was not counted
(`Once`, `Flow`). A lost service stays lost, and `ServiceNum` is the number of services not counted, so
that the device is delivered only if none is lost (`Accounts`). A request that mixes up two
services, its URL read before a shrinkage and its tag after it, skips the first of them (`Mixed`);
hence no service of a delivered device was parsed from another's description. The same argument
rules out a delivery after a failure, whose service is lost.

**Monitor** (`LifeTimeMonitors_proof`): `TypeCorrect`, `WakeupNeverLost`, `ClockImplemented`.
`NoLostWakeup` needs `WaitFlagOwned`: a `Start` that sees `WaitFlag` leaves the registration to a
worker, so there must be one that is still on its way to `HandleTimerEnd`. With two workers one can clear
the other's flag; the proof shows that it then registers the wait itself. The clock counts the
callbacks of a key that are still to come; in the monitor these are the threads that have taken the key off the
list and not yet raised its event, and only a thread in that loop has any (`OwedInLoop`). Each step
adds one thread to that set or takes one from it: counting them is where the threads must be finitely many.

**Variable** (`EventPublishers_proof`): `TypeCorrect`, `PeriodsNeverOverlap`,
`UpdateNeverLost`, `RateBounded`. The strengthening says where the holder of the lock stands
(`HolderInside`), that only merging fills `PendingObject` (`MergedOnly`), that after an exception
nothing moves any more (`Wedged`), and it counts the event at the end of a running period
as already spent, reserved by the period's timer (`EventsCounted`).

**Filter** (`UPnPSmartControlPoint_proof`): `TypeCorrect`, `NothingEverMissed`, `NeverHeardMore`. The first argument is
the order register, snapshot, replay: once the snapshot is taken, a listed device has a notice
to come, is still to be replayed, or has been handled (`Covered`); a device
listed before the registration is in the snapshot, and one that enters after it has its notice
(`EnteredWithNotice`, on `FilterMode`, `DelegatesKept`, `ReplayOver`); of `Matching` it uses only
that it finds the same results every time. That nothing is heard more often than `HeardTwiceAtMost` allows rests on
two things. A device has one notice of its entry, ever (`NoticeOnce`), and is replayed once, so that it is announced once
by each of them: what has been heard of it is bounded by which of the two are over
(`HeardInTurn`). And what is announced with one device is never announced with another: every result of `Matching`
lies in the device's tree (`ResultsInTree`), and the trees of two roots have nothing in common
(`TreesDisjoint`). The last follows without induction: removing from a tree whatever lies in the other
leaves a closed set that still has the root, and the tree is the least of these.

**Eventing** (`UPnPServiceEventing_proof`): `TypeCorrect`, `SubscriptionStays`, `CounterAgrees`.
`StaysSubscribed` says nothing of the clock, and holds only because the clock is set in time. Three
facts strengthen it. `NoCancel`: no UNSUBSCRIBE for the SID that is held is under way, so the
device cannot drop it. `Offered`: a SID on its way in an answer to SUBSCRIBE is alive at the
device, with a full timeout, and it is held by nobody else. `Renewed`: a held subscription with one half
left has its renewal set, expired or under way. That a tick cannot take the last half follows from the
last, because a tick waits for what is under way. The counter's argument holds for any number of
threads. `Agrees` is `CounterMeansSubscribed` with the callers that may still change one of the two
(`AtWork`: about to send a SUBSCRIBE, to clear the SID, or to count anew) in place of all that are not idle. It lasts
while nobody at work ends and no SUBSCRIBE is answered (`AgreementKept`), and each end makes the two agree or has its
reason. Each part is inductive on its own, given the
type invariant and those before it (`OfferedInductive`, `RenewedInductive`, `AgreementInductive`).

**Reader-writer lock** (`ILibReaderWriterLock_proof`): `TypeCorrect`, `Exclusive`,
`BatonNeverDoubled`, `ExitLockAlwaysStable`, `ReaderWriterImplemented`. Exclusion is not inductive: it
rests on counting. While the lock is not being destroyed, `PendingWriters` is the number of threads on
their way through the writer's side, `ActiveReaders + WaitingReaders` that of the readers' side
(`PendingCounted`), and each blocked reader has a post or is still to get one
(`BlockedReadersCounted`). After `Exit` nobody is granted anything, so that these counts may be given up.
The cardinalities change by one with a thread's place; the lemmas on `At` say so once.

**Thread pool** (`ILibThreadPool_proof`): `TypeCorrect`, `PostForEveryItem`, `CountedHaveAlwaysLeft`,
`ExecutorImplemented`. `NumThreads` is the number of workers inside the pool, so that exactly one worker takes
it to zero and posts `AbortHandle`: with no late joiner that happens once, and when it has happened
nobody who was counted is inside (`Aborted`). `Phases` says that nobody leaves before Destroy and nothing is
called after it; `Places` that an item is at one place only, which the executor needs.

**C lifetime** (`LifeTimeMonitors_proof`): `LTTypeCorrect`, `SleepsForSeenCorrect`,
`TimedCallbacksImplemented`. `EachInPlace` says that an entry ever made is in the list, in the chain's queue,
unlinked by one thread that still has to destroy it, fired, or destroyed, and in one of these only; with
`EntriesKnown` and `QueuedHaveExpired` (the queue belongs to one pass, and what is in it was due then) each
action of the chain and of its clients is one of `TimedCallbacks` or a stutter, and at the end nothing is left
that is neither fired nor destroyed (`ClosedSettled`). `SleepsForSeen` rests on `TickCovers`: `NextTriggerTick`, which threads
write without the chain's knowledge and the chain without the lock, is, while it is set, no later than any entry but the
one that an `AddEx` has inserted and not yet compared with it; the chain does not count that entry as seen when it looks at
the tick alone. If nobody sets the tick until the chain has computed its wait, then nothing the
chain saw is left. Each write keeps this, in any order, since each one writes a time that is no later than all
that it leaves out; for the write of `AddEx`, which comes two steps after its insertion, this is `AddingKnown`.

**C eventing** (`EventPublishers_proof`): `DVTypeCorrect`, `CountMatchesCorrect`,
`ReferencesCountedCorrect`, `LastEventCurrentCorrect`, for any number of subscribers and calls. The list is changed in the
middle of a walk of either thread. All changes are two operations on sequences, removal of one place and insertion in
front; the lemmas `Removal` and `Insertion` say for each what remains listed, in which order, and what
comes after each subscriber, and the rest of the proof uses only these. `WalkPlace` and `ChainPlace` say where the
two walks stand: at a subscriber in the list, at one that the chain is just freeing, or at a freed one, where the
behaviour is about to end. `ReadsCurrent` is the reason why counting without the lock goes wrong only where it is
said to (`raced`): a count that one thread has read and not yet written is still the subscriber's count, unless
the walk met a subscriber whose initial event was being sent. `PassedCurrent` says of a walk under
way what `LastEventCurrent` says at its end: whom it has been past has the present value.

Only model-checked:

* all liveness properties (`SilentDeviceReaped`, `EventuallyReported`, `PeriodEndsIfAllowed`,
  `EventuallyHeard`, `EventuallyGone`, `LeftBehindLapses`, `BlockedServed`, `QueuedIsTaken`,
  `DestroyReturns`, `AllSettle`, `StopEnds`, `UnlistedIsFreed`, `LeftKeysExpire`): liveness under fairness is
  outside the prover;
* that `Matching` is what `CheckDeviceAgainstFilter` computes: this takes induction over the tree, and is evaluated on
  the instance (`MatchingIsTheRecursion`).

Every safety property of the passing runs is a theorem.

## 7. Findings

### 7.1 Shown by a run

Statements of the repository that the code does not keep, each with a run that shows it;
`PROJECT.json` has the lines.

1. `MalformedScpdDropsOnlyTheService`: `Resilience.txt` says that a bad service
   description drops the service. When it arrives during the walk, the walk skips
   the next service and the device is never delivered.
2. `RemovedNotFired`: `ILibParsers.c:4778` says that an item on the remove list is not fired any
   more. `Remove` files the object there, `Check` looks for the entry, and nothing is ever found.

### 7.2 Further observations

Some statements do not hold and have a definition in their module, but no run of their own.
Each can be reproduced by adding it as an INVARIANT (the last as a PROPERTY) to the
configuration of its module:

| Definition | Module | What the code does |
|---|---|---|
| `NoUnexpectedCreation` | `UPnPInternalSmartControlPoint` | "Creating a device we have should never happen"; it does when an announced device is also added by URL |
| `OnePendingEvent` | `LifeTimeMonitor` | "There can only be one pending event per object"; an object added again between its expiry and its callback has two |
| `NeverLate` (with `Prompt = TRUE`) | `LifeTimeMonitor` | the timer's interval is written under two different locks, so a short wait can be registered with an older, longer time |
| `KnownServicesHeard` | `UPnPSmartControlPoint` | the constructor for one filter resets `MultiFilter` after the replay, so a service filter does not call OnAddedService for what is known already |
| `UnLockWontBlock` | `ILibReaderWriterLock` | "This won't block" (`ILibParsers.c:5856`): it does while Destroy2 takes the posts of `ExitLock` first |
| `SleepsForAll` | `ILibLifeTime` | "millisecond granularity" (`ILibParsers.c:4644`): an entry that becomes the head of a list that is not empty does not wake the chain (line 4698 compares a node with an entry); and the first entry of an empty list wakes it (4680) before its tick is written (4705), so that the chain may read the old tick (4735) and sleep past it |
| `PeriodEnds` | `UPnPModeratedStateVariable` | an exception out of `base.Value` leaves a moderation period that nothing ends |

Others were met while reading, and are either excuses of a property or outside of the models:

* A thread that joins the C pool after Destroy has counted is never released, and Destroy may
  wait for a post that does not come or leave one that comes late; items still queued at Destroy lose their data; Destroy
  called from a callback waits for itself.
* A Location or SCPDURL that is no http URL makes `HttpRequestor` throw (line 103): the record stays in creation
  mode, or the walk's thread ends and nothing is reported. A listed device without `InterfaceToHost` stops the loop of a
  lost interface (`UPnPInternalSmartControlPoint.cs:141`), and what it had removed is not announced.
* `Subscribe` and `UnSubscribe` that throw have counted already (lines 1987 and 2020); an UnSubscribe clears the SID that a
  crossing Subscribe has just been given (2064, 2139); an infinite subscription that is left behind stays.
* A renewal under way when UnSubscribe clears the SID makes a new subscription that
  nobody knows, and its answer arms the renewal again; UnSubscribe(null) with several callers leaves the
  counter raised; a failed SUBSCRIBE leaves it raised too.
* The initial event may come before `CurrentSID` is set and is then dropped (`UPnPDevice.cs:1038`,
  `1269`-`1284`); the timeout that the device grants is ignored; `CurrentTimeout / 2` is 0 for a timeout of 1.
* `ILibLifeTime_Add` multiplies seconds by 1000 in an int (`ILibParsers.h:818`), and
  `LifeTimeMonitor.cs:91` casts milliseconds to int. `Flush` calls the destructors with its lock held (lines
  4878-4887). The time callbacks take delays the next sleep.
* `WeakEvent.Fire` copies its list without the lock (line 128). The moderated variable can publish an older
  value after a newer one (line 103). The filter's replay may announce what has been removed meanwhile
  (line 151).

## 8. Not modelled, and the plan

Not modelled: the parsing of descriptions, SSDP packets and arguments (data
conversion; their outcomes are inputs of the models), network polling (a source of
inputs), the HTTP stacks behind the requestor, the eventing requests and the C web
client (one answer per request, in any order, is their promise here), the memory of
`WeakEvent`'s list, the seconds and milliseconds of lifetimes, the contents and `SEQ` of
C# notifications and their delivery to `_TriggerEvent`, the shutdown of a generated C
device (`DVMicroStack.c:3194`), AV stacks, tools and samples (section 1.2). The samples and the
file store hold many copies of the same generated C sources, which makes up most of the repository's
lines; one copy of each is modelled.

The order of work was: the core with its clocks and directory; the factory; the
monitor; the moderated variable; the filter; then eventing, the C
reader-writer lock, thread pool, lifetime monitor and publisher; and the proofs of all of them.
What is left, in this order:

1. **Notifications of eventing**: `SendEvents` to `_TriggerEvent` over connections that
   reorder, with `SEQ`; two such walks at once lose or repeat a number (`UPnPService.cs:4142`).
   Composed with `UPnPServiceEventing` through its SIDs.
2. **HTTP pipeline** (`HTTPRequest.cs`, `HTTPSession.cs`) and **mini web server**
   (`MiniWebServer.cs`): abstract specification a FIFO of requests and answers; two
   requests on one connection, with closes at every point.
3. **C web client** (`ILibWebClient.c`): its queue of requests per server, the idle and reused
   connections, and its destruction; it would discharge what `DVEventing` assumes of it.
4. **Weak events** as a module of its own, under `UPnPSmartControlPoint`.
5. **Proofs**: with each new module, its type invariant and its safety properties; for those in place, the statements
   between modules, such as that a core over `LifeTimeMonitor` in place of `LifeTimeClock` is still a directory.
