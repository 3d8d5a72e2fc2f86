------------------- MODULE UPnPInternalSmartControlPoint -------------------
(***************************************************************************)
(* Global/UPnP/UPnPInternalSmartControlPoint.cs: the one object of a       *)
(* process that tracks the devices of the network for every smart control  *)
(* point.                                                                  *)
(*                                                                         *)
(* Announcements (SSDP notifications and search answers), byebyes, the     *)
(* user's rescans and forced additions, lost interfaces, the answers of    *)
(* UPnPDeviceFactory and the expiries of two LifeTimeMonitor clocks come   *)
(* on threads of their own.  Each handler works on deviceTable under       *)
(* deviceTableLock, so a handler's locked part is one action; what it does *)
(* before or after the lock is a separate action.                          *)
(*                                                                         *)
(* Time is abstract: an armed clock entry may expire at any moment, and    *)
(* the expiry is two steps, as in LifeTimeMonitor.OnTimedEvent: the entry  *)
(* leaves the clock, and later the sink runs, whatever happened to the     *)
(* entry's key meanwhile.                                                  *)
(***************************************************************************)
EXTENDS Naturals, FiniteSets

CONSTANTS
  UDN,          (* unique device names that are announced                      *)
  FORCEDDEVICE, (* the key under which a device added by URL waits             *)
  Url,          (* description URLs: where a device is said to be              *)
  Refused,      (* those that parse and are no http URL: HttpRequestor throws  *)
  Creation,     (* device creations, each standing for the object it creates   *)
  MaxInputs,    (* bound: number of messages and user requests handled         *)
  Null          (* C#'s null                                                   *)

Key == UDN \cup {FORCEDDEVICE}

DeviceInfo == [Device : Creation \cup {Null}, UDN : Key,
               BaseURL : Url \cup {Null}, PendingBaseURL : Url \cup {Null}]

ASSUME SmartControlPointAssumption ==
  /\ FORCEDDEVICE \notin UDN
  /\ Null \notin Creation \cup Url \cup Key
  /\ Null \notin DeviceInfo
  /\ Refused \subseteq Url
  /\ MaxInputs \in Nat

VARIABLES
  deviceTable,        (* DeviceInfo by key, Null where there is none            *)
  activeDeviceList,   (* the device objects GetCurrentDevices returns           *)
  deviceLifeTimeClock,(* keys with an entry in that LifeTimeMonitor             *)
  lifeTimeExpired,    (* by key: expiries taken off the clock, sink not yet run *)
  deviceUpdateClock,  (* the same for the clock that delays source changes      *)
  updateExpired,
  deviceFactory,      (* the state of each creation                             *)
  InterfaceToHost,    (* of each object: "local", an address of this host;      *)
                      (* "switching", while a source switch fetches the new     *)
                      (* description; or "null"                                 *)
  rescan,             (* keys Rescan has copied and has still to put on the clock *)
  notices,            (* events to be raised by a thread that has left the lock *)
  raised,             (* events that have been raised                           *)
  retired,            (* history: objects that have left activeDeviceList       *)
  orphaned,           (* history: objects that lost their record by a path that *)
                      (* does not take them off activeDeviceList                *)
  inputs              (* bound: inputs handled so far                           *)

clocks == <<deviceLifeTimeClock, lifeTimeExpired, deviceUpdateClock, updateExpired>>
events == <<notices, raised, retired, orphaned>>
vars == <<deviceTable, activeDeviceList, clocks, deviceFactory, InterfaceToHost, rescan,
          events, inputs>>

\* urn is the UDN the announcement promised, Null for a forced device; udn is the
\* one in the description; short: max-age is 0, or there is no Cache-Control header.
CreationState ==
  [state : {"unused"}, urn : {Null}, udn : {Null}, short : {FALSE}] \cup
  [state : {"running", "checked", "failed", "done"},
   urn : UDN \cup {Null}, udn : UDN, short : BOOLEAN]

Notice == {"added", "removed", "expired"} \X Creation

TypeOK ==
  /\ deviceTable \in [Key -> DeviceInfo \cup {Null}]
  /\ activeDeviceList \subseteq Creation
  /\ deviceLifeTimeClock \subseteq Key /\ lifeTimeExpired \in [Key -> Nat]
  /\ deviceUpdateClock \subseteq Key /\ updateExpired \in [Key -> Nat]
  /\ deviceFactory \in [Creation -> CreationState]
  /\ InterfaceToHost \in [Creation -> {"local", "switching", "null"}]
  /\ rescan \subseteq Key
  /\ notices \subseteq Notice /\ raised \subseteq Notice
  /\ retired \subseteq Creation /\ orphaned \subseteq Creation
  /\ inputs \in 0..MaxInputs

Init ==
  /\ deviceTable = [k \in Key |-> Null]
  /\ activeDeviceList = {}
  /\ deviceLifeTimeClock = {} /\ lifeTimeExpired = [k \in Key |-> 0]
  /\ deviceUpdateClock = {} /\ updateExpired = [k \in Key |-> 0]
  /\ deviceFactory = [c \in Creation |->
       [state |-> "unused", urn |-> Null, udn |-> Null, short |-> FALSE]]
  /\ InterfaceToHost = [c \in Creation |-> "local"]
  /\ rescan = {}
  /\ notices = {} /\ raised = {} /\ retired = {} /\ orphaned = {}
  /\ inputs = 0

----------------------------------------------------------------------------
Input == inputs < MaxInputs /\ inputs' = inputs + 1

ContainsKey(k) == deviceTable[k] # Null

\* A DeviceInfo as the sinks of announcements create it.
NewInfo(k, url) == [Device |-> Null, UDN |-> k, BaseURL |-> url, PendingBaseURL |-> Null]

\* deviceFactory.CreateDevice: a creation that was not used before starts.  The
\* device of an announcement gets the address on which it was heard, a forced one
\* none.
CreateDevice(urn, udn, short) ==
  \E c \in Creation :
    /\ deviceFactory[c].state = "unused"
    /\ deviceFactory' = [deviceFactory EXCEPT
         ![c] = [state |-> "running", urn |-> urn, udn |-> udn, short |-> short]]
    /\ InterfaceToHost' = [InterfaceToHost EXCEPT
         ![c] = IF urn = Null THEN "null" ELSE "local"]

\* A record is stored and then its creation starts, if the request for the
\* description can be made: CreateDevice throws for a null URL (an alive
\* notification without a usable Location) and for one that is no http URL, and
\* leaves the record behind.
StoreAndCreate(k, url, urn, udn, short) ==
  /\ deviceTable' = [deviceTable EXCEPT ![k] = NewInfo(k, url)]
  /\ IF url \in Url \ Refused
       THEN CreateDevice(urn, udn, short)
       ELSE UNCHANGED <<deviceFactory, InterfaceToHost>>

\* "Never saw this device before": a record in creation mode.
AnnounceNew(u, url, short) ==
  /\ Input
  /\ ~ContainsKey(u)
  /\ StoreAndCreate(u, url, u, u, short)
  /\ UNCHANGED <<activeDeviceList, clocks, rescan, events>>

\* The device is alive where it was: a pending source change is cancelled and the
\* lifetime starts again.  The timer goes under the record's UDN field, which is
\* FORCEDDEVICE for a device added by URL.  deviceUpdateClock.Remove(deviceInfo)
\* looks for a DeviceInfo among the clock's UDNs and removes nothing.  (A record
\* that was made without a URL has no BaseURL to compare: the sink throws.)
AnnounceSameSource(u, url) ==
  /\ Input
  /\ ContainsKey(u) /\ deviceTable[u].Device # Null
  /\ url # Null /\ deviceTable[u].BaseURL = url
  /\ deviceTable' = [deviceTable EXCEPT ![u].PendingBaseURL = Null]
  /\ deviceLifeTimeClock' = deviceLifeTimeClock \cup {deviceTable[u].UDN}
  /\ UNCHANGED <<activeDeviceList, lifeTimeExpired, deviceUpdateClock, updateExpired,
                 deviceFactory, InterfaceToHost, rescan, events>>

\* Mutated form of AnnounceOtherSource: a device in creation mode is not left alone.
AnnounceOtherSourceEarly(u, url, stored) ==
  /\ Input
  /\ ContainsKey(u) /\ deviceTable[u].BaseURL \notin {Null, url}
  /\ deviceTable' = IF stored THEN [deviceTable EXCEPT ![u].PendingBaseURL = url]
                              ELSE deviceTable
  /\ deviceUpdateClock' = deviceUpdateClock \cup {deviceTable[u].UDN}
  /\ UNCHANGED <<activeDeviceList, deviceLifeTimeClock, lifeTimeExpired, updateExpired,
                 deviceFactory, InterfaceToHost, rescan, events>>

\* The device is announced elsewhere, more than 10 s after the last accepted
\* announcement (time is abstract, so that may always be the case): the switch is
\* to be made in 3 s.  Only the notification sink stores the new source; the
\* search sink changes a copy of the record.
AnnounceOtherSource(u, url, stored) ==
  /\ Input
  /\ ContainsKey(u) /\ deviceTable[u].Device # Null
  /\ deviceTable[u].BaseURL \notin {Null, url}
  /\ deviceTable' = IF stored THEN [deviceTable EXCEPT ![u].PendingBaseURL = url]
                              ELSE deviceTable
  /\ deviceUpdateClock' = deviceUpdateClock \cup {deviceTable[u].UDN}
  /\ UNCHANGED <<activeDeviceList, deviceLifeTimeClock, lifeTimeExpired, updateExpired,
                 deviceFactory, InterfaceToHost, rescan, events>>

\* SSDPNotifySink, IsAlive.  A device in creation mode is left alone.
SSDPNotifySinkAlive(u, url, short) ==
  \/ AnnounceNew(u, url, short)
  \/ AnnounceSameSource(u, url)
  \/ AnnounceOtherSource(u, url, TRUE)

\* UPnPControlPointSearchSink; the URL of a search answer always parses.
UPnPControlPointSearchSink(u, url, short) ==
  /\ url # Null
  /\ \/ AnnounceNew(u, url, short)
     \/ AnnounceSameSource(u, url)
     \/ AnnounceOtherSource(u, url, FALSE)

\* The devices that UnprotectedRemoveMe returns for the keys U, null ones left out.
RemovedDevices(U) == {deviceTable[k].Device : k \in {v \in Key \cap U : ContainsKey(v)}} \ {Null}

\* UnprotectedRemoveMe for each key in U.  As above, no timer is taken off the
\* update clock.
UnprotectedRemoveMe(U) ==
  /\ deviceTable' = [k \in Key |-> IF k \in U THEN Null ELSE deviceTable[k]]
  /\ deviceLifeTimeClock' =
       deviceLifeTimeClock \ {deviceTable[k].UDN : k \in {v \in Key \cap U : ContainsKey(v)}}
  /\ activeDeviceList' = activeDeviceList \ RemovedDevices(U)
  /\ retired' = retired \cup RemovedDevices(U)
  /\ UNCHANGED <<lifeTimeExpired, deviceUpdateClock, updateExpired, raised, orphaned>>

\* SSDPNotifySink, byebye; ForceDisposeDevice sends itself one.
SSDPNotifySinkByeBye(u) ==
  /\ Input
  /\ UnprotectedRemoveMe({u})
  /\ notices' = notices \cup ({"removed"} \X RemovedDevices({u}))
  /\ UNCHANGED <<deviceFactory, InterfaceToHost, rescan>>

\* Mutated form of NetworkInfoOldInterfaceSink: the devices found on the interface
\* are announced, not those that were removed.
NetworkInfoOldInterfaceSinkFound(S) ==
  /\ Input
  /\ UnprotectedRemoveMe({deviceFactory[c].udn : c \in S})
  /\ notices' = notices \cup ({"removed"} \X S)
  /\ UNCHANGED <<deviceFactory, InterfaceToHost, rescan>>

\* NetworkInfoOldInterfaceSink: S are the listed devices that are found on the
\* interface.  Each is removed by its UDN.  A listed device without an address of
\* this host makes the loop throw where it stands in the list: S are then those
\* before it (the order of the list is abstracted), and none of them is announced.
\* If a device has no record of its own any more, null is put on the list of
\* removed devices and the thread that announces the removals stops there: the
\* rest of them is never announced.
NetworkInfoOldInterfaceSink(S) ==
  LET U == {deviceFactory[c].udn : c \in S} IN
  /\ Input
  /\ \A c \in S : InterfaceToHost[c] # "null"
  /\ UnprotectedRemoveMe(U)
  /\ \/ /\ \E c \in activeDeviceList : InterfaceToHost[c] = "null"
        /\ UNCHANGED notices
     \/ /\ \A c \in activeDeviceList : InterfaceToHost[c] # "null"
        /\ \E N \in SUBSET RemovedDevices(U) :
             /\ Cardinality(S) = Cardinality(RemovedDevices(U)) => N = RemovedDevices(U)
             /\ notices' = notices \cup ({"removed"} \X N)
  /\ UNCHANGED <<deviceFactory, InterfaceToHost, rescan>>

\* Rescan copies the keys under the lock and puts each on the clock without it.
\* (Two rescans at a time count as one for the keys they share.)
Rescan ==
  /\ Input
  /\ rescan' = rescan \cup {k \in Key : ContainsKey(k)}
  /\ UNCHANGED <<deviceTable, activeDeviceList, clocks, deviceFactory, InterfaceToHost,
                 events>>

RescanAdd(k) ==
  /\ k \in rescan
  /\ rescan' = rescan \ {k}
  /\ deviceLifeTimeClock' = deviceLifeTimeClock \cup {k}
  /\ UNCHANGED <<deviceTable, activeDeviceList, lifeTimeExpired, deviceUpdateClock,
                 updateExpired, deviceFactory, InterfaceToHost, events, inputs>>

\* ForceDeviceAddition: the record and a creation that expects no particular UDN.
ForceDeviceAddition(url, udn) ==
  /\ Input
  /\ StoreAndCreate(FORCEDDEVICE, url, Null, udn, FALSE)
  /\ UNCHANGED <<activeDeviceList, clocks, rescan, events>>

----------------------------------------------------------------------------
\* LifeTimeMonitor.OnTimedEvent, first half: the entry leaves the clock.
LifeTimeExpires(k) ==
  /\ k \in deviceLifeTimeClock
  /\ deviceLifeTimeClock' = deviceLifeTimeClock \ {k}
  /\ lifeTimeExpired' = [lifeTimeExpired EXCEPT ![k] = @ + 1]
  /\ UNCHANGED <<deviceTable, activeDeviceList, deviceUpdateClock, updateExpired,
                 deviceFactory, InterfaceToHost, rescan, events, inputs>>

\* Mutated form of DeviceLifeTimeClockSink: the device stays on the list.
DeviceLifeTimeClockSinkKeepsListed(k) ==
  /\ lifeTimeExpired[k] > 0
  /\ lifeTimeExpired' = [lifeTimeExpired EXCEPT ![k] = @ - 1]
  /\ deviceTable' = [deviceTable EXCEPT ![k] = Null]
  /\ UNCHANGED <<deviceUpdateClock, activeDeviceList, retired, notices,
                 deviceLifeTimeClock, updateExpired, deviceFactory, InterfaceToHost,
                 rescan, raised, orphaned, inputs>>

\* Mutated form of DeviceLifeTimeClockSink: a device about to move is spared.
DeviceLifeTimeClockSinkSpares(k) ==
  LET d == IF ContainsKey(k) THEN deviceTable[k].Device ELSE Null
      gone == {d} \cap activeDeviceList IN
  /\ lifeTimeExpired[k] > 0
  /\ lifeTimeExpired' = [lifeTimeExpired EXCEPT ![k] = @ - 1]
  /\ IF ContainsKey(k) /\ deviceTable[k].PendingBaseURL # Null
       THEN UNCHANGED <<deviceTable, activeDeviceList, retired, notices>>
       ELSE /\ deviceTable' = [deviceTable EXCEPT ![k] = Null]
            /\ activeDeviceList' = activeDeviceList \ gone
            /\ retired' = retired \cup gone
            /\ notices' = notices \cup ({"expired"} \X gone)
  /\ UNCHANGED <<deviceUpdateClock, deviceLifeTimeClock, updateExpired, deviceFactory,
                 InterfaceToHost, rescan, raised, orphaned, inputs>>

\* Second half: the sink.  It does not ask whether the key was renewed meanwhile.
\* The device is announced as expired only if it was listed.
DeviceLifeTimeClockSink(k) ==
  LET d == IF ContainsKey(k) THEN deviceTable[k].Device ELSE Null
      gone == {d} \cap activeDeviceList IN
  /\ lifeTimeExpired[k] > 0
  /\ lifeTimeExpired' = [lifeTimeExpired EXCEPT ![k] = @ - 1]
  /\ deviceTable' = [deviceTable EXCEPT ![k] = Null]
  /\ deviceUpdateClock' = IF ContainsKey(k) THEN deviceUpdateClock \ {k}
                                            ELSE deviceUpdateClock
  /\ activeDeviceList' = activeDeviceList \ gone
  /\ retired' = retired \cup gone
  /\ notices' = notices \cup ({"expired"} \X gone)
  /\ UNCHANGED <<deviceLifeTimeClock, updateExpired, deviceFactory, InterfaceToHost,
                 rescan, raised, orphaned, inputs>>

UpdateExpires(k) ==
  /\ k \in deviceUpdateClock
  /\ deviceUpdateClock' = deviceUpdateClock \ {k}
  /\ updateExpired' = [updateExpired EXCEPT ![k] = @ + 1]
  /\ UNCHANGED <<deviceTable, activeDeviceList, deviceLifeTimeClock, lifeTimeExpired,
                 deviceFactory, InterfaceToHost, rescan, events, inputs>>

\* The source switch, which also fetches the description from there (UpdateDevice).
\* If that request cannot be made, nothing is switched.  The pending source stays in
\* the record.
DeviceUpdateClockSink(k) ==
  /\ updateExpired[k] > 0
  /\ updateExpired' = [updateExpired EXCEPT ![k] = @ - 1]
  /\ IF ContainsKey(k) /\ deviceTable[k].PendingBaseURL \notin {Null} \cup Refused
       THEN /\ deviceTable' = [deviceTable EXCEPT
                                 ![k].BaseURL = deviceTable[k].PendingBaseURL]
            /\ InterfaceToHost' = [InterfaceToHost EXCEPT
                 ![deviceTable[k].Device] = IF @ = "local" THEN "switching" ELSE @]
            /\ deviceLifeTimeClock' = deviceLifeTimeClock \cup {deviceTable[k].UDN}
       ELSE UNCHANGED <<deviceTable, InterfaceToHost, deviceLifeTimeClock>>
  /\ UNCHANGED <<activeDeviceList, lifeTimeExpired, deviceUpdateClock, deviceFactory,
                 rescan, events, inputs>>

\* UPnPDevice.UpdateDeviceSink: the device takes over the address of the switch's
\* own creation, which UpdateDevice was given none for.
UpdateDeviceSink(c) ==
  /\ InterfaceToHost[c] = "switching"
  /\ InterfaceToHost' = [InterfaceToHost EXCEPT ![c] = "null"]
  /\ UNCHANGED <<deviceTable, activeDeviceList, clocks, deviceFactory, rescan, events,
                 inputs>>

----------------------------------------------------------------------------
\* Mutated form of DeviceFactoryFailedSink: the record is left in creation mode.
DeviceFactoryFailedSinkIgnored(c) ==
  /\ deviceFactory[c].state \in {"running", "failed"}
  /\ deviceFactory' = [deviceFactory EXCEPT ![c].state = "failed"]
  /\ UNCHANGED <<deviceTable, orphaned, activeDeviceList, clocks, InterfaceToHost,
                 rescan, notices, raised, retired, inputs>>

\* DeviceFactoryFailedSink; the factory may call it several times.  Whatever is
\* recorded under the UDN goes, a device that another creation delivered too.
\* For a forced device the UDN is null and the sink throws.
DeviceFactoryFailedSink(c) ==
  LET u == deviceFactory[c].urn IN
  /\ deviceFactory[c].state \in {"running", "failed"}
  /\ deviceFactory' = [deviceFactory EXCEPT ![c].state = "failed"]
  /\ IF u # Null
       THEN /\ deviceTable' = [deviceTable EXCEPT ![u] = Null]
            /\ orphaned' = orphaned \cup RemovedDevices({u})
       ELSE UNCHANGED <<deviceTable, orphaned>>
  /\ UNCHANGED <<activeDeviceList, clocks, InterfaceToHost, rescan, notices, raised,
                 retired, inputs>>

\* DeviceFactoryCreationSink up to its lock: the creation delivers its device, and
\* goes on only if there is a record for it or for a forced device.
DeviceFactoryCreationCheck(c) ==
  /\ deviceFactory[c].state = "running"
  /\ deviceFactory' = [deviceFactory EXCEPT ![c].state =
       IF ContainsKey(deviceFactory[c].udn) \/ ContainsKey(FORCEDDEVICE)
         THEN "checked" ELSE "done"]
  /\ UNCHANGED <<deviceTable, activeDeviceList, clocks, InterfaceToHost, rescan, events,
                 inputs>>

\* Mutated form of Install: the lifetime is not started.
InstallUntimed(c, u) ==
  LET key == IF ContainsKey(u) THEN u ELSE FORCEDDEVICE IN
  /\ ContainsKey(key) /\ deviceTable[key].Device = Null
  /\ deviceTable' = [deviceTable EXCEPT
       ![key] = Null, ![u] = [deviceTable[key] EXCEPT !.Device = c]]
  /\ activeDeviceList' = activeDeviceList \cup {c}
  /\ notices' = notices \cup {<<"added", c>>}
  /\ UNCHANGED <<deviceLifeTimeClock, orphaned>>

\* The device object c gets the record under u, the forced device's if there is
\* none for its own UDN, is listed, and will be announced.
Install(c, u) ==
  LET key == IF ContainsKey(u) THEN u ELSE FORCEDDEVICE
      info == [deviceTable[key] EXCEPT !.Device = c]
  IN
  /\ ContainsKey(key) /\ deviceTable[key].Device = Null
  /\ \/ /\ deviceTable' = [deviceTable EXCEPT ![key] = Null, ![u] = info]
        /\ deviceLifeTimeClock' = deviceLifeTimeClock \cup {u}
        /\ UNCHANGED orphaned
     \* A lifetime of 0 expires inside deviceLifeTimeClock.Add, on this thread and
     \* under this lock: the sink drops the record before the device is listed.
     \/ /\ deviceFactory[c].short
        /\ deviceTable' = [deviceTable EXCEPT ![key] = Null, ![u] = Null]
        /\ deviceLifeTimeClock' = deviceLifeTimeClock \ {u}
        /\ orphaned' = orphaned \cup {c}
  /\ activeDeviceList' = activeDeviceList \cup {c}
  /\ notices' = notices \cup {<<"added", c>>}

\* DeviceFactoryCreationSink under its lock.  The record may have gone since the
\* check (the cast of null throws) or already have a device (the new one is
\* dropped).
DeviceFactoryCreationSink(c) ==
  LET u == deviceFactory[c].udn IN
  /\ deviceFactory[c].state = "checked"
  /\ deviceFactory' = [deviceFactory EXCEPT ![c].state = "done"]
  /\ \/ Install(c, u)
     \/ /\ \/ ~ContainsKey(u) /\ ~ContainsKey(FORCEDDEVICE)
           \/ ContainsKey(u) /\ deviceTable[u].Device # Null
        /\ UNCHANGED <<deviceTable, deviceLifeTimeClock, activeDeviceList, notices,
                       orphaned>>
  /\ UNCHANGED <<lifeTimeExpired, deviceUpdateClock, updateExpired, InterfaceToHost,
                 rescan, raised, retired, inputs>>

\* A thread that has left the lock raises the event it owes.
Fire(n) ==
  /\ n \in notices
  /\ notices' = notices \ {n}
  /\ raised' = raised \cup {n}
  /\ UNCHANGED <<deviceTable, activeDeviceList, clocks, deviceFactory, InterfaceToHost,
                 rescan, retired, orphaned, inputs>>

----------------------------------------------------------------------------
Announce ==
  \E u \in UDN, url \in Url \cup {Null}, short \in BOOLEAN :
    SSDPNotifySinkAlive(u, url, short) \/ UPnPControlPointSearchSink(u, url, short)

ByeBye == \E u \in UDN : SSDPNotifySinkByeBye(u)

InterfaceLost == \E S \in SUBSET activeDeviceList : NetworkInfoOldInterfaceSink(S)

ForceDevice == \E url \in Url, udn \in UDN : ForceDeviceAddition(url, udn)

Clock(k) ==
  \/ LifeTimeExpires(k) \/ DeviceLifeTimeClockSink(k)
  \/ UpdateExpires(k) \/ DeviceUpdateClockSink(k)

Factory(c) ==
  \/ DeviceFactoryFailedSink(c)
  \/ DeviceFactoryCreationCheck(c)
  \/ DeviceFactoryCreationSink(c)
  \/ UpdateDeviceSink(c)

Next ==
  \/ Announce
  \/ ByeBye
  \/ InterfaceLost
  \/ Rescan
  \/ ForceDevice
  \/ \E k \in Key : RescanAdd(k)
  \/ \E k \in Key : Clock(k)
  \/ \E c \in Creation : Factory(c)
  \/ \E n \in notices : Fire(n)

\* An armed clock entry expires and its sink runs (LifeTimeMonitor loses no entry),
\* a rescan ends, a thread that owes an event raises it.  Nothing is assumed of
\* the network, nor that a creation is ever answered.
Fairness ==
  /\ \A k \in Key : /\ WF_vars(LifeTimeExpires(k)) /\ WF_vars(DeviceLifeTimeClockSink(k))
                    /\ WF_vars(UpdateExpires(k)) /\ WF_vars(DeviceUpdateClockSink(k))
                    /\ WF_vars(RescanAdd(k))
  /\ WF_vars(\E n \in notices : Fire(n))

Safety == Init /\ [][Next]_vars

Spec == Safety /\ Fairness

----------------------------------------------------------------------------
\* The record under k holds the device object c.
Holds(k, c) == ContainsKey(k) /\ deviceTable[k].Device = c

\* A device that is tracked cannot be forgotten: its key is on the lifetime clock,
\* or has been taken off it by an expiry whose sink still has to run.  This is
\* what replaces a byebye that was lost, in spite of refreshes and removals that
\* use the record's UDN field, of stale expiries and of Rescan.
LifetimeCovered ==
  \A k \in Key, c \in Creation :
    Holds(k, c) => k \in deviceLifeTimeClock \/ lifeTimeExpired[k] > 0

\* A device that GetCurrentDevices returns is the one in the record of its UDN,
\* and the other way round, so that there is one per UDN; the exceptions are the
\* devices whose record was removed by the late failure of another creation or by
\* a lifetime of 0.
ActiveTracked ==
  /\ \A c \in activeDeviceList : c \in orphaned \/ Holds(deviceFactory[c].udn, c)
  /\ \A k \in Key, c \in Creation :
       Holds(k, c) => c \in activeDeviceList /\ deviceFactory[c].udn = k

\* A record in creation mode ignores every announcement, so a creation that can
\* still end that mode must be on its way.  The exception is a record whose URL
\* CreateDevice threw for (none, or one that is no http URL): only a byebye, or the
\* expiry after a rescan, ends its creation mode.
CreationCovered ==
  \A u \in UDN :
    Holds(u, Null) =>
      \/ deviceTable[u].BaseURL \in {Null} \cup Refused
      \/ \E c \in Creation : /\ deviceFactory[c].urn = u
                            /\ deviceFactory[c].state \in {"running", "checked"}

\* A timer for a source change that outlived its device finds nothing to switch
\* in the record of the next device under that UDN while it is being created.
StaleSwitchHarmless ==
  \A k \in Key :
    (updateExpired[k] > 0 /\ Holds(k, Null)) => deviceTable[k].PendingBaseURL = Null

-----------------------------------------------------------------------------
\* The facts about records and creations that the invariants above rest on.

\* The UDN field differs from the key only in a record made for a forced device.
RecordUDN ==
  \A k \in Key : ContainsKey(k) => deviceTable[k].UDN \in {k, FORCEDDEVICE}

\* A record in creation mode has no pending source.
PendingNeedsDevice ==
  \A k \in Key : Holds(k, Null) => deviceTable[k].PendingBaseURL = Null

\* Only a finished creation is or was listed.
ListedDone ==
  \A c \in activeDeviceList \cup retired : deviceFactory[c].state = "done"

\* The factory delivers only the device that was announced.
PromisedUDN ==
  \A c \in Creation : deviceFactory[c].urn \in {Null, deviceFactory[c].udn}

\* The inductive invariant.
IInv ==
  /\ TypeOK
  /\ LifetimeCovered /\ ActiveTracked /\ CreationCovered
  /\ RecordUDN /\ PendingNeedsDevice /\ ListedDone /\ PromisedUDN

-----------------------------------------------------------------------------
Directory == INSTANCE DeviceDirectory WITH
  Device <- Creation, listed <- activeDeviceList, owed <- notices, told <- raised

\* To its listeners the control point is the directory DeviceDirectory describes:
\* each object enters and leaves at most once, and an event is owed only for an
\* object that entered or left by the same step.
ImplementsDeviceDirectory == Directory!Spec

\* Once the announcements end, every device that has a record loses it: a device
\* that fell silent is dropped even if its byebye was lost.
SilentDeviceReaped ==
  \A c \in Creation :
    (\E k \in Key : Holds(k, c)) ~> ~(\E k \in Key : Holds(k, c))

\* "Hardening - Creating a device we have should never happen": no creation that is
\* about to be installed finds its record taken.
NoUnexpectedCreation ==
  \A c \in Creation :
    deviceFactory[c].state = "checked" =>
      \A d \in Creation : ~Holds(deviceFactory[c].udn, d)
=============================================================================
