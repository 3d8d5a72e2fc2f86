---------------- MODULE UPnPInternalSmartControlPoint_proof ----------------
(***************************************************************************)
(* Proofs about UPnPInternalSmartControlPoint, for any sets of UDNs, URLs  *)
(* and creations and any number of inputs.                                 *)
(*                                                                         *)
(* The invariants about the table, the list and the clock need each other  *)
(* and three facts about records and creations: IInv is their conjunction. *)
(***************************************************************************)
EXTENDS UPnPInternalSmartControlPoint, TLAPS

\* Every step is a stutter or one of the actions below: the goal of an invariance
\* proof is split in this one place.
LEMMA NextCases ==
  ASSUME [Next]_vars
  PROVE
    \/ \E u \in UDN, url \in Url \cup {Null}, short \in BOOLEAN : AnnounceNew(u, url, short)
    \/ \E u \in UDN, url \in Url \cup {Null} : AnnounceSameSource(u, url)
    \/ \E u \in UDN, url \in Url \cup {Null}, stored \in BOOLEAN :
          AnnounceOtherSource(u, url, stored)
    \/ \E u \in UDN : SSDPNotifySinkByeBye(u)
    \/ \E S \in SUBSET activeDeviceList : NetworkInfoOldInterfaceSink(S)
    \/ Rescan
    \/ \E url \in Url, udn \in UDN : ForceDeviceAddition(url, udn)
    \/ \E k \in Key : RescanAdd(k)
    \/ \E k \in Key : LifeTimeExpires(k)
    \/ \E k \in Key : DeviceLifeTimeClockSink(k)
    \/ \E k \in Key : UpdateExpires(k)
    \/ \E k \in Key : DeviceUpdateClockSink(k)
    \/ \E c \in Creation : DeviceFactoryFailedSink(c)
    \/ \E c \in Creation : DeviceFactoryCreationCheck(c)
    \/ \E c \in Creation : DeviceFactoryCreationSink(c)
    \/ \E c \in Creation : UpdateDeviceSink(c)
    \/ \E n \in notices : Fire(n)
    \/ UNCHANGED vars
<1>1. CASE Announce
  <2>1. PICK u \in UDN, url \in Url \cup {Null}, short \in BOOLEAN :
           SSDPNotifySinkAlive(u, url, short) \/ UPnPControlPointSearchSink(u, url, short)
    BY <1>1 DEF Announce
  <2>2. \/ AnnounceNew(u, url, short) \/ AnnounceSameSource(u, url)
        \/ AnnounceOtherSource(u, url, TRUE) \/ AnnounceOtherSource(u, url, FALSE)
    BY <2>1 DEF SSDPNotifySinkAlive, UPnPControlPointSearchSink
  <2>. QED BY <2>2
<1>2. CASE ByeBye
  BY <1>2 DEF ByeBye
<1>3. CASE InterfaceLost
  BY <1>3 DEF InterfaceLost
<1>4. CASE ForceDevice
  BY <1>4 DEF ForceDevice
<1>5. CASE \E k \in Key : Clock(k)
  BY <1>5 DEF Clock
<1>6. CASE \E c \in Creation : Factory(c)
  BY <1>6 DEF Factory
<1>7. \/ Announce \/ ByeBye \/ InterfaceLost \/ Rescan \/ ForceDevice
      \/ \E k \in Key : RescanAdd(k)
      \/ \E k \in Key : Clock(k)
      \/ \E c \in Creation : Factory(c)
      \/ \E n \in notices : Fire(n)
      \/ UNCHANGED vars
  BY Zenon DEF Next
<1>. QED
  BY <1>1, <1>2, <1>3, <1>4, <1>5, <1>6, <1>7, Zenon

-----------------------------------------------------------------------------
\* What UnprotectedRemoveMe returns are device objects.
LEMMA RemovedDevicesType ==
  ASSUME TypeOK, NEW U
  PROVE  RemovedDevices(U) \subseteq Creation
BY DEF TypeOK, RemovedDevices, ContainsKey, DeviceInfo

\* A new record and its creation, if it starts, are well typed.
LEMMA StoreAndCreateType ==
  ASSUME TypeOK, NEW k \in Key, NEW url \in Url \cup {Null},
         NEW urn \in UDN \cup {Null}, NEW udn \in UDN, NEW short \in BOOLEAN,
         StoreAndCreate(k, url, urn, udn, short)
  PROVE  /\ deviceTable' \in [Key -> DeviceInfo \cup {Null}]
         /\ deviceFactory' \in [Creation -> CreationState]
         /\ InterfaceToHost' \in [Creation -> {"local", "switching", "null"}]
<1>1. [state |-> "running", urn |-> urn, udn |-> udn, short |-> short] \in CreationState
  BY DEF CreationState
<1>2. NewInfo(k, url) \in DeviceInfo
  BY DEF NewInfo, DeviceInfo
<1>3. deviceTable' \in [Key -> DeviceInfo \cup {Null}]
  BY <1>2 DEF TypeOK, StoreAndCreate
<1>4. CASE CreateDevice(urn, udn, short)
  <2>1. deviceFactory' \in [Creation -> CreationState]
    BY <1>1, <1>4 DEF TypeOK, CreateDevice
  <2>2. InterfaceToHost' \in [Creation -> {"local", "switching", "null"}]
    BY <1>4 DEF TypeOK, CreateDevice
  <2>. QED
    BY <1>3, <2>1, <2>2
<1>5. CASE UNCHANGED <<deviceFactory, InterfaceToHost>>
  BY <1>3, <1>5 DEF TypeOK
<1>. QED
  BY <1>4, <1>5 DEF StoreAndCreate

\* No step of any handler takes a variable out of its type.
LEMMA TypeStep == TypeOK /\ [Next]_vars => TypeOK'
<1> SUFFICES ASSUME TypeOK, [Next]_vars PROVE TypeOK'
  OBVIOUS
<1> USE SmartControlPointAssumption
<1>0. Input => inputs' \in 0..MaxInputs
  BY DEF Input, TypeOK
<1>1. ASSUME NEW u \in UDN, NEW url \in Url \cup {Null}, NEW short \in BOOLEAN,
             AnnounceNew(u, url, short)
      PROVE  TypeOK'
  <2>1. /\ deviceTable' \in [Key -> DeviceInfo \cup {Null}]
        /\ deviceFactory' \in [Creation -> CreationState]
        /\ InterfaceToHost' \in [Creation -> {"local", "switching", "null"}]
    <3>1. StoreAndCreate(u, url, u, u, short) /\ u \in Key /\ u \in UDN \cup {Null}
      BY <1>1 DEF AnnounceNew, Key
    <3>. QED
      BY <3>1, StoreAndCreateType
  <2>. QED
    BY <1>0, <1>1, <2>1 DEF AnnounceNew, TypeOK, clocks, events
<1>2. ASSUME NEW u \in UDN, NEW url \in Url \cup {Null}, AnnounceSameSource(u, url)
      PROVE  TypeOK'
  <2>1. /\ deviceTable' \in [Key -> DeviceInfo \cup {Null}]
        /\ deviceLifeTimeClock' \subseteq Key
    BY <1>2 DEF AnnounceSameSource, ContainsKey, TypeOK, DeviceInfo, Key
  <2>. QED
    BY <1>0, <1>2, <2>1 DEF AnnounceSameSource, TypeOK, events
<1>3. ASSUME NEW u \in UDN, NEW url \in Url \cup {Null}, NEW stored \in BOOLEAN,
             AnnounceOtherSource(u, url, stored)
      PROVE  TypeOK'
  <2>1. /\ deviceTable' \in [Key -> DeviceInfo \cup {Null}]
        /\ deviceUpdateClock' \subseteq Key
    BY <1>3 DEF AnnounceOtherSource, ContainsKey, TypeOK, DeviceInfo, Key
  <2>. QED
    BY <1>0, <1>3, <2>1 DEF AnnounceOtherSource, TypeOK, events
<1>4. ASSUME NEW u \in UDN, SSDPNotifySinkByeBye(u)
      PROVE  TypeOK'
  <2>1. RemovedDevices({u}) \subseteq Creation
    BY RemovedDevicesType
  <2>. QED
    BY <1>0, <1>4, <2>1 DEF SSDPNotifySinkByeBye, UnprotectedRemoveMe, TypeOK, Notice
<1>5. ASSUME NEW S \in SUBSET activeDeviceList, NetworkInfoOldInterfaceSink(S)
      PROVE  TypeOK'
  <2> DEFINE U == {deviceFactory[c].udn : c \in S}
  <2>1. RemovedDevices(U) \subseteq Creation
    BY RemovedDevicesType
  <2>2. notices' \subseteq Notice
    BY <1>5, <2>1 DEF NetworkInfoOldInterfaceSink, TypeOK, Notice
  <2>. QED
    BY <1>0, <1>5, <2>1, <2>2 DEF NetworkInfoOldInterfaceSink, UnprotectedRemoveMe, TypeOK
<1>6. CASE Rescan
  BY <1>0, <1>6 DEF Rescan, TypeOK, clocks, events
<1>7. ASSUME NEW url \in Url, NEW udn \in UDN, ForceDeviceAddition(url, udn)
      PROVE  TypeOK'
  <2>1. /\ deviceTable' \in [Key -> DeviceInfo \cup {Null}]
        /\ deviceFactory' \in [Creation -> CreationState]
        /\ InterfaceToHost' \in [Creation -> {"local", "switching", "null"}]
    BY <1>7, StoreAndCreateType DEF ForceDeviceAddition, Key
  <2>. QED
    BY <1>0, <1>7, <2>1 DEF ForceDeviceAddition, TypeOK, clocks, events
<1>8. ASSUME NEW k \in Key, RescanAdd(k)
      PROVE  TypeOK'
  BY <1>8 DEF RescanAdd, TypeOK, events
<1>9. ASSUME NEW k \in Key, LifeTimeExpires(k)
      PROVE  TypeOK'
  BY <1>9 DEF LifeTimeExpires, TypeOK, events
<1>10. ASSUME NEW k \in Key, DeviceLifeTimeClockSink(k)
       PROVE  TypeOK'
  BY <1>10 DEF DeviceLifeTimeClockSink, TypeOK, Notice
<1>11. ASSUME NEW k \in Key, UpdateExpires(k)
       PROVE  TypeOK'
  BY <1>11 DEF UpdateExpires, TypeOK, events
<1>12. ASSUME NEW k \in Key, DeviceUpdateClockSink(k)
       PROVE  TypeOK'
  <2>1. /\ deviceTable' \in [Key -> DeviceInfo \cup {Null}]
        /\ deviceLifeTimeClock' \subseteq Key
    BY <1>12 DEF DeviceUpdateClockSink, ContainsKey, TypeOK, DeviceInfo
  <2>2. updateExpired' \in [Key -> Nat]
    BY <1>12 DEF DeviceUpdateClockSink, TypeOK
  <2>3. InterfaceToHost' \in [Creation -> {"local", "switching", "null"}]
    BY <1>12 DEF DeviceUpdateClockSink, TypeOK
  <2>. QED
    BY <1>12, <2>1, <2>2, <2>3 DEF DeviceUpdateClockSink, TypeOK, events
<1>13. ASSUME NEW c \in Creation, DeviceFactoryFailedSink(c)
       PROVE  TypeOK'
  <2>1. deviceFactory' \in [Creation -> CreationState]
    BY <1>13 DEF DeviceFactoryFailedSink, TypeOK, CreationState
  <2>2. /\ deviceTable' \in [Key -> DeviceInfo \cup {Null}]
        /\ orphaned' \subseteq Creation
    BY <1>13
    DEF DeviceFactoryFailedSink, TypeOK, RemovedDevices, ContainsKey, DeviceInfo,
        CreationState, Key
  <2>. QED
    BY <1>13, <2>1, <2>2 DEF DeviceFactoryFailedSink, TypeOK, clocks
<1>14. ASSUME NEW c \in Creation, DeviceFactoryCreationCheck(c)
       PROVE  TypeOK'
  <2>1. deviceFactory' \in [Creation -> CreationState]
    <3>1. PICK next \in {"checked", "done"} :
             deviceFactory' = [deviceFactory EXCEPT ![c].state = next]
      BY <1>14 DEF DeviceFactoryCreationCheck
    <3>2. [deviceFactory[c] EXCEPT !.state = next] \in CreationState
      BY <1>14 DEF DeviceFactoryCreationCheck, TypeOK, CreationState
    <3>. QED
      BY <3>1, <3>2 DEF TypeOK
  <2>. QED
    BY <1>14, <2>1 DEF DeviceFactoryCreationCheck, TypeOK, clocks, events
<1>15. ASSUME NEW c \in Creation, DeviceFactoryCreationSink(c)
       PROVE  TypeOK'
  <2>1. deviceFactory' \in [Creation -> CreationState]
    BY <1>15 DEF DeviceFactoryCreationSink, TypeOK, CreationState
  <2>2. /\ deviceTable' \in [Key -> DeviceInfo \cup {Null}]
        /\ deviceLifeTimeClock' \subseteq Key
        /\ activeDeviceList' \subseteq Creation
        /\ notices' \subseteq Notice
        /\ orphaned' \subseteq Creation
    <3>1. CASE Install(c, deviceFactory[c].udn)
      <4> DEFINE u == deviceFactory[c].udn
                 key == IF ContainsKey(u) THEN u ELSE FORCEDDEVICE
                 info == [deviceTable[key] EXCEPT !.Device = c]
      <4>1. u \in Key /\ key \in Key
        BY <1>15 DEF TypeOK, CreationState, DeviceFactoryCreationSink, Key
      <4>2. ContainsKey(key)
        BY <3>1 DEF Install
      <4>3. deviceTable' \in [Key -> DeviceInfo \cup {Null}]
        BY <3>1, <4>1, <4>2 DEF Install, ContainsKey, TypeOK, DeviceInfo, Key
      <4>. QED
        BY <3>1, <4>1, <4>3 DEF Install, TypeOK, Notice
    <3>2. CASE UNCHANGED <<deviceTable, deviceLifeTimeClock, activeDeviceList,
                           notices, orphaned>>
      BY <3>2 DEF TypeOK
    <3>. QED
      BY <1>15, <3>1, <3>2 DEF DeviceFactoryCreationSink
  <2>. QED
    BY <1>15, <2>1, <2>2 DEF DeviceFactoryCreationSink, TypeOK
<1>16. ASSUME NEW n \in notices, Fire(n)
       PROVE  TypeOK'
  BY <1>16 DEF Fire, TypeOK, clocks
<1>17. CASE UNCHANGED vars
  BY <1>17 DEF vars, clocks, events, TypeOK
<1>18. ASSUME NEW c \in Creation, UpdateDeviceSink(c)
       PROVE  TypeOK'
  <2>1. InterfaceToHost' \in [Creation -> {"local", "switching", "null"}]
    BY <1>18 DEF UpdateDeviceSink, TypeOK
  <2>. QED
    BY <1>18, <2>1 DEF UpdateDeviceSink, TypeOK, clocks, events
<1>. QED
  BY <1>1, <1>2, <1>3, <1>4, <1>5, <1>6, <1>7, <1>8, <1>9, <1>10, <1>11, <1>12,
     <1>13, <1>14, <1>15, <1>16, <1>17, <1>18, NextCases

\* Type correctness.
THEOREM TypeCorrect == Safety => []TypeOK
<1>1. Init => TypeOK
  BY SmartControlPointAssumption DEF Init, TypeOK, CreationState
<1>2. TypeOK /\ [Next]_vars => TypeOK'
  BY TypeStep
<1>. QED
  BY <1>1, <1>2, PTL DEF Safety

-----------------------------------------------------------------------------
\* A record that holds a device object is that device's own record: it is never
\* the one of the forced device, whose key no description can name.
LEMMA DevicesUnderTheirUDN ==
  ASSUME IInv, NEW k \in Key, NEW c \in Creation, Holds(k, c)
  PROVE  k \in UDN /\ k # FORCEDDEVICE /\ c \in activeDeviceList /\ deviceFactory[c].udn = k
<1>1. c \in activeDeviceList /\ deviceFactory[c].udn = k
  BY DEF IInv, ActiveTracked
<1>2. deviceFactory[c].state = "done"
  BY <1>1 DEF IInv, ListedDone
<1>3. deviceFactory[c].udn \in UDN
  BY <1>2 DEF IInv, TypeOK, CreationState
<1>. QED
  BY <1>1, <1>3, SmartControlPointAssumption

\* The objects UnprotectedRemoveMe returns are those held under the keys removed,
\* all of them listed.
LEMMA RemovedDevicesHeld ==
  ASSUME IInv, NEW U, NEW c
  PROVE  /\ c \in RemovedDevices(U) <=> c \in Creation /\ \E k \in Key \cap U : Holds(k, c)
         /\ c \in RemovedDevices(U) => c \in activeDeviceList
<1>1. RemovedDevices(U) \subseteq Creation
  BY RemovedDevicesType DEF IInv
<1>2. c \in RemovedDevices(U) <=> c \in Creation /\ \E k \in Key \cap U : Holds(k, c)
  BY <1>1, SmartControlPointAssumption DEF RemovedDevices, Holds
<1>. QED
  BY <1>2 DEF IInv, ActiveTracked

\* UnprotectedRemoveMe preserves every part of the invariant, whichever notices its
\* caller will raise.
LEMMA RemoveMeStep ==
  ASSUME IInv, TypeOK', NEW U, UnprotectedRemoveMe(U), UNCHANGED deviceFactory
  PROVE  IInv'
<1> USE SmartControlPointAssumption
<1>1. ASSUME NEW k \in Key
      PROVE  deviceTable'[k] = IF k \in U THEN Null ELSE deviceTable[k]
  BY <1>1 DEF UnprotectedRemoveMe
<1>2. ASSUME NEW k \in Key, NEW c
      PROVE  Holds(k, c)' <=> k \notin U /\ Holds(k, c)
  BY <1>1, <1>2 DEF Holds, ContainsKey
<1>3. LifetimeCovered'
  <2> SUFFICES ASSUME NEW k \in Key, NEW c \in Creation, k \notin U, Holds(k, c)
               PROVE  k \in deviceLifeTimeClock' \/ lifeTimeExpired'[k] > 0
    BY <1>2 DEF LifetimeCovered
  <2>1. k # FORCEDDEVICE
    BY DevicesUnderTheirUDN
  <2>2. k \notin {deviceTable[v].UDN : v \in {w \in Key \cap U : ContainsKey(w)}}
    BY <2>1 DEF IInv, RecordUDN
  <2>. QED
    BY <2>2 DEF UnprotectedRemoveMe, IInv, LifetimeCovered
<1>4. ActiveTracked'
  <2>1. ASSUME NEW c \in activeDeviceList'
        PROVE  c \in orphaned' \/ Holds(deviceFactory[c].udn, c)'
    <3>1. /\ c \in activeDeviceList /\ c \in Creation
          /\ c \notin RemovedDevices(U)
      BY <2>1 DEF UnprotectedRemoveMe, IInv, TypeOK
    <3>2. CASE c \in orphaned
      BY <3>2 DEF UnprotectedRemoveMe
    <3>3. CASE Holds(deviceFactory[c].udn, c)
      <4>1. deviceFactory[c].udn \in Key
        BY <3>1 DEF IInv, TypeOK, CreationState, ListedDone, Key
      <4>. QED
        BY <1>2, <3>1, <3>3, <4>1, RemovedDevicesHeld
    <3>. QED
      BY <3>1, <3>2, <3>3 DEF IInv, ActiveTracked
  <2>2. ASSUME NEW k \in Key, NEW c \in Creation, Holds(k, c)'
        PROVE  c \in activeDeviceList' /\ deviceFactory[c].udn = k
    <3>1. k \notin U /\ Holds(k, c)
      BY <1>2, <2>2
    <3>2. c \in activeDeviceList /\ deviceFactory[c].udn = k
      BY <3>1 DEF IInv, ActiveTracked
    <3>3. c \notin RemovedDevices(U)
      BY <3>1, <3>2, RemovedDevicesHeld, DevicesUnderTheirUDN
    <3>. QED
      BY <3>2, <3>3 DEF UnprotectedRemoveMe
  <2>. QED
    BY <2>1, <2>2 DEF ActiveTracked, Holds, ContainsKey
<1>5. CreationCovered'
  BY <1>1, <1>2 DEF IInv, CreationCovered, Key
<1>6. RecordUDN' /\ PendingNeedsDevice'
  BY <1>1, <1>2 DEF IInv, RecordUDN, PendingNeedsDevice, ContainsKey
<1>7. ListedDone' /\ PromisedUDN'
  BY RemovedDevicesHeld DEF UnprotectedRemoveMe, IInv, ListedDone, PromisedUDN
<1>. QED
  BY <1>3, <1>4, <1>5, <1>6, <1>7 DEF IInv

\* A step that changes no record's device, its UDN field or the list, takes nothing
\* off the lifetime clock and forgets no creation preserves what speaks of those.
LEMMA SameDevicesStep ==
  ASSUME IInv, TypeOK',
         \A k \in Key : ContainsKey(k)' <=> ContainsKey(k),
         \A k \in Key : ContainsKey(k) =>
             /\ deviceTable'[k].Device = deviceTable[k].Device
             /\ deviceTable'[k].UDN = deviceTable[k].UDN,
         UNCHANGED <<activeDeviceList, retired>>, orphaned \subseteq orphaned',
         \A k \in Key : \/ k \in deviceLifeTimeClock' \/ lifeTimeExpired'[k] > 0
                        \/ k \notin deviceLifeTimeClock /\ ~(lifeTimeExpired[k] > 0),
         \A c \in Creation : deviceFactory[c].state = "done" =>
             deviceFactory'[c] = deviceFactory[c]
  PROVE  LifetimeCovered' /\ ActiveTracked' /\ RecordUDN' /\ ListedDone'
<1>1. ASSUME NEW k \in Key, NEW c
      PROVE  Holds(k, c)' <=> Holds(k, c)
  BY <1>1 DEF Holds
<1>2. LifetimeCovered'
  BY <1>1 DEF IInv, LifetimeCovered
<1>3. RecordUDN'
  BY DEF IInv, RecordUDN
<1>4. ListedDone'
  BY DEF IInv, ListedDone, TypeOK
<1>5. ActiveTracked'
  <2>1. ASSUME NEW c \in activeDeviceList'
        PROVE  (c \in orphaned \/ Holds(deviceFactory[c].udn, c))'
    <3>1. c \in activeDeviceList /\ c \in Creation
      BY DEF IInv, TypeOK
    <3>2. deviceFactory'[c] = deviceFactory[c] /\ deviceFactory[c].udn \in Key
      BY <3>1 DEF IInv, ListedDone, TypeOK, CreationState, Key
    <3>3. CASE c \in orphaned
      BY <3>3
    <3>4. CASE Holds(deviceFactory[c].udn, c)
      <4>1. deviceTable'[deviceFactory[c].udn] # Null
            /\ deviceTable'[deviceFactory[c].udn].Device = c
        BY <3>2, <3>4 DEF Holds, ContainsKey
      <4>. QED
        BY <3>2, <4>1 DEF Holds, ContainsKey
    <3>. QED
      BY <3>1, <3>3, <3>4 DEF IInv, ActiveTracked
  <2>2. ASSUME NEW k \in Key, NEW c \in Creation, Holds(k, c)'
        PROVE  (c \in activeDeviceList /\ deviceFactory[c].udn = k)'
    BY <1>1, <2>2 DEF IInv, ActiveTracked, ListedDone
  <2>. QED
    BY <2>1, <2>2 DEF ActiveTracked, Holds, ContainsKey
<1>. QED
  BY <1>2, <1>3, <1>4, <1>5

\* A creation that starts: it was unused, expects the UDN it was started with (or
\* none), and leaves every other creation alone.  It starts unless the URL is one
\* that CreateDevice throws for.
LEMMA StoreAndCreateStep ==
  ASSUME IInv, NEW k \in Key, NEW url \in Url \cup {Null}, NEW urn \in UDN \cup {Null},
         NEW udn \in UDN, NEW short \in BOOLEAN, urn \in {Null, udn},
         StoreAndCreate(k, url, urn, udn, short)
  PROVE  /\ \A c \in Creation : deviceFactory[c].state # "unused" =>
               deviceFactory'[c] = deviceFactory[c]
         /\ \/ url \in {Null} \cup Refused
            \/ \E c \in Creation : deviceFactory'[c].urn = urn
                                  /\ deviceFactory'[c].state = "running"
         /\ PromisedUDN'
<1>1. CASE url \in Url \ Refused
  <2>1. CreateDevice(urn, udn, short)
    BY <1>1 DEF StoreAndCreate
  <2>. QED
    BY <2>1 DEF IInv, TypeOK, CreateDevice, PromisedUDN
<1>2. CASE url \notin Url \ Refused
  <2>1. UNCHANGED deviceFactory
    BY <1>2 DEF StoreAndCreate
  <2>. QED
    BY <1>2, <2>1 DEF IInv, PromisedUDN
<1>. QED
  BY <1>1, <1>2

\* A new record in creation mode, under a key that holds no device, disturbs no
\* device; its own creation mode is the caller's to justify.
LEMMA NewRecordStep ==
  ASSUME IInv, TypeOK', NEW k \in Key, NEW url \in Url \cup {Null},
         \A c \in Creation : ~Holds(k, c),
         deviceTable' = [deviceTable EXCEPT ![k] = NewInfo(k, url)],
         UNCHANGED <<activeDeviceList, deviceLifeTimeClock, lifeTimeExpired, retired,
                     orphaned>>,
         \A c \in Creation : deviceFactory[c].state # "unused" =>
             deviceFactory'[c] = deviceFactory[c],
         k \in UDN => \/ url \in {Null} \cup Refused
                      \/ \E c \in Creation : deviceFactory'[c].urn = k
                                            /\ deviceFactory'[c].state = "running"
  PROVE  /\ LifetimeCovered' /\ ActiveTracked' /\ CreationCovered'
         /\ RecordUDN' /\ PendingNeedsDevice' /\ ListedDone'
<1> USE SmartControlPointAssumption
<1>1. /\ deviceTable'[k] = NewInfo(k, url)
      /\ NewInfo(k, url) # Null
      /\ \A j \in Key : j # k => deviceTable'[j] = deviceTable[j]
  BY DEF IInv, TypeOK, NewInfo, DeviceInfo
<1>2. ASSUME NEW j \in Key, NEW c \in Creation
      PROVE  Holds(j, c)' <=> Holds(j, c)
  BY <1>1, <1>2 DEF Holds, ContainsKey, NewInfo
<1>3. ASSUME NEW j \in Key, j # k
      PROVE  Holds(j, Null)' <=> Holds(j, Null)
  BY <1>1, <1>3 DEF Holds, ContainsKey
<1>4. LifetimeCovered'
  BY <1>2 DEF IInv, LifetimeCovered
<1>5. ListedDone'
  BY DEF IInv, ListedDone, TypeOK
<1>6. RecordUDN' /\ PendingNeedsDevice'
  BY <1>1, <1>3 DEF IInv, RecordUDN, PendingNeedsDevice, ContainsKey, NewInfo
<1>7. CreationCovered'
  <2> SUFFICES ASSUME NEW u \in UDN, Holds(u, Null)',
                      deviceTable'[u].BaseURL \notin {Null} \cup Refused
               PROVE  \E c \in Creation : /\ deviceFactory'[c].urn = u
                                          /\ deviceFactory'[c].state \in {"running", "checked"}
    BY DEF CreationCovered
  <2>1. u \in Key
    BY DEF Key
  <2>2. CASE u = k
    BY <1>1, <2>2 DEF NewInfo
  <2>3. CASE u # k
    BY <1>1, <1>3, <2>1, <2>3 DEF IInv, CreationCovered
  <2>. QED
    BY <2>2, <2>3
<1>8. ActiveTracked'
  <2>1. ASSUME NEW c \in activeDeviceList'
        PROVE  (c \in orphaned \/ Holds(deviceFactory[c].udn, c))'
    <3>1. c \in activeDeviceList /\ c \in Creation
      BY DEF IInv, TypeOK
    <3>2. deviceFactory'[c] = deviceFactory[c] /\ deviceFactory[c].udn \in Key
      BY <3>1 DEF IInv, ListedDone, TypeOK, CreationState, Key
    <3>3. CASE c \in orphaned
      BY <3>3
    <3>4. CASE Holds(deviceFactory[c].udn, c)
      BY <1>1, <3>1, <3>2, <3>4 DEF Holds, ContainsKey
    <3>. QED
      BY <3>1, <3>3, <3>4 DEF IInv, ActiveTracked
  <2>2. ASSUME NEW j \in Key, NEW c \in Creation, Holds(j, c)'
        PROVE  (c \in activeDeviceList /\ deviceFactory[c].udn = j)'
    BY <1>2, <2>2 DEF IInv, ActiveTracked, ListedDone
  <2>. QED
    BY <2>1, <2>2 DEF ActiveTracked, Holds, ContainsKey
<1>. QED
  BY <1>4, <1>5, <1>6, <1>7, <1>8

-----------------------------------------------------------------------------
\* The device is installed, or its creation comes too late: the step of the factory
\* that moves a record from creation mode to a listed device.
LEMMA CreationSinkStep ==
  ASSUME IInv, TypeOK', NEW c \in Creation, DeviceFactoryCreationSink(c)
  PROVE  IInv'
<1> USE SmartControlPointAssumption
<1> DEFINE u == deviceFactory[c].udn
           key == IF ContainsKey(u) THEN u ELSE FORCEDDEVICE
<1>1. /\ u \in UDN /\ u \in Key /\ u # FORCEDDEVICE /\ key \in Key
      /\ deviceFactory[c].state = "checked"
  <2>1. deviceFactory[c].state = "checked"
    BY DEF DeviceFactoryCreationSink
  <2>2. u \in UDN
    BY <2>1 DEF IInv, TypeOK, CreationState
  <2>. QED
    BY <2>1, <2>2 DEF Key
<1>2. c \notin activeDeviceList /\ \A k \in Key : ~Holds(k, c)
  BY <1>1 DEF IInv, ListedDone, ActiveTracked
<1>3. /\ deviceFactory'[c] = [deviceFactory[c] EXCEPT !.state = "done"]
      /\ deviceFactory'[c].state = "done" /\ deviceFactory'[c].udn = u
      /\ deviceFactory'[c].urn = deviceFactory[c].urn
      /\ \A d \in Creation \ {c} : deviceFactory'[d] = deviceFactory[d]
  BY DEF DeviceFactoryCreationSink, IInv, TypeOK, CreationState
<1>4. PromisedUDN'
  BY <1>3 DEF IInv, PromisedUDN
<1>5. CASE Install(c, u)
  <2>1. ContainsKey(key) /\ deviceTable[key].Device = Null
    BY <1>5 DEF Install
  <2>2. /\ \A k \in Key \ {u, key} : deviceTable'[k] = deviceTable[k]
        /\ key # u => deviceTable'[key] = Null
        /\ \/ deviceTable'[u] = [deviceTable[key] EXCEPT !.Device = c] /\ orphaned' = orphaned
           \/ deviceTable'[u] = Null /\ orphaned' = orphaned \cup {c}
    BY <1>1, <1>5 DEF Install, IInv, TypeOK
  <2>3. [deviceTable[key] EXCEPT !.Device = c] \in DeviceInfo
    BY <1>1, <2>1 DEF IInv, TypeOK, ContainsKey, DeviceInfo
  <2>4. \A k \in Key, d \in Creation : Holds(k, d) => k \notin {u, key}
    BY <1>1, <2>1 DEF Holds
  <2>5. ASSUME NEW k \in Key, NEW d \in Creation
        PROVE  Holds(k, d)' <=> Holds(k, d) \/ (k = u /\ d = c /\ deviceTable'[u] # Null)
    <3>1. CASE k \notin {u, key}
      BY <2>2, <2>5, <3>1 DEF Holds, ContainsKey
    <3>2. CASE k = u
      BY <2>2, <2>3, <2>4, <2>5, <3>2 DEF Holds, ContainsKey, DeviceInfo
    <3>3. CASE k = key /\ k # u
      BY <2>2, <2>4, <2>5, <3>3 DEF Holds, ContainsKey
    <3>. QED
      BY <3>1, <3>2, <3>3
  <2>6. ASSUME NEW k \in Key, Holds(k, Null)'
        PROVE  Holds(k, Null) /\ deviceTable'[k] = deviceTable[k] /\ k # u
    BY <1>1, <2>2, <2>3, <2>6 DEF Holds, ContainsKey, DeviceInfo
  <2>7. LifetimeCovered'
    <3>1. /\ deviceTable'[u] # Null => deviceLifeTimeClock' = deviceLifeTimeClock \cup {u}
          /\ \A k \in Key \ {u} : k \in deviceLifeTimeClock => k \in deviceLifeTimeClock'
          /\ lifeTimeExpired' = lifeTimeExpired
      BY <1>1, <1>5, <2>2 DEF Install, DeviceFactoryCreationSink, IInv, TypeOK
    <3>. QED
      BY <2>4, <2>5, <3>1 DEF IInv, LifetimeCovered
  <2>8. ActiveTracked'
    <3>1. ASSUME NEW d \in activeDeviceList'
          PROVE  (d \in orphaned \/ Holds(deviceFactory[d].udn, d))'
      <4>1. CASE d = c
        <5>1. c \in orphaned' \/ (deviceTable'[u] # Null /\ deviceTable'[u].Device = c)
          BY <1>1, <2>2, <2>3 DEF DeviceInfo
        <5>. QED
          BY <1>3, <4>1, <5>1 DEF Holds, ContainsKey
      <4>2. CASE d # c
        <5>1. d \in activeDeviceList /\ d \in Creation
          BY <1>5, <4>2 DEF Install, IInv, TypeOK
        <5>2. deviceFactory'[d] = deviceFactory[d] /\ deviceFactory[d].udn \in Key
          BY <1>3, <4>2, <5>1 DEF IInv, ListedDone, TypeOK, CreationState, Key
        <5>3. CASE d \in orphaned
          BY <2>2, <5>3
        <5>4. CASE Holds(deviceFactory[d].udn, d)
          <6>1. Holds(deviceFactory[d].udn, d)'
            BY <2>5, <5>1, <5>2, <5>4
          <6>2. deviceTable'[deviceFactory[d].udn] = deviceTable[deviceFactory[d].udn]
            BY <2>2, <2>4, <5>1, <5>2, <5>4
          <6>. QED
            BY <5>2, <5>4, <6>2 DEF Holds, ContainsKey
        <5>. QED
          BY <5>1, <5>3, <5>4 DEF IInv, ActiveTracked
      <4>. QED
        BY <4>1, <4>2
    <3>2. ASSUME NEW k \in Key, NEW d \in Creation, Holds(k, d)'
          PROVE  (d \in activeDeviceList /\ deviceFactory[d].udn = k)'
      <4>1. CASE d = c /\ k = u
        BY <1>3, <1>5, <4>1 DEF Install
      <4>2. CASE Holds(k, d)
        <5>1. d # c /\ d \in activeDeviceList /\ deviceFactory[d].udn = k
          BY <1>2, <4>2 DEF IInv, ActiveTracked
        <5>. QED
          BY <1>3, <1>5, <5>1 DEF Install
      <4>. QED
        BY <2>5, <3>2, <4>1, <4>2
    <3>. QED
      BY <3>1, <3>2 DEF ActiveTracked, Holds, ContainsKey
  <2>9. CreationCovered'
    <3> SUFFICES ASSUME NEW v \in UDN, Holds(v, Null)',
                        deviceTable'[v].BaseURL \notin {Null} \cup Refused
                 PROVE  \E d \in Creation : /\ deviceFactory'[d].urn = v
                                            /\ deviceFactory'[d].state \in {"running", "checked"}
      BY DEF CreationCovered
    <3>1. Holds(v, Null) /\ deviceTable'[v] = deviceTable[v] /\ v # u
      BY <2>6 DEF Key
    <3>2. PICK d \in Creation : /\ deviceFactory[d].urn = v
                                /\ deviceFactory[d].state \in {"running", "checked"}
      BY <3>1 DEF IInv, CreationCovered
    <3>3. d # c
      BY <3>1, <3>2 DEF IInv, PromisedUDN, Key
    <3>. QED
      BY <1>3, <3>2, <3>3
  <2>10. PendingNeedsDevice'
    BY <2>6 DEF IInv, PendingNeedsDevice
  <2>11. RecordUDN'
    <3>1. deviceTable'[u] = Null \/ deviceTable'[u].UDN = deviceTable[key].UDN
      BY <2>2, <2>3 DEF IInv, TypeOK, DeviceInfo, ContainsKey
    <3>2. deviceTable[key].UDN \in {u, FORCEDDEVICE}
      BY <1>1, <2>1 DEF IInv, RecordUDN
    <3>. QED
      BY <2>2, <3>1, <3>2 DEF IInv, RecordUDN, ContainsKey
  <2>12. ListedDone'
    BY <1>3, <1>5 DEF Install, DeviceFactoryCreationSink, IInv, ListedDone, TypeOK
  <2>. QED
    BY <1>4, <2>7, <2>8, <2>9, <2>10, <2>11, <2>12 DEF IInv
<1>6. CASE /\ \/ ~ContainsKey(u) /\ ~ContainsKey(FORCEDDEVICE)
              \/ ContainsKey(u) /\ deviceTable[u].Device # Null
           /\ UNCHANGED <<deviceTable, deviceLifeTimeClock, activeDeviceList, notices,
                          orphaned>>
  <2>1. LifetimeCovered' /\ ActiveTracked' /\ RecordUDN' /\ ListedDone'
    <3>1. UNCHANGED <<lifeTimeExpired, retired>>
      BY DEF DeviceFactoryCreationSink
    <3>. QED
      BY <1>1, <1>3, <1>6, <3>1, SameDevicesStep DEF ContainsKey
  <2>2. CreationCovered'
    <3> SUFFICES ASSUME NEW v \in UDN, Holds(v, Null),
                        deviceTable[v].BaseURL \notin {Null} \cup Refused
                 PROVE  \E d \in Creation : /\ deviceFactory'[d].urn = v
                                            /\ deviceFactory'[d].state \in {"running", "checked"}
      BY <1>6 DEF CreationCovered, Holds, ContainsKey
    <3>1. v # u
      BY <1>6 DEF Holds
    <3>2. PICK d \in Creation : /\ deviceFactory[d].urn = v
                                /\ deviceFactory[d].state \in {"running", "checked"}
      BY DEF IInv, CreationCovered
    <3>3. d # c
      BY <3>1, <3>2 DEF IInv, PromisedUDN, Key
    <3>. QED
      BY <1>3, <3>2, <3>3
  <2>3. PendingNeedsDevice'
    BY <1>6 DEF IInv, PendingNeedsDevice, Holds, ContainsKey
  <2>. QED
    BY <1>4, <2>1, <2>2, <2>3 DEF IInv
<1>. QED
  BY <1>5, <1>6 DEF DeviceFactoryCreationSink

-----------------------------------------------------------------------------
\* No handler breaks the invariant.
LEMMA InvariantStep == IInv /\ [Next]_vars => IInv'
<1> SUFFICES ASSUME IInv, [Next]_vars PROVE IInv'
  OBVIOUS
<1> USE SmartControlPointAssumption
<1>0. TypeOK /\ TypeOK'
  BY TypeStep DEF IInv
<1>1. ASSUME NEW u \in UDN, NEW url \in Url \cup {Null}, NEW short \in BOOLEAN,
             AnnounceNew(u, url, short)
      PROVE  IInv'
  <2>1. u \in Key /\ \A c \in Creation : ~Holds(u, c)
    BY <1>1 DEF AnnounceNew, Holds, Key
  <2>2. /\ \A c \in Creation : deviceFactory[c].state # "unused" =>
              deviceFactory'[c] = deviceFactory[c]
        /\ \/ url \in {Null} \cup Refused
           \/ \E c \in Creation : deviceFactory'[c].urn = u /\ deviceFactory'[c].state = "running"
        /\ PromisedUDN'
    BY <1>1, <2>1, StoreAndCreateStep DEF AnnounceNew
  <2>3. /\ LifetimeCovered' /\ ActiveTracked' /\ CreationCovered'
        /\ RecordUDN' /\ PendingNeedsDevice' /\ ListedDone'
    <3>1. /\ deviceTable' = [deviceTable EXCEPT ![u] = NewInfo(u, url)]
          /\ UNCHANGED <<activeDeviceList, deviceLifeTimeClock, lifeTimeExpired, retired,
                         orphaned>>
      BY <1>1 DEF AnnounceNew, StoreAndCreate, clocks, events
    <3>. QED
      BY <1>0, <2>1, <2>2, <3>1, NewRecordStep
  <2>. QED
    BY <1>0, <2>2, <2>3 DEF IInv
<1>2. ASSUME NEW u \in UDN, NEW url \in Url \cup {Null}, AnnounceSameSource(u, url)
      PROVE  IInv'
  <2>1. /\ u \in Key /\ deviceTable[u] \in DeviceInfo /\ deviceTable[u].Device # Null
        /\ deviceTable'[u] = [deviceTable[u] EXCEPT !.PendingBaseURL = Null]
        /\ \A k \in Key \ {u} : deviceTable'[k] = deviceTable[k]
    BY <1>0, <1>2 DEF AnnounceSameSource, TypeOK, ContainsKey, Key
  <2>2. \A k \in Key : /\ ContainsKey(k)' <=> ContainsKey(k)
                       /\ ContainsKey(k) => /\ deviceTable'[k].Device = deviceTable[k].Device
                                            /\ deviceTable'[k].UDN = deviceTable[k].UDN
                       /\ ContainsKey(k) /\ deviceTable[k].Device = Null =>
                            deviceTable'[k] = deviceTable[k]
    BY <1>0, <2>1 DEF ContainsKey, DeviceInfo, TypeOK
  <2>3. LifetimeCovered' /\ ActiveTracked' /\ RecordUDN' /\ ListedDone'
    BY <1>0, <1>2, <2>2, SameDevicesStep DEF AnnounceSameSource, events
  <2>4. CreationCovered' /\ PendingNeedsDevice' /\ PromisedUDN'
    BY <1>2, <2>2
    DEF AnnounceSameSource, IInv, CreationCovered, PendingNeedsDevice, PromisedUDN, Holds, Key
  <2>. QED
    BY <1>0, <2>3, <2>4 DEF IInv
<1>3. ASSUME NEW u \in UDN, NEW url \in Url \cup {Null}, NEW stored \in BOOLEAN,
             AnnounceOtherSource(u, url, stored)
      PROVE  IInv'
  <2>1. /\ u \in Key /\ deviceTable[u] \in DeviceInfo /\ deviceTable[u].Device # Null
        /\ deviceTable'[u] \in {[deviceTable[u] EXCEPT !.PendingBaseURL = url], deviceTable[u]}
        /\ \A k \in Key \ {u} : deviceTable'[k] = deviceTable[k]
    BY <1>0, <1>3 DEF AnnounceOtherSource, TypeOK, ContainsKey, Key
  <2>2. \A k \in Key : /\ ContainsKey(k)' <=> ContainsKey(k)
                       /\ ContainsKey(k) => /\ deviceTable'[k].Device = deviceTable[k].Device
                                            /\ deviceTable'[k].UDN = deviceTable[k].UDN
                       /\ ContainsKey(k) /\ deviceTable[k].Device = Null =>
                            deviceTable'[k] = deviceTable[k]
    BY <1>0, <2>1 DEF ContainsKey, DeviceInfo, TypeOK
  <2>3. LifetimeCovered' /\ ActiveTracked' /\ RecordUDN' /\ ListedDone'
    BY <1>0, <1>3, <2>2, SameDevicesStep DEF AnnounceOtherSource, events
  <2>4. CreationCovered' /\ PendingNeedsDevice' /\ PromisedUDN'
    BY <1>3, <2>2
    DEF AnnounceOtherSource, IInv, CreationCovered, PendingNeedsDevice, PromisedUDN, Holds, Key
  <2>. QED
    BY <1>0, <2>3, <2>4 DEF IInv
<1>4. ASSUME NEW u \in UDN, SSDPNotifySinkByeBye(u)
      PROVE  IInv'
  BY <1>0, <1>4, RemoveMeStep DEF SSDPNotifySinkByeBye
<1>5. ASSUME NEW S \in SUBSET activeDeviceList, NetworkInfoOldInterfaceSink(S)
      PROVE  IInv'
  BY <1>0, <1>5, RemoveMeStep DEF NetworkInfoOldInterfaceSink
\* The steps that leave the table and the factory alone.
<1>6. ASSUME UNCHANGED <<deviceTable, activeDeviceList, deviceFactory, retired, orphaned>>,
             \A k \in Key : \/ k \in deviceLifeTimeClock' \/ lifeTimeExpired'[k] > 0
                            \/ k \notin deviceLifeTimeClock /\ ~(lifeTimeExpired[k] > 0)
      PROVE  IInv'
  <2>1. LifetimeCovered' /\ ActiveTracked' /\ RecordUDN' /\ ListedDone'
    BY <1>0, <1>6, SameDevicesStep DEF ContainsKey
  <2>2. CreationCovered' /\ PendingNeedsDevice' /\ PromisedUDN'
    BY <1>6 DEF IInv, CreationCovered, PendingNeedsDevice, PromisedUDN, Holds, ContainsKey
  <2>. QED
    BY <1>0, <2>1, <2>2 DEF IInv
<1>7. CASE Rescan
  BY <1>6, <1>7 DEF Rescan, clocks, events
<1>8. ASSUME NEW k \in Key, RescanAdd(k)
      PROVE  IInv'
  BY <1>6, <1>8 DEF RescanAdd, events
<1>9. ASSUME NEW k \in Key, LifeTimeExpires(k)
      PROVE  IInv'
  BY <1>0, <1>6, <1>9 DEF LifeTimeExpires, events, TypeOK
<1>10. ASSUME NEW k \in Key, UpdateExpires(k)
      PROVE  IInv'
  BY <1>6, <1>10 DEF UpdateExpires, events
<1>11. ASSUME NEW n \in notices, Fire(n)
      PROVE  IInv'
  BY <1>6, <1>11 DEF Fire, clocks
<1>12. CASE UNCHANGED vars
  BY <1>6, <1>12 DEF vars, clocks, events
<1>13. ASSUME NEW url \in Url, NEW udn \in UDN, ForceDeviceAddition(url, udn)
      PROVE  IInv'
  <2>1. \A c \in Creation : ~Holds(FORCEDDEVICE, c)
    BY DevicesUnderTheirUDN DEF Key
  <2>2. FORCEDDEVICE \in Key /\ url \in Url \cup {Null}
    BY DEF Key
  <2>3. /\ \A c \in Creation : deviceFactory[c].state # "unused" =>
              deviceFactory'[c] = deviceFactory[c]
        /\ PromisedUDN'
    BY <1>13, <2>2, StoreAndCreateStep DEF ForceDeviceAddition
  <2>4. /\ LifetimeCovered' /\ ActiveTracked' /\ CreationCovered'
        /\ RecordUDN' /\ PendingNeedsDevice' /\ ListedDone'
    <3>1. /\ deviceTable' = [deviceTable EXCEPT ![FORCEDDEVICE] = NewInfo(FORCEDDEVICE, url)]
          /\ UNCHANGED <<activeDeviceList, deviceLifeTimeClock, lifeTimeExpired, retired,
                         orphaned>>
      BY <1>13 DEF ForceDeviceAddition, StoreAndCreate, clocks, events
    <3>2. FORCEDDEVICE \in Key /\ FORCEDDEVICE \notin UDN
      BY DEF Key
    <3>. QED
      BY <1>0, <2>1, <2>3, <3>1, <3>2, NewRecordStep
  <2>. QED
    BY <1>0, <2>3, <2>4 DEF IInv
<1>14. ASSUME NEW k \in Key, DeviceLifeTimeClockSink(k)
      PROVE  IInv'
  <2>1. /\ deviceTable'[k] = Null
        /\ \A j \in Key \ {k} : deviceTable'[j] = deviceTable[j]
        /\ \A j \in Key \ {k} : lifeTimeExpired'[j] = lifeTimeExpired[j]
        /\ UNCHANGED <<deviceLifeTimeClock, deviceFactory, orphaned>>
    BY <1>0, <1>14 DEF DeviceLifeTimeClockSink, TypeOK
  <2>2. \A j \in Key : \A c : Holds(j, c)' <=> j # k /\ Holds(j, c)
    BY <2>1 DEF Holds, ContainsKey
  <2>3. \A c \in Creation :
          /\ c \in activeDeviceList' <=> c \in activeDeviceList /\ ~Holds(k, c)
          /\ c \in retired' <=> c \in retired \/ (c \in activeDeviceList /\ Holds(k, c))
    BY <1>14 DEF DeviceLifeTimeClockSink, Holds
  <2>4. activeDeviceList' \subseteq Creation /\ retired' \subseteq Creation
    BY <1>0 DEF TypeOK
  <2>5. LifetimeCovered' /\ CreationCovered' /\ RecordUDN' /\ PendingNeedsDevice'
        /\ PromisedUDN' /\ ListedDone'
    BY <2>1, <2>2, <2>3, <2>4
    DEF IInv, LifetimeCovered, CreationCovered, RecordUDN, PendingNeedsDevice, PromisedUDN,
        ListedDone, ContainsKey, Key
  <2>6. ActiveTracked'
    <3>1. ASSUME NEW c \in activeDeviceList'
          PROVE  (c \in orphaned \/ Holds(deviceFactory[c].udn, c))'
      <4>1. c \in Creation /\ c \in activeDeviceList /\ ~Holds(k, c)
        BY <2>3, <2>4
      <4>2. deviceFactory[c].udn \in Key
        BY <1>0, <4>1 DEF IInv, ListedDone, TypeOK, CreationState, Key
      <4>3. c \in orphaned \/ (deviceFactory[c].udn # k /\ Holds(deviceFactory[c].udn, c))
        BY <4>1 DEF IInv, ActiveTracked
      <4>. QED
        BY <2>1, <4>2, <4>3 DEF Holds, ContainsKey
    <3>2. ASSUME NEW j \in Key, NEW c \in Creation, Holds(j, c)'
          PROVE  (c \in activeDeviceList /\ deviceFactory[c].udn = j)'
      BY <2>1, <2>2, <2>3, <3>2 DEF IInv, ActiveTracked
    <3>. QED
      BY <3>1, <3>2 DEF ActiveTracked, Holds, ContainsKey
  <2>. QED
    BY <1>0, <2>5, <2>6 DEF IInv
<1>15. ASSUME NEW k \in Key, DeviceUpdateClockSink(k)
      PROVE  IInv'
  <2>1. \A j \in Key : /\ ContainsKey(j)' <=> ContainsKey(j)
                       /\ ContainsKey(j) => /\ deviceTable'[j].Device = deviceTable[j].Device
                                            /\ deviceTable'[j].UDN = deviceTable[j].UDN
                       /\ ContainsKey(j) /\ deviceTable[j].Device = Null =>
                            deviceTable'[j] = deviceTable[j]
    <3>1. CASE ContainsKey(k) /\ deviceTable[k].PendingBaseURL \notin {Null} \cup Refused
      <4>1. /\ deviceTable[k] \in DeviceInfo /\ deviceTable[k].Device # Null
            /\ deviceTable'[k] = [deviceTable[k] EXCEPT !.BaseURL = deviceTable[k].PendingBaseURL]
            /\ \A j \in Key \ {k} : deviceTable'[j] = deviceTable[j]
        BY <1>0, <1>15, <3>1
        DEF DeviceUpdateClockSink, TypeOK, ContainsKey, IInv, PendingNeedsDevice, Holds
      <4>. QED
        BY <1>0, <3>1, <4>1 DEF ContainsKey, DeviceInfo, TypeOK
    <3>2. CASE ~(ContainsKey(k) /\ deviceTable[k].PendingBaseURL \notin {Null} \cup Refused)
      BY <1>15, <3>2 DEF DeviceUpdateClockSink, ContainsKey
    <3>. QED
      BY <3>1, <3>2
  <2>2. /\ deviceLifeTimeClock \subseteq deviceLifeTimeClock'
        /\ UNCHANGED <<activeDeviceList, retired, orphaned, lifeTimeExpired, deviceFactory>>
    BY <1>15 DEF DeviceUpdateClockSink, events
  <2>3. LifetimeCovered' /\ ActiveTracked' /\ RecordUDN' /\ ListedDone'
    BY <1>0, <2>1, <2>2, SameDevicesStep
  <2>4. CreationCovered' /\ PendingNeedsDevice' /\ PromisedUDN'
    BY <2>1, <2>2
    DEF IInv, CreationCovered, PendingNeedsDevice, PromisedUDN, Holds, Key
  <2>. QED
    BY <1>0, <2>3, <2>4 DEF IInv
<1>16. ASSUME NEW c \in Creation, DeviceFactoryCreationCheck(c)
      PROVE  IInv'
  <2>1. /\ UNCHANGED <<deviceTable, activeDeviceList, retired, orphaned, deviceLifeTimeClock,
                       lifeTimeExpired>>
        /\ deviceFactory[c].state = "running"
        /\ \A d \in Creation \ {c} : deviceFactory'[d] = deviceFactory[d]
        /\ deviceFactory'[c].urn = deviceFactory[c].urn
        /\ deviceFactory'[c].udn = deviceFactory[c].udn
        /\ deviceFactory'[c].state = IF ContainsKey(deviceFactory[c].udn) \/ ContainsKey(FORCEDDEVICE)
                                       THEN "checked" ELSE "done"
    BY <1>0, <1>16 DEF DeviceFactoryCreationCheck, clocks, events, TypeOK, CreationState
  <2>2. LifetimeCovered' /\ ActiveTracked' /\ RecordUDN' /\ ListedDone'
    BY <1>0, <2>1, SameDevicesStep DEF ContainsKey
  <2>3. PendingNeedsDevice' /\ PromisedUDN'
    BY <2>1 DEF IInv, PendingNeedsDevice, PromisedUDN, Holds, ContainsKey
  <2>4. CreationCovered'
    <3> SUFFICES ASSUME NEW v \in UDN, Holds(v, Null),
                        deviceTable[v].BaseURL \notin {Null} \cup Refused
                 PROVE  \E d \in Creation : /\ deviceFactory'[d].urn = v
                                            /\ deviceFactory'[d].state \in {"running", "checked"}
      BY <2>1 DEF CreationCovered, Holds, ContainsKey
    <3>1. PICK d \in Creation : /\ deviceFactory[d].urn = v
                                /\ deviceFactory[d].state \in {"running", "checked"}
      BY DEF IInv, CreationCovered
    <3>2. d = c => deviceFactory[c].udn = v
      BY <3>1 DEF IInv, PromisedUDN, Key
    <3>. QED
      BY <2>1, <3>1, <3>2 DEF Holds
  <2>. QED
    BY <1>0, <2>2, <2>3, <2>4 DEF IInv
<1>17. ASSUME NEW c \in Creation, DeviceFactoryFailedSink(c)
      PROVE  IInv'
  <2> DEFINE u == deviceFactory[c].urn
  <2>1. /\ deviceFactory[c].state \in {"running", "failed"}
        /\ deviceFactory'[c].state = "failed"
        /\ deviceFactory'[c].urn = u
        /\ deviceFactory'[c].udn = deviceFactory[c].udn
        /\ \A d \in Creation \ {c} : deviceFactory'[d] = deviceFactory[d]
        /\ UNCHANGED <<activeDeviceList, retired, deviceLifeTimeClock, lifeTimeExpired>>
    BY <1>0, <1>17 DEF DeviceFactoryFailedSink, TypeOK, CreationState, clocks
  <2>2. /\ \A k \in Key : deviceTable'[k] = IF k = u THEN Null ELSE deviceTable[k]
        /\ orphaned \subseteq orphaned'
        /\ \A d \in Creation : u \in Key /\ Holds(u, d) => d \in orphaned'
    <3>1. CASE u = Null
      BY <1>0, <1>17, <3>1 DEF DeviceFactoryFailedSink, Key
    <3>2. CASE u # Null
      <4>1. u \in Key
        BY <1>0, <2>1, <3>2 DEF TypeOK, CreationState, Key
      <4>2. /\ deviceTable' = [deviceTable EXCEPT ![u] = Null]
            /\ orphaned' = orphaned \cup RemovedDevices({u})
        BY <1>17, <3>2 DEF DeviceFactoryFailedSink
      <4>3. \A d \in Creation : Holds(u, d) => d \in RemovedDevices({u})
        BY <4>1, RemovedDevicesHeld
      <4>. QED
        BY <1>0, <4>1, <4>2, <4>3 DEF TypeOK
    <3>. QED
      BY <3>1, <3>2
  <2>3. \A k \in Key : \A d : Holds(k, d)' <=> k # u /\ Holds(k, d)
    BY <2>2 DEF Holds, ContainsKey
  <2>4. LifetimeCovered' /\ RecordUDN' /\ PendingNeedsDevice'
    BY <2>1, <2>2, <2>3
    DEF IInv, LifetimeCovered, RecordUDN, PendingNeedsDevice, ContainsKey
  <2>5. ListedDone' /\ PromisedUDN'
    BY <1>0, <2>1 DEF IInv, ListedDone, PromisedUDN, TypeOK
  <2>6. CreationCovered'
    <3> SUFFICES ASSUME NEW v \in UDN, v # u, Holds(v, Null),
                        deviceTable[v].BaseURL \notin {Null} \cup Refused
                 PROVE  \E d \in Creation : /\ deviceFactory'[d].urn = v
                                            /\ deviceFactory'[d].state \in {"running", "checked"}
      BY <2>2, <2>3 DEF CreationCovered, Key
    <3>. QED
      BY <2>1 DEF IInv, CreationCovered
  <2>7. ActiveTracked'
    <3>1. ASSUME NEW d \in activeDeviceList'
          PROVE  (d \in orphaned \/ Holds(deviceFactory[d].udn, d))'
      <4>1. d \in activeDeviceList /\ d \in Creation
        BY <1>0, <2>1 DEF TypeOK
      <4>2. deviceFactory'[d].udn = deviceFactory[d].udn /\ deviceFactory[d].udn \in Key
        BY <1>0, <2>1, <4>1 DEF IInv, ListedDone, TypeOK, CreationState, Key
      <4>3. d \in orphaned \/ Holds(deviceFactory[d].udn, d)
        BY <4>1 DEF IInv, ActiveTracked
      <4>. QED
        BY <2>2, <4>1, <4>2, <4>3 DEF Holds, ContainsKey
    <3>2. ASSUME NEW k \in Key, NEW d \in Creation, Holds(k, d)'
          PROVE  (d \in activeDeviceList /\ deviceFactory[d].udn = k)'
      BY <2>1, <2>3, <3>2 DEF IInv, ActiveTracked
    <3>. QED
      BY <3>1, <3>2 DEF ActiveTracked, Holds, ContainsKey
  <2>. QED
    BY <1>0, <2>4, <2>5, <2>6, <2>7 DEF IInv
<1>18. ASSUME NEW c \in Creation, DeviceFactoryCreationSink(c)
      PROVE  IInv'
  BY <1>0, <1>18, CreationSinkStep
<1>19. ASSUME NEW c \in Creation, UpdateDeviceSink(c)
      PROVE  IInv'
  BY <1>6, <1>19 DEF UpdateDeviceSink, clocks, events
<1>. QED
  BY <1>1, <1>2, <1>3, <1>4, <1>5, <1>7, <1>8, <1>9, <1>10, <1>11, <1>12, <1>13, <1>14,
     <1>15, <1>16, <1>17, <1>18, <1>19, NextCases

\* The invariant holds of every behaviour.
THEOREM InvariantCorrect == Safety => []IInv
<1>1. Init => IInv
  BY SmartControlPointAssumption
  DEF Init, IInv, TypeOK, CreationState, LifetimeCovered, ActiveTracked, CreationCovered,
      RecordUDN, PendingNeedsDevice, ListedDone, PromisedUDN, Holds, ContainsKey, Key
<1>. QED
  BY <1>1, InvariantStep, PTL DEF Safety

\* Every tracked device is covered by its lifetime, for any number of devices,
\* announcements, rescans and stale expiries.
THEOREM LifetimeAlwaysCovered == Safety => []LifetimeCovered
<1>1. IInv => LifetimeCovered
  BY DEF IInv
<1>. QED
  BY <1>1, InvariantCorrect, PTL

\* The list and the table agree but for the two paths that orphan a device.
THEOREM ActiveAlwaysTracked == Safety => []ActiveTracked
<1>1. IInv => ActiveTracked
  BY DEF IInv
<1>. QED
  BY <1>1, InvariantCorrect, PTL

\* A record in creation mode always has a creation on its way, or its URL is one
\* that CreateDevice threw for.
THEOREM CreationAlwaysCovered == Safety => []CreationCovered
<1>1. IInv => CreationCovered
  BY DEF IInv
<1>. QED
  BY <1>1, InvariantCorrect, PTL

\* A left-over timer never switches the source of a device that is being created.
THEOREM StaleSwitchAlwaysHarmless == Safety => []StaleSwitchHarmless
<1>1. IInv => StaleSwitchHarmless
  BY DEF IInv, PendingNeedsDevice, StaleSwitchHarmless
<1>. QED
  BY <1>1, InvariantCorrect, PTL

-----------------------------------------------------------------------------
\* Removing objects and owing some of their notices is a step of the directory.
LEMMA RemoveIsLeave ==
  ASSUME NEW S \in SUBSET activeDeviceList, NEW N \in SUBSET S,
         NEW kind \in {"removed", "expired"},
         activeDeviceList' = activeDeviceList \ S, retired' = retired \cup S,
         notices' = notices \cup ({kind} \X N), UNCHANGED raised
  PROVE  [Directory!Next]_(Directory!vars)
<1>1. CASE S = {}
  BY <1>1 DEF Directory!vars
<1>2. CASE S # {}
  <2>1. Directory!Leave(S, N, kind)
    BY DEF Directory!Leave
  <2>. QED
    BY <1>2, <2>1 DEF Directory!Next
<1>. QED
  BY <1>1, <1>2

\* Every handler's step is a step of the directory, or none.
LEMMA DirectoryStep == IInv /\ [Next]_vars => [Directory!Next]_(Directory!vars)
<1> SUFFICES ASSUME IInv, [Next]_vars PROVE [Directory!Next]_(Directory!vars)
  OBVIOUS
<1> USE SmartControlPointAssumption
<1>1. ASSUME UNCHANGED <<activeDeviceList, notices, raised, retired>>
      PROVE  [Directory!Next]_(Directory!vars)
  BY <1>1 DEF Directory!vars
<1>2. ASSUME NEW u \in UDN, SSDPNotifySinkByeBye(u)
      PROVE  [Directory!Next]_(Directory!vars)
  <2>1. RemovedDevices({u}) \subseteq activeDeviceList
    BY RemovedDevicesHeld
  <2>. QED
    BY <1>2, <2>1, RemoveIsLeave DEF SSDPNotifySinkByeBye, UnprotectedRemoveMe
<1>3. ASSUME NEW S \in SUBSET activeDeviceList, NetworkInfoOldInterfaceSink(S)
      PROVE  [Directory!Next]_(Directory!vars)
  <2> DEFINE U == {deviceFactory[c].udn : c \in S}
  <2>1. RemovedDevices(U) \subseteq activeDeviceList
    BY RemovedDevicesHeld
  <2>2. PICK N \in SUBSET RemovedDevices(U) : notices' = notices \cup ({"removed"} \X N)
    <3>1. CASE UNCHANGED notices
      <4>1. notices' = notices \cup ({"removed"} \X {})
        BY <3>1
      <4>. QED
        BY <4>1
    <3>. QED
      BY <1>3, <3>1 DEF NetworkInfoOldInterfaceSink
  <2>3. /\ activeDeviceList' = activeDeviceList \ RemovedDevices(U)
        /\ retired' = retired \cup RemovedDevices(U)
        /\ UNCHANGED raised
    BY <1>3 DEF NetworkInfoOldInterfaceSink, UnprotectedRemoveMe
  <2>. QED
    BY <2>1, <2>2, <2>3, RemoveIsLeave
<1>4. ASSUME NEW k \in Key, DeviceLifeTimeClockSink(k)
      PROVE  [Directory!Next]_(Directory!vars)
  <2> DEFINE d == IF ContainsKey(k) THEN deviceTable[k].Device ELSE Null
             gone == {d} \cap activeDeviceList
  <2>1. /\ activeDeviceList' = activeDeviceList \ gone
        /\ retired' = retired \cup gone
        /\ notices' = notices \cup ({"expired"} \X gone)
        /\ UNCHANGED raised
    BY <1>4 DEF DeviceLifeTimeClockSink
  <2>2. gone \in SUBSET activeDeviceList
    OBVIOUS
  <2>. HIDE DEF gone
  <2>. QED
    BY <2>1, <2>2, RemoveIsLeave
<1>5. ASSUME NEW c \in Creation, DeviceFactoryCreationSink(c)
      PROVE  [Directory!Next]_(Directory!vars)
  <2>1. c \notin activeDeviceList \cup retired
    BY <1>5 DEF DeviceFactoryCreationSink, IInv, ListedDone
  <2>2. CASE Install(c, deviceFactory[c].udn)
    <3>1. Directory!Enter(c)
      BY <1>5, <2>1, <2>2 DEF Install, DeviceFactoryCreationSink, Directory!Enter
    <3>. QED
      BY <3>1 DEF Directory!Next
  <2>3. CASE UNCHANGED <<deviceTable, deviceLifeTimeClock, activeDeviceList, notices,
                         orphaned>>
    BY <1>1, <1>5, <2>3 DEF DeviceFactoryCreationSink
  <2>. QED
    BY <1>5, <2>2, <2>3 DEF DeviceFactoryCreationSink
<1>6. ASSUME NEW n \in notices, Fire(n)
      PROVE  [Directory!Next]_(Directory!vars)
  <2>1. Directory!Tell(n)
    BY <1>6 DEF Fire, Directory!Tell
  <2>. QED
    BY <2>1 DEF Directory!Next
<1>7. ASSUME NEW u \in UDN, NEW url \in Url \cup {Null}, NEW short \in BOOLEAN,
             AnnounceNew(u, url, short)
      PROVE  [Directory!Next]_(Directory!vars)
  BY <1>1, <1>7 DEF AnnounceNew, events
<1>8. ASSUME NEW u \in UDN, NEW url \in Url \cup {Null}, AnnounceSameSource(u, url)
      PROVE  [Directory!Next]_(Directory!vars)
  BY <1>1, <1>8 DEF AnnounceSameSource, events
<1>9. ASSUME NEW u \in UDN, NEW url \in Url \cup {Null}, NEW stored \in BOOLEAN,
             AnnounceOtherSource(u, url, stored)
      PROVE  [Directory!Next]_(Directory!vars)
  BY <1>1, <1>9 DEF AnnounceOtherSource, events
<1>10. CASE Rescan
  BY <1>1, <1>10 DEF Rescan, events
<1>11. ASSUME NEW url \in Url, NEW udn \in UDN, ForceDeviceAddition(url, udn)
      PROVE  [Directory!Next]_(Directory!vars)
  BY <1>1, <1>11 DEF ForceDeviceAddition, events
<1>12. ASSUME NEW k \in Key, RescanAdd(k) \/ LifeTimeExpires(k) \/ UpdateExpires(k)
                             \/ DeviceUpdateClockSink(k)
      PROVE  [Directory!Next]_(Directory!vars)
  BY <1>1, <1>12 DEF RescanAdd, LifeTimeExpires, UpdateExpires, DeviceUpdateClockSink, events
<1>13. ASSUME NEW c \in Creation, DeviceFactoryFailedSink(c) \/ DeviceFactoryCreationCheck(c)
                                  \/ UpdateDeviceSink(c)
      PROVE  [Directory!Next]_(Directory!vars)
  BY <1>1, <1>13 DEF DeviceFactoryFailedSink, DeviceFactoryCreationCheck, UpdateDeviceSink,
     events
<1>14. CASE UNCHANGED vars
  BY <1>1, <1>14 DEF vars, events
<1>. QED
  BY <1>2, <1>3, <1>4, <1>5, <1>6, <1>7, <1>8, <1>9, <1>10, <1>11, <1>12, <1>13, <1>14,
     NextCases

\* The smart control point implements the directory of devices: no object enters
\* it twice or comes back, and no "removed" or "expired" is owed for an object that
\* did not leave by the same step.
THEOREM DirectoryImplemented == Safety => ImplementsDeviceDirectory
<1>1. Init => Directory!Init
  BY DEF Init, Directory!Init
<1>. QED
  BY <1>1, InvariantCorrect, DirectoryStep, PTL
  DEF Safety, ImplementsDeviceDirectory, Directory!Spec
=============================================================================
