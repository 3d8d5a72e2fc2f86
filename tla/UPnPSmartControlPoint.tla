------------------------ MODULE UPnPSmartControlPoint ------------------------
(***************************************************************************)
(* Global/UPnP/UPnPSmartControlPoint.cs: the control point an application  *)
(* creates.  It shares the one UPnPInternalSmartControlPoint with all      *)
(* others, which DeviceDirectory stands for here, and tells its own        *)
(* application of the devices and services that pass its filters.          *)
(*                                                                         *)
(* Its constructor registers for the directory's events and then replays   *)
(* the devices that are known by then, while the directory goes on         *)
(* changing and delivering on other threads.  An event's delivery takes    *)
(* two steps, as WeakEvent.Fire does: the handlers are copied, and run     *)
(* later.                                                                  *)
(*                                                                         *)
(* Devices are trees of devices and services; that a device or a service   *)
(* agrees with a filter string is a relation, given as a constant.         *)
(***************************************************************************)
EXTENDS Naturals, FiniteSets

CONSTANTS
  Device,       (* root devices, the members of the directory                  *)
  Unit,         (* all devices, embedded ones too                              *)
  Service,
  Embedded,     (* a device's embedded devices                                 *)
  Services,     (* a device's services                                         *)
  Filter,       (* filter strings                                              *)
  RootFilter,   (* "upnp:rootdevice"                                           *)
  Passes,       (* filters equal to its UDN or ID, or to its type and version  *)
  Begins,       (* filters its type begins with, whatever the version          *)
  FilterChoices, (* bound: filters the application passes to the constructor   *)
  Attachable    (* bound: events that the application attaches delegates to    *)

ASSUME FilterAssumption ==
  /\ Device \subseteq Unit /\ Unit \cap Service = {} /\ IsFiniteSet(Service)
  /\ Embedded \in [Unit -> SUBSET Unit] /\ Services \in [Unit -> SUBSET Service]
  /\ \A s \in Service : \E u \in Unit : s \in Services[u]
  /\ \A u \in Unit : Embedded[u] \cap Device = {}
  /\ \A u, v \in Unit :
       u # v => Embedded[u] \cap Embedded[v] = {} /\ Services[u] \cap Services[v] = {}
  /\ RootFilter \in Filter
  /\ Passes \in [Unit \cup Service -> SUBSET Filter]
  /\ Begins \in [Unit \cup Service -> SUBSET Filter]
  /\ FilterChoices \subseteq SUBSET Filter \ {{}}
  /\ Attachable \subseteq {"OnAddedDevice", "OnAddedService",
                        "OnRemovedDevice", "OnRemovedService"}

VARIABLES
  listed, retired, owed, told,      (* the directory, as in DeviceDirectory     *)
  PartialMatchFilters,              (* the filters of this control point        *)
  given,                            (* the delegates passed to the constructor  *)
  single,                           (* it is the constructor for one filter     *)
  phase,                            (* how far the constructor is               *)
  replaying,                        (* devices still to be replayed             *)
  MultiFilter,
  handlers,                         (* the delegates on its four events         *)
  running,                          (* notices whose handler is to run          *)
  heard,                            (* how often the application heard of what  *)
  gone                              (* what it heard the removal of             *)

directory == <<listed, retired, owed, told>>
request == <<PartialMatchFilters, given, single>>
constructor == <<phase, replaying, MultiFilter>>
vars == <<directory, request, constructor, handlers, running, heard, gone>>

Directory == INSTANCE DeviceDirectory

Event == {"OnAddedDevice", "OnAddedService", "OnRemovedDevice", "OnRemovedService"}
Added == {"OnAddedDevice", "OnAddedService"}
Announcement == ({"device"} \X Unit) \cup ({"service"} \X Service)

TypeOK ==
  /\ Directory!TypeOK
  /\ PartialMatchFilters \subseteq Filter
  /\ given \subseteq Added /\ single \in BOOLEAN
  /\ phase \in {"register", "snapshot", "replay", "ready"}
  /\ replaying \subseteq Device /\ MultiFilter \in BOOLEAN
  /\ handlers \subseteq Event
  /\ running \subseteq Directory!Notice
  /\ heard \in [Announcement -> Nat] /\ gone \subseteq Announcement

Init ==
  /\ Directory!Init
  /\ PartialMatchFilters \in FilterChoices
  /\ given \in SUBSET Added
  /\ single \in BOOLEAN /\ (single => Cardinality(PartialMatchFilters) = 1)
  /\ phase = "register" /\ replaying = {} /\ MultiFilter = TRUE
  /\ handlers = given
  /\ running = {}
  /\ heard = [a \in Announcement |-> 0] /\ gone = {}

----------------------------------------------------------------------------
\* CheckDeviceAgainstFilter: what of the tree of d passes the filter f.  A device that
\* passes hides its own services.
CheckDeviceAgainstFilter(f) ==
  LET M[d \in Unit] ==
        IF f = RootFilter /\ d \in Device
          THEN {d}
          ELSE UNION {M[e] : e \in Embedded[d]} \cup
               (IF f \in Passes[d] THEN {d} ELSE {s \in Services[d] : f \in Passes[s]})
  IN  M

\* The same without recursion.  The tree of d is the least set that has d and all that
\* its members embed.
Tree ==
  [d \in Unit |->
     {u \in Unit : \A T \in SUBSET Unit :
                     d \in T /\ (\A v \in T : Embedded[v] \subseteq T) => u \in T}]

Matching ==
  [f \in Filter |-> [d \in Unit |->
     IF f = RootFilter /\ d \in Device
       THEN {d}
       ELSE {u \in Tree[d] : f \in Passes[u]} \cup
            {s \in Service : \E u \in Tree[d] : s \in Services[u] /\ f \in Passes[s] \ Passes[u]}]]

Results(d) == UNION {Matching[f][d] : f \in PartialMatchFilters}

OneFilter == Cardinality(PartialMatchFilters) = 1

ParentDevice(s) == CHOOSE u \in Unit : s \in Services[u]

\* GetDevices and GetServices find something for the filter f.
GetDevices(d, f) == \E u \in {d} \cup Embedded[d] : f \in Begins[u]
GetServices(d, f) == \E s \in Services[d] : f \in Begins[s]

\* With several filters: the devices that satisfy all of them.
Combined(d) ==
  IF \E f \in PartialMatchFilters : Matching[f][d] = {}
    THEN {}
    ELSE {u \in Results(d) \cap Unit :
            \A f \in PartialMatchFilters : GetDevices(u, f) \/ GetServices(u, f)}
         \cup {u \in Unit : /\ \E s \in Results(d) \cap Service : u = ParentDevice(s)
                            /\ \A f \in PartialMatchFilters : GetServices(u, f)}

\* The services of u among the results; with MultiFilter, u is announced for each.
FoundServices(d, u) == {s \in Results(d) \cap Service : u = ParentDevice(s)}

\* How often HandleAddedDevice makes an announcement when d was added.  (A device among
\* the results has no services there.)
DeviceCount(d, u) ==
  IF ~OneFilter THEN IF u \in Combined(d) THEN 1 ELSE 0
  ELSE IF u \in Results(d) THEN 1
  ELSE IF MultiFilter THEN Cardinality(FoundServices(d, u))
  ELSE 0

ServiceCount(d, s) == IF OneFilter /\ ~MultiFilter /\ s \in Results(d) THEN 1 ELSE 0

Count(d, a) ==
  IF a \in {"device"} \X Unit /\ "OnAddedDevice" \in handlers THEN DeviceCount(d, a[2])
  ELSE IF a \in {"service"} \X Service /\ "OnAddedService" \in handlers
    THEN ServiceCount(d, a[2])
  ELSE 0

Hear(d) == heard' = [a \in Announcement |-> heard[a] + Count(d, a)]

----------------------------------------------------------------------------
\* The constructor registers for the four events of the directory.
Register ==
  /\ phase = "register"
  /\ phase' = "snapshot"
  /\ UNCHANGED <<directory, request, replaying, MultiFilter, handlers, running, heard,
                 gone>>

\* GetCurrentDevices; nothing is replayed if no delegate was passed.
Snapshot ==
  /\ phase = "snapshot"
  /\ phase' = "replay"
  /\ replaying' = IF given # {} THEN listed ELSE {}
  /\ UNCHANGED <<directory, request, MultiFilter, handlers, running, heard, gone>>

\* Mutated form of Replay: the enumerator is not moved on.
ReplayRepeats(d) ==
  /\ phase = "replay"
  /\ d \in replaying
  /\ Hear(d)
  /\ UNCHANGED <<directory, request, constructor, handlers, running, gone>>

\* The next known device goes through HandleAddedDevice.
Replay(d) ==
  /\ phase = "replay"
  /\ d \in replaying
  /\ replaying' = replaying \ {d}
  /\ Hear(d)
  /\ UNCHANGED <<directory, request, phase, MultiFilter, handlers, running, gone>>

\* The constructor returns; the one for a single filter resets MultiFilter last.
Constructed ==
  /\ phase = "replay" /\ replaying = {}
  /\ phase' = "ready"
  /\ MultiFilter' = ~single
  /\ UNCHANGED <<directory, request, replaying, handlers, running, heard, gone>>

\* The application adds delegates to the events.
Attach(E) ==
  /\ phase = "ready"
  /\ handlers' = handlers \cup E
  /\ UNCHANGED <<directory, request, constructor, running, heard, gone>>

----------------------------------------------------------------------------
\* Mutated form of Registered: the constructor registers after the replay.
RegisteredLast == phase = "ready"

\* The directory's events reach this control point.
Registered == phase # "register"

\* The directory changes, on threads of its own.
DirectoryChanges ==
  /\ \/ \E c \in Device : Directory!Enter(c)
     \/ \E S \in SUBSET listed : \E N \in SUBSET S, kind \in {"removed", "expired"} :
          S # {} /\ Directory!Leave(S, N, kind)
  /\ UNCHANGED <<request, constructor, handlers, running, heard, gone>>

\* WeakEvent.Fire copies the handlers.
Fire(n) ==
  /\ Directory!Tell(n)
  /\ running' = IF Registered THEN running \cup {n} ELSE running
  /\ UNCHANGED <<request, constructor, handlers, heard, gone>>

\* Mutated form of HandleAddedDevice: a device being replayed is left to the replay.
HandleAddedDeviceSkips(d) ==
  /\ <<"added", d>> \in running
  /\ running' = running \ {<<"added", d>>}
  /\ IF phase = "ready" THEN Hear(d) ELSE UNCHANGED heard
  /\ UNCHANGED <<directory, request, constructor, handlers, gone>>

HandleAddedDevice(d) ==
  /\ <<"added", d>> \in running
  /\ running' = running \ {<<"added", d>>}
  /\ Hear(d)
  /\ UNCHANGED <<directory, request, constructor, handlers, gone>>

\* What HandleRemovedDevice may tell the application.  With one filter and a delegate
\* on OnRemovedDevice the first service that passes is cast to a device: the handler
\* ends there, with some of the devices told and none of the services.
Removals(d) ==
  CASE ~OneFilter ->
         {IF "OnRemovedDevice" \in handlers THEN {"device"} \X Combined(d) ELSE {}}
    [] OneFilter /\ "OnRemovedDevice" \notin handlers ->
         {IF "OnRemovedService" \in handlers
            THEN {"service"} \X (Results(d) \cap Service) ELSE {}}
    [] OneFilter /\ "OnRemovedDevice" \in handlers ->
         {{"device"} \X D : D \in IF Results(d) \cap Service = {}
                                   THEN {Results(d) \cap Unit}
                                   ELSE SUBSET (Results(d) \cap Unit)}

\* Mutated form of HandleRemovedDevice: expired devices are not forwarded.
HandleRemovedDeviceOnly(d) ==
  \E kind \in {"removed", "expired"} :
    /\ <<kind, d>> \in running
    /\ running' = running \ {<<kind, d>>}
    /\ IF kind = "removed" THEN \E R \in Removals(d) : gone' = gone \cup R
                           ELSE UNCHANGED gone
    /\ UNCHANGED <<directory, request, constructor, handlers, heard>>

\* Removed and expired devices alike.
HandleRemovedDevice(d) ==
  \E kind \in {"removed", "expired"} :
    /\ <<kind, d>> \in running
    /\ running' = running \ {<<kind, d>>}
    /\ \E R \in Removals(d) : gone' = gone \cup R
    /\ UNCHANGED <<directory, request, constructor, handlers, heard>>

----------------------------------------------------------------------------
Handler ==
  \E d \in Device : HandleAddedDevice(d) \/ HandleRemovedDevice(d)

Constructor == Register \/ Snapshot \/ (\E d \in Device : Replay(d)) \/ Constructed

Next ==
  \/ DirectoryChanges
  \/ \E n \in owed : Fire(n)
  \/ Constructor \/ Handler
  \/ \E E \in SUBSET Attachable : Attach(E)

\* The constructor gets on, events that are owed are fired and their handlers run.
\* Nothing has to enter or leave the directory.
Fairness ==
  /\ WF_vars(Constructor)
  /\ \A n \in Directory!Notice : WF_vars(Fire(n))
  /\ \A d \in Device : WF_vars(HandleAddedDevice(d))
  /\ \A d \in Device : WF_vars(HandleRemovedDevice(d))

Safety == Init /\ [][Next]_vars

Spec == Safety /\ Fairness

----------------------------------------------------------------------------
\* What the application has asked to hear of d, and with delegates that can hear it:
\* with MultiFilter it hears of devices only, else of devices and services.
Wanted(d) == IF OneFilter THEN Results(d) \cap (Unit \cup Service) ELSE Combined(d)

Listens == IF single THEN given = Added ELSE "OnAddedDevice" \in given

Reached(x) ==
  \/ x \in Unit /\ heard[<<"device", x>>] > 0
  \/ x \in Service /\ (heard[<<"service", x>>] > 0 \/ heard[<<"device", ParentDevice(x)>>] > 0)

\* However the constructor's registration and replay meet the directory's changes and
\* its late events, no listed device is missed: once the constructor has returned and
\* no event is under way, the application has heard of all it wanted of the device.
NothingMissed ==
  \A d \in listed :
    phase = "ready" /\ Listens /\ <<"added", d>> \notin owed \cup running
      => \A x \in Wanted(d) : Reached(x)

\* The application hears of a device that was added twice at most, once from the replay
\* and once from an event that was late, or fired during the constructor.  (Each time
\* it may hear of an inner device once for every service that passes.)
HeardTwiceAtMost ==
  /\ \A s \in Service : heard[<<"service", s>>] <= 2
  /\ \A u \in Unit : \/ heard[<<"device", u>>] <= 2
                    \/ heard[<<"device", u>>] <= 2 * Cardinality(Services[u])

\* A device that stays in the directory is heard of.
EventuallyHeard ==
  \A d \in Device :
    (d \in listed /\ Listens) ~> (d \notin listed \/ \A x \in Wanted(d) : Reached(x))

\* Once the application listens for removals, it hears of every removal that its
\* listeners are owed - unless one of the results is a service.
EventuallyGone ==
  \A d \in Device :
    (/\ <<"removed", d>> \in owed \/ <<"expired", d>> \in owed
     /\ "OnRemovedDevice" \in handlers
     /\ OneFilter => Results(d) \cap Service = {})
    ~> ({"device"} \X (Wanted(d) \cap Unit) \subseteq gone)

\* "The user can expect the OnAddedDeviceSink or OnAddedServiceSink delegate to be
\* called for each device that is already known": for a service filter it is the
\* latter, which hears of every service of a device that the constructor replayed.
KnownServicesHeard ==
  \A d \in listed :
    /\ phase = "ready" /\ single /\ "OnAddedService" \in given
    /\ <<"added", d>> \notin owed \cup running
    => \A s \in Results(d) \cap Service : heard[<<"service", s>>] > 0
=============================================================================
