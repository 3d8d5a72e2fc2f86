--------------------- MODULE UPnPSmartControlPoint_proof ---------------------
(***************************************************************************)
(* Proofs about UPnPSmartControlPoint, for any forest of devices and       *)
(* services and any filters.  That no device is missed only needs that     *)
(* additions find the same results every time; that none is heard of too   *)
(* often, that what they find is of one tree.                              *)
(***************************************************************************)
EXTENDS UPnPSmartControlPoint, FiniteSetTheorems, TLAPS

(***************************************************************************)
(* The inductive invariant.                                                *)
(***************************************************************************)
\* The application has heard of all that it wanted of d.
Handled(d) == Listens => \A x \in Wanted(d) : Reached(x)

\* MultiFilter is reset by the constructor for one filter, and only when it returns.
FilterMode == MultiFilter = ~(phase = "ready" /\ single)

DelegatesKept == given \subseteq handlers

\* The replay is over when the constructor has returned.
ReplayOver == phase = "ready" => replaying = {}

\* A device entered the directory with its notice, which is owed or was fired.
EnteredWithNotice == \A d \in listed : <<"added", d>> \in owed \cup told

\* Once the constructor has taken its snapshot, a listed device has a notice to come,
\* is yet to be replayed, or has been handled.
Covered ==
  phase \in {"replay", "ready"} =>
    \A d \in listed : \/ <<"added", d>> \in owed \cup running
                      \/ d \in replaying
                      \/ Handled(d)

IInv ==
  /\ TypeOK
  /\ FilterMode /\ DelegatesKept /\ ReplayOver /\ EnteredWithNotice /\ Covered

----------------------------------------------------------------------------
\* An announcement is made a number of times.
LEMMA CountType ==
  ASSUME NEW d, NEW a PROVE Count(d, a) \in Nat
<1>1. ASSUME NEW u PROVE Cardinality(FoundServices(d, u)) \in Nat
  <2>1. FoundServices(d, u) \subseteq Service
    BY DEF FoundServices
  <2>. QED
    BY <2>1, FilterAssumption, FS_Subset, FS_CardinalityType
<1>. QED
  BY <1>1 DEF Count, DeviceCount, ServiceCount

\* How often a device, or a service, is announced.
LEMMA CountOfDevice ==
  ASSUME NEW d, NEW u \in Unit, "OnAddedDevice" \in handlers
  PROVE  Count(d, <<"device", u>>) = DeviceCount(d, u)
<1>1. <<"device", u>> \in {"device"} \X Unit /\ <<"device", u>>[2] = u
  OBVIOUS
<1>. QED
  BY <1>1 DEF Count

LEMMA CountOfService ==
  ASSUME NEW d, NEW s \in Service, "OnAddedService" \in handlers
  PROVE  Count(d, <<"service", s>>) = ServiceCount(d, s)
<1>1. /\ <<"service", s>> \notin {"device"} \X Unit
      /\ <<"service", s>> \in {"service"} \X Service /\ <<"service", s>>[2] = s
  OBVIOUS
<1>. QED
  BY <1>1 DEF Count

\* The parent of a service is a device.
LEMMA ParentType ==
  ASSUME NEW s \in Service PROVE ParentDevice(s) \in Unit
<1>1. \E u \in Unit : s \in Services[u]
  BY FilterAssumption
<1>. QED
  BY <1>1 DEF ParentDevice

\* What the application has heard of is not forgotten.
LEMMA HearType ==
  ASSUME heard \in [Announcement -> Nat], NEW d, Hear(d)
  PROVE  /\ heard' \in [Announcement -> Nat]
         /\ \A a \in Announcement : heard'[a] = heard[a] + Count(d, a)
         /\ \A a \in Announcement : heard[a] > 0 => heard'[a] > 0
<1>1. \A a \in Announcement : heard[a] + Count(d, a) \in Nat
  BY CountType
<1>2. \A a \in Announcement : heard'[a] = heard[a] + Count(d, a)
  BY DEF Hear
<1>3. heard' \in [Announcement -> Nat]
  BY <1>1 DEF Hear
<1>4. \A a \in Announcement : heard[a] > 0 => heard'[a] > 0
  <2> TAKE a \in Announcement
  <2>1. heard[a] \in Nat /\ Count(d, a) \in Nat
    BY CountType
  <2>. QED
    BY <2>1, <1>2
<1>. QED
  BY <1>2, <1>3, <1>4

\* Passing a device to HandleAddedDevice tells the application all it wanted of it.
LEMMA HearHandles ==
  ASSUME TypeOK, FilterMode, DelegatesKept, NEW d \in Device, Hear(d), Listens
  PROVE  \A x \in Wanted(d) :
           \/ x \in Unit /\ heard'[<<"device", x>>] > 0
           \/ /\ x \in Service
              /\ \/ heard'[<<"service", x>>] > 0
                 \/ heard'[<<"device", ParentDevice(x)>>] > 0
<1> TAKE x \in Wanted(d)
<1>1. /\ heard \in [Announcement -> Nat]
      /\ \A a \in Announcement : heard'[a] = heard[a] + Count(d, a)
  BY HearType DEF TypeOK
<1>2. ASSUME NEW a \in Announcement, Count(d, a) > 0 PROVE heard'[a] > 0
  BY <1>1, <1>2, CountType
<1>3. "OnAddedDevice" \in handlers
  BY DEF Listens, DelegatesKept, Added
<1>4. CASE ~OneFilter
  <2>1. x \in Unit /\ x \in Combined(d)
    BY <1>4 DEF Wanted, Combined
  <2>2. <<"device", x>> \in Announcement
    BY <2>1 DEF Announcement
  <2>3. Count(d, <<"device", x>>) = 1
    BY <1>3, <1>4, <2>1, CountOfDevice DEF DeviceCount
  <2>. QED
    BY <1>2, <2>1, <2>2, <2>3
<1>5. CASE OneFilter /\ x \in Unit
  <2>1. x \in Results(d)
    BY <1>5 DEF Wanted
  <2>2. <<"device", x>> \in Announcement
    BY <1>5 DEF Announcement
  <2>3. Count(d, <<"device", x>>) > 0
    BY <1>3, <1>5, <2>1, CountOfDevice DEF DeviceCount
  <2>. QED
    BY <1>2, <1>5, <2>2, <2>3
<1>6. CASE OneFilter /\ x \in Service /\ MultiFilter
  <2> DEFINE u == ParentDevice(x)
  <2>1. u \in Unit /\ <<"device", u>> \in Announcement
    BY <1>6, ParentType DEF Announcement
  <2>2. x \in FoundServices(d, u)
    BY <1>6 DEF Wanted, FoundServices
  <2>3. Cardinality(FoundServices(d, u)) \in Nat \ {0}
    <3>1. IsFiniteSet(FoundServices(d, u))
      BY FilterAssumption, FS_Subset DEF FoundServices
    <3>. QED
      BY <2>2, <3>1, FS_CardinalityType, FS_EmptySet
  <2>4. Count(d, <<"device", u>>) > 0
    BY <1>3, <1>6, <2>1, <2>3, CountOfDevice DEF DeviceCount
  <2>. QED
    BY <1>2, <1>6, <2>1, <2>4
<1>7. CASE OneFilter /\ x \in Service /\ ~MultiFilter
  <2>1. "OnAddedService" \in handlers
    BY <1>7 DEF FilterMode, Listens, DelegatesKept, Added, TypeOK
  <2>2. x \in Results(d) /\ <<"service", x>> \in Announcement
    BY <1>7 DEF Wanted, Announcement
  <2>3. Count(d, <<"service", x>>) = 1
    BY <1>7, <2>1, <2>2, CountOfService DEF ServiceCount
  <2>. QED
    BY <1>2, <1>7, <2>2, <2>3
<1>. QED
  BY <1>4, <1>5, <1>6, <1>7 DEF Wanted

----------------------------------------------------------------------------
\* What a removal tells are announcements.
LEMMA RemovalsType ==
  ASSUME NEW d, NEW R \in Removals(d) PROVE R \subseteq Announcement
<1>1. Combined(d) \subseteq Unit
  BY DEF Combined
<1>. QED
  BY <1>1 DEF Removals, Announcement

\* No step takes a variable out of its type.
LEMMA TypeStep == TypeOK /\ [Next]_vars => TypeOK'
<1> SUFFICES ASSUME TypeOK, [Next]_vars PROVE TypeOK'
  OBVIOUS
<1> USE FilterAssumption DEF directory, request, constructor
<1>1. CASE Register
  BY <1>1 DEF Register, TypeOK, Directory!TypeOK
<1>2. CASE Snapshot
  BY <1>2 DEF Snapshot, TypeOK, Directory!TypeOK
<1>3. ASSUME NEW d \in Device, Replay(d) PROVE TypeOK'
  BY <1>3, HearType DEF Replay, TypeOK, Directory!TypeOK
<1>4. CASE Constructed
  BY <1>4 DEF Constructed, TypeOK, Directory!TypeOK
<1>5. ASSUME NEW E \in SUBSET Attachable, Attach(E) PROVE TypeOK'
  BY <1>5 DEF Attach, TypeOK, Directory!TypeOK, Event
<1>6. CASE DirectoryChanges
  <2>1. Directory!TypeOK'
    BY <1>6 DEF DirectoryChanges, TypeOK, Directory!TypeOK, Directory!Enter,
                Directory!Leave, Directory!Notice
  <2>. QED
    BY <1>6, <2>1 DEF DirectoryChanges, TypeOK
<1>7. ASSUME NEW n \in owed, Fire(n) PROVE TypeOK'
  BY <1>7 DEF Fire, TypeOK, Directory!TypeOK, Directory!Tell, Directory!Notice
<1>8. ASSUME NEW d \in Device, HandleAddedDevice(d) PROVE TypeOK'
  BY <1>8, HearType DEF HandleAddedDevice, TypeOK, Directory!TypeOK
<1>9. ASSUME NEW d \in Device, HandleRemovedDevice(d) PROVE TypeOK'
  BY <1>9, RemovalsType DEF HandleRemovedDevice, TypeOK, Directory!TypeOK
<1>10. CASE UNCHANGED vars
  BY <1>10 DEF vars, TypeOK, Directory!TypeOK
<1>. QED
  BY <1>1, <1>2, <1>3, <1>4, <1>5, <1>6, <1>7, <1>8, <1>9, <1>10
     DEF Next, Constructor, Handler

LEMMA InvariantInit == Init => IInv
<1> SUFFICES ASSUME Init PROVE IInv
  OBVIOUS
<1>1. TypeOK
  BY FilterAssumption
     DEF Init, TypeOK, Directory!Init, Directory!TypeOK, Event, Added
<1>2. FilterMode /\ DelegatesKept /\ ReplayOver /\ EnteredWithNotice /\ Covered
  BY DEF Init, Directory!Init, FilterMode, DelegatesKept, ReplayOver,
         EnteredWithNotice, Covered
<1>. QED
  BY <1>1, <1>2 DEF IInv

\* A device that was handled stays so while nothing that was heard is forgotten.
LEMMA HandledStays ==
  ASSUME NEW d, Handled(d), UNCHANGED request,
         \A a \in Announcement : heard[a] > 0 => heard'[a] > 0
  PROVE  Handled(d)'
<1>1. Wanted(d)' = Wanted(d) /\ Listens' = Listens
  BY DEF request, Wanted, OneFilter, Results, Combined, Listens
<1>2. \A x \in Wanted(d) : Reached(x) => Reached(x)'
  BY ParentType DEF Reached, Announcement
<1>. QED
  BY <1>1, <1>2 DEF Handled

\* A step that runs HandleAddedDevice for d keeps every device covered.
LEMMA HearCovers ==
  ASSUME IInv, NEW d \in Device, Hear(d), UNCHANGED <<directory, request, phase>>,
         \A c \in Device : c # d => /\ c \in replaying => c \in replaying'
                                    /\ <<"added", c>> \in running => <<"added", c>> \in running'
  PROVE  Covered'
<1>1. \A a \in Announcement : heard[a] > 0 => heard'[a] > 0
  BY HearType DEF IInv, TypeOK
<1>2. Handled(d)'
  <2>1. Wanted(d)' = Wanted(d) /\ Listens' = Listens
    BY DEF request, Wanted, OneFilter, Results, Combined, Listens
  <2>2. Listens => \A x \in Wanted(d) : Reached(x)'
    BY HearHandles DEF IInv, Reached
  <2>. QED
    BY <2>1, <2>2 DEF Handled
<1>3. \A c : Handled(c) => Handled(c)'
  BY <1>1, HandledStays
<1>4. listed \subseteq Device
  BY DEF IInv, TypeOK, Directory!TypeOK
<1>. QED
  BY <1>2, <1>3, <1>4 DEF IInv, Covered, directory

LEMMA InvariantStep == IInv /\ [Next]_vars => IInv'
<1> SUFFICES ASSUME IInv, [Next]_vars PROVE IInv'
  OBVIOUS
<1>. TypeOK /\ TypeOK'
  BY TypeStep DEF IInv
<1>a. ASSUME UNCHANGED <<request, heard>>, NEW c, Handled(c) PROVE Handled(c)'
  BY <1>a, HandledStays
<1>b. listed \subseteq Device
  BY DEF TypeOK, Directory!TypeOK
<1> USE DEF directory, constructor
<1>1. CASE Register
  BY <1>1 DEF Register, request, IInv, FilterMode, DelegatesKept, ReplayOver,
              EnteredWithNotice, Covered
<1>2. CASE Snapshot
  <2>1. ASSUME given = {} PROVE \A d \in listed : Handled(d)'
    BY <1>2, <2>1 DEF Snapshot, request, Handled, Listens, Added
  <2>2. Covered'
    BY <1>2, <2>1 DEF Snapshot, Covered
  <2>. QED
    BY <1>2, <2>2 DEF Snapshot, request, IInv, FilterMode, DelegatesKept, ReplayOver,
                      EnteredWithNotice
<1>3. ASSUME NEW d \in Device, Replay(d) PROVE IInv'
  <2>1. Covered'
    BY <1>3, HearCovers DEF Replay
  <2>. QED
    BY <1>3, <2>1 DEF Replay, request, IInv, FilterMode, DelegatesKept, ReplayOver,
                      EnteredWithNotice
<1>4. CASE Constructed
  <2>1. Covered'
    BY <1>4, <1>a DEF Constructed, IInv, Covered
  <2>. QED
    BY <1>4, <2>1 DEF Constructed, request, IInv, FilterMode, DelegatesKept, ReplayOver,
                      EnteredWithNotice, TypeOK
<1>5. ASSUME NEW E \in SUBSET Attachable, Attach(E) PROVE IInv'
  <2>1. Covered'
    BY <1>5, <1>a DEF Attach, IInv, Covered
  <2>. QED
    BY <1>5, <2>1 DEF Attach, request, IInv, FilterMode, DelegatesKept, ReplayOver,
                      EnteredWithNotice
<1>6. CASE DirectoryChanges
  <2>1. \A d \in listed' : d \in listed \/ <<"added", d>> \in owed'
    BY <1>6 DEF DirectoryChanges, Directory!Enter, Directory!Leave
  <2>2. owed \subseteq owed' /\ told' = told
    BY <1>6 DEF DirectoryChanges, Directory!Enter, Directory!Leave
  <2>3. UNCHANGED <<request, constructor, handlers, running, heard>>
    BY <1>6 DEF DirectoryChanges
  <2>4. Covered'
    BY <2>1, <2>2, <2>3, <1>a DEF IInv, Covered
  <2>. QED
    BY <2>1, <2>2, <2>3, <2>4 DEF request, IInv, FilterMode, DelegatesKept, ReplayOver,
                                  EnteredWithNotice
<1>7. ASSUME NEW n \in owed, Fire(n) PROVE IInv'
  <2>1. /\ owed' = owed \ {n} /\ told' = told \cup {n} /\ listed' = listed
        /\ UNCHANGED <<request, constructor, handlers, heard>>
    BY <1>7 DEF Fire, Directory!Tell
  <2>2. phase # "register" => running' = running \cup {n}
    BY <1>7 DEF Fire, Registered
  <2>3. Covered'
    BY <2>1, <2>2, <1>a DEF IInv, Covered
  <2>. QED
    BY <2>1, <2>3 DEF request, IInv, FilterMode, DelegatesKept, ReplayOver,
                      EnteredWithNotice
<1>8. ASSUME NEW d \in Device, HandleAddedDevice(d) PROVE IInv'
  <2>1. Covered'
    BY <1>8, HearCovers DEF HandleAddedDevice
  <2>. QED
    BY <1>8, <2>1 DEF HandleAddedDevice, request, IInv, FilterMode, DelegatesKept,
                      ReplayOver, EnteredWithNotice
<1>9. ASSUME NEW d \in Device, HandleRemovedDevice(d) PROVE IInv'
  <2>1. /\ UNCHANGED <<directory, request, constructor, handlers, heard>>
        /\ \A c : <<"added", c>> \in running => <<"added", c>> \in running'
    BY <1>9 DEF HandleRemovedDevice
  <2>2. Covered'
    BY <2>1, <1>a DEF IInv, Covered
  <2>. QED
    BY <2>1, <2>2 DEF request, IInv, FilterMode, DelegatesKept, ReplayOver,
                      EnteredWithNotice
<1>10. CASE UNCHANGED vars
  <2>1. Covered'
    BY <1>10, <1>a DEF vars, IInv, Covered
  <2>. QED
    BY <1>10, <2>1 DEF vars, request, IInv, FilterMode, DelegatesKept, ReplayOver,
                       EnteredWithNotice
<1>. QED
  BY <1>1, <1>2, <1>3, <1>4, <1>5, <1>6, <1>7, <1>8, <1>9, <1>10
     DEF Next, Constructor, Handler

----------------------------------------------------------------------------
\* The inductive invariant of the filter holds in every behaviour.
THEOREM InvariantCorrect == Spec => []IInv
<1>1. Safety => []IInv
  BY InvariantInit, InvariantStep, PTL DEF Safety
<1>. QED
  BY <1>1 DEF Spec

\* The variables keep their types.
THEOREM TypeCorrect == Spec => []TypeOK
<1>1. IInv => TypeOK
  BY DEF IInv
<1>. QED
  BY <1>1, InvariantCorrect, PTL

\* However registration and replay meet the directory's events, no device is missed.
THEOREM NothingEverMissed == Spec => []NothingMissed
<1>1. IInv => NothingMissed
  BY DEF IInv, ReplayOver, Covered, Handled, NothingMissed
<1>. QED
  BY <1>1, InvariantCorrect, PTL

----------------------------------------------------------------------------
(***************************************************************************)
(* How often the application hears.                                        *)
(***************************************************************************)
\* The announcements that concern the tree of d.
Concerns(a, d) ==
  \E u \in Tree[d] :
    a = <<"device", u>> \/ \E s \in Services[u] : a = <<"service", s>>

\* How often one addition makes an announcement at most.
Limit(a) ==
  IF a[1] = "device" /\ Cardinality(Services[a[2]]) > 1 THEN Cardinality(Services[a[2]]) ELSE 1

ToReplay(d) == phase \in {"register", "snapshot"} \/ d \in replaying
ToEnter(d) == d \notin listed \cup retired
ToHandle(d) == ToEnter(d) \/ <<"added", d>> \in owed \cup running

\* The notice of an addition is in one place, and for a device that entered.
NoticeOnce ==
  \A d \in Device :
    /\ <<"added", d>> \in owed \cup running => ~ToEnter(d)
    /\ ~(<<"added", d>> \in owed /\ <<"added", d>> \in running)

\* An announcement was made for each of the replay and the event that is over.
HeardInTurn ==
  \A a \in Announcement :
    /\ (\A d \in Device : ~Concerns(a, d)) => heard[a] = 0
    /\ \A d \in Device :
         Concerns(a, d) =>
           /\ ToReplay(d) /\ ToHandle(d) => heard[a] = 0
           /\ ToReplay(d) \/ ToHandle(d) => heard[a] <= Limit(a)
           /\ heard[a] <= 2 * Limit(a)

CInv == IInv /\ NoticeOnce /\ HeardInTurn

----------------------------------------------------------------------------
\* A tree has its root, and with a device all that it embeds.
LEMMA TreeClosed ==
  ASSUME NEW d \in Unit
  PROVE  /\ Tree[d] \subseteq Unit /\ d \in Tree[d]
         /\ \A v \in Tree[d] : Embedded[v] \subseteq Tree[d]
<1>1. Tree[d] = {u \in Unit : \A T \in SUBSET Unit :
                   d \in T /\ (\A v \in T : Embedded[v] \subseteq T) => u \in T}
  BY DEF Tree
<1>2. \A v \in Unit : Embedded[v] \subseteq Unit
  BY FilterAssumption
<1>3. ASSUME NEW v \in Tree[d], NEW e \in Embedded[v] PROVE e \in Tree[d]
  <2>1. e \in Unit
    BY <1>1, <1>2, <1>3
  <2>2. ASSUME NEW T \in SUBSET Unit, d \in T, \A w \in T : Embedded[w] \subseteq T
        PROVE  e \in T
    <3>1. v \in T
      BY <1>1, <2>2
    <3> QED
      BY <1>3, <2>2, <3>1
  <2> QED
    BY <1>1, <2>1, <2>2
<1> QED
  BY <1>1, <1>3

\* Any other member is embedded in a member.
LEMMA TreeParent ==
  ASSUME NEW d \in Unit, NEW u \in Tree[d], u # d
  PROVE  \E w \in Tree[d] : u \in Embedded[w]
<1> SUFFICES ASSUME \A w \in Tree[d] : u \notin Embedded[w] PROVE FALSE
  OBVIOUS
<1> DEFINE T == Tree[d] \ {u}
<1>1. T \in SUBSET Unit /\ d \in T /\ \A v \in T : Embedded[v] \subseteq T
  BY TreeClosed
<1>2. u \notin T
  OBVIOUS
<1>3. u \in {x \in Unit : \A S \in SUBSET Unit :
               d \in S /\ (\A v \in S : Embedded[v] \subseteq S) => x \in S}
  BY DEF Tree
<1> HIDE DEF T
<1> QED
  BY <1>1, <1>2, <1>3

\* No device is in the trees of two root devices.
LEMMA TreesDisjoint ==
  ASSUME NEW c \in Device, NEW d \in Device, c # d
  PROVE  Tree[c] \cap Tree[d] = {}
<1> DEFINE T == Unit \ Tree[d]
<1>1. c \in Unit /\ d \in Unit
  BY FilterAssumption
<1>2. Tree[d] \subseteq Unit
  BY <1>1, TreeClosed
<1>3. \A w \in Unit : c \notin Embedded[w] /\ d \notin Embedded[w]
  BY FilterAssumption
<1>4. c \in T
  <2>1. c \in Tree[d] => \E w \in Tree[d] : c \in Embedded[w]
    BY <1>1, TreeParent
  <2> QED
    BY <1>1, <1>2, <1>3, <2>1
<1>5. ASSUME NEW v \in T PROVE Embedded[v] \subseteq T
  <2>1. Embedded[v] \subseteq Unit
    BY FilterAssumption
  <2>2. ASSUME NEW e \in Embedded[v], e \in Tree[d] PROVE FALSE
    <3>1. e # d
      BY <1>3, <2>2
    <3>2. PICK w \in Tree[d] : e \in Embedded[w]
      BY <1>1, <2>2, <3>1, TreeParent
    <3>3. w \in Unit /\ v \in Unit /\ w # v
      BY <1>2, <1>5, <3>2
    <3>4. Embedded[w] \cap Embedded[v] = {}
      BY <3>3, FilterAssumption
    <3> QED
      BY <2>2, <3>2, <3>4
  <2> QED
    BY <2>1, <2>2
<1>6. \A u \in Tree[c] : \A S \in SUBSET Unit :
        c \in S /\ (\A v \in S : Embedded[v] \subseteq S) => u \in S
  BY <1>1 DEF Tree
<1>7. T \in SUBSET Unit
  OBVIOUS
<1>8. Tree[c] \subseteq T
  <2> HIDE DEF T
  <2> QED
    BY <1>4, <1>5, <1>6, <1>7
<1> QED
  BY <1>8

LEMMA ParentUnique ==
  ASSUME NEW u \in Unit, NEW s \in Services[u]
  PROVE  s \in Service /\ ParentDevice(s) = u
<1>1. s \in Service
  BY FilterAssumption
<1>2. ParentDevice(s) \in Unit /\ s \in Services[ParentDevice(s)]
  BY <1>1, FilterAssumption DEF ParentDevice
<1>3. \A v \in Unit : s \in Services[v] => v = u
  BY FilterAssumption
<1> QED
  BY <1>1, <1>2, <1>3

\* An announcement concerns one tree.
LEMMA ConcernsOne ==
  ASSUME NEW c \in Device, NEW d \in Device, NEW a, Concerns(a, c), Concerns(a, d)
  PROVE  c = d
<1>1. \A x \in Device : x \in Unit /\ Tree[x] \subseteq Unit
  BY FilterAssumption, TreeClosed
<1>2. PICK u \in Tree[c] : a = <<"device", u>> \/ \E s \in Services[u] : a = <<"service", s>>
  BY DEF Concerns
<1>3. PICK v \in Tree[d] : a = <<"device", v>> \/ \E s \in Services[v] : a = <<"service", s>>
  BY DEF Concerns
<1>4. u \in Unit /\ v \in Unit
  BY <1>1
<1>5. u = v
  BY <1>2, <1>3, <1>4, ParentUnique
<1> QED
  BY <1>5, TreesDisjoint

\* What the filters find is of the tree.
LEMMA ResultsInTree ==
  ASSUME TypeOK, NEW d \in Device
  PROVE  /\ \A u \in Unit \cap Results(d) : u \in Tree[d]
         /\ \A s \in Service \cap Results(d) : \E u \in Tree[d] : s \in Services[u]
         /\ \A s \in Service \cap Results(d) : ParentDevice(s) \in Tree[d]
<1>1. d \in Unit /\ d \notin Service /\ d \in Tree[d] /\ Tree[d] \subseteq Unit
  BY FilterAssumption, TreeClosed
<1>2. \A u \in Unit : u \notin Service
  BY FilterAssumption
<1>3. \A f \in PartialMatchFilters : f \in Filter
  BY DEF TypeOK
<1>4. ASSUME NEW f \in Filter
      PROVE  Matching[f][d] =
               IF f = RootFilter /\ d \in Device
                 THEN {d}
                 ELSE {u \in Tree[d] : f \in Passes[u]} \cup
                      {s \in Service : \E u \in Tree[d] :
                         s \in Services[u] /\ f \in Passes[s] \ Passes[u]}
  BY <1>1 DEF Matching
<1>5. ASSUME NEW x \in Results(d)
      PROVE  \/ x \in Tree[d]
             \/ x \in Service /\ \E u \in Tree[d] : x \in Services[u]
  <2>1. PICK f \in PartialMatchFilters : x \in Matching[f][d]
    BY DEF Results
  <2>2. f \in Filter
    BY <1>3
  <2>3. CASE f = RootFilter /\ d \in Device
    <3>1. Matching[f][d] = {d}
      BY <1>4, <2>2, <2>3
    <3> QED
      BY <1>1, <2>1, <3>1
  <2>4. CASE ~(f = RootFilter /\ d \in Device)
    <3>1. Matching[f][d] = {u \in Tree[d] : f \in Passes[u]} \cup
                           {s \in Service : \E u \in Tree[d] :
                              s \in Services[u] /\ f \in Passes[s] \ Passes[u]}
      BY <1>4, <2>2, <2>4
    <3> QED
      BY <2>1, <3>1
  <2> QED
    BY <2>3, <2>4
<1> QED
  BY <1>1, <1>2, <1>5, ParentUnique

LEMMA LimitType ==
  ASSUME NEW a \in Announcement
  PROVE  /\ Limit(a) \in Nat /\ Limit(a) >= 1
         /\ a[1] = "device" => Limit(a) >= Cardinality(Services[a[2]])
<1> DEFINE n == Cardinality(Services[a[2]])
<1>1. a[1] = "device" => n \in Nat
  <2>1. a[1] = "device" => a[2] \in Unit
    BY DEF Announcement
  <2>2. \A u \in Unit : Services[u] \subseteq Service
    BY FilterAssumption
  <2>3. \A u \in Unit : Cardinality(Services[u]) \in Nat
    BY <2>2, FilterAssumption, FS_Subset, FS_CardinalityType
  <2> QED
    BY <2>1, <2>3
<1>2. Limit(a) = IF a[1] = "device" /\ n > 1 THEN n ELSE 1
  BY DEF Limit
<1> HIDE DEF n
<1>3. Limit(a) \in Nat /\ Limit(a) >= 1 /\ (a[1] = "device" => Limit(a) >= n)
  BY <1>1, <1>2
<1> QED
  BY <1>3 DEF n

\* One addition makes an announcement within its limit, and of its tree only.
LEMMA CountBound ==
  ASSUME TypeOK, NEW d \in Device, NEW a \in Announcement
  PROVE  /\ Count(d, a) \in Nat /\ Count(d, a) <= Limit(a)
         /\ Count(d, a) > 0 => Concerns(a, d)
<1>1. Count(d, a) \in Nat
  BY CountType
<1>2. Limit(a) \in Nat /\ Limit(a) >= 1
  BY LimitType
<1>3. ASSUME NEW u \in Unit, a = <<"device", u>>, DeviceCount(d, u) # 0
      PROVE  DeviceCount(d, u) <= Limit(a) /\ u \in Tree[d]
  <2>1. CASE ~OneFilter
    <3>1. DeviceCount(d, u) = 1 /\ u \in Combined(d)
      BY <1>3, <2>1 DEF DeviceCount
    <3>2. u \in Tree[d]
      BY <3>1, ResultsInTree DEF Combined
    <3> QED
      BY <1>2, <3>1, <3>2
  <2>2. CASE OneFilter /\ u \in Results(d)
    <3>1. DeviceCount(d, u) = 1
      BY <2>2 DEF DeviceCount
    <3> QED
      BY <1>2, <2>2, <3>1, ResultsInTree
  <2>3. CASE OneFilter /\ u \notin Results(d)
    <3>1. DeviceCount(d, u) = Cardinality(FoundServices(d, u)) /\ Cardinality(FoundServices(d, u)) # 0
      BY <1>3, <2>3 DEF DeviceCount
    <3>2. FoundServices(d, u) # {}
      BY <3>1, FS_EmptySet
    <3>3. PICK s \in FoundServices(d, u) : TRUE
      BY <3>2
    <3>4. u \in Tree[d]
      BY <3>3, ResultsInTree DEF FoundServices
    <3>5. FoundServices(d, u) \subseteq Services[u]
      BY FilterAssumption DEF FoundServices, ParentDevice
    <3>6. IsFiniteSet(Services[u])
      BY FilterAssumption, FS_Subset
    <3>7. Cardinality(FoundServices(d, u)) <= Cardinality(Services[u])
      BY <3>5, <3>6, FS_Subset
    <3>8. Cardinality(Services[u]) \in Nat /\ Cardinality(FoundServices(d, u)) \in Nat
      BY <3>5, <3>6, FS_Subset, FS_CardinalityType
    <3>9. Limit(a) >= Cardinality(Services[u])
      BY <1>3, LimitType
    <3> DEFINE m == Cardinality(FoundServices(d, u))
               n == Cardinality(Services[u])
    <3> HIDE DEF m, n
    <3>10. m <= n /\ m \in Nat /\ n \in Nat /\ Limit(a) >= n => m <= Limit(a)
      BY <1>2
    <3> QED
      BY <3>1, <3>4, <3>7, <3>8, <3>9, <3>10 DEF m, n
  <2> QED
    BY <2>1, <2>2, <2>3
<1>4. CASE Count(d, a) = 0
  BY <1>2, <1>4
<1>5. CASE Count(d, a) # 0 /\ \E u \in Unit : a = <<"device", u>>
  <2>1. PICK u \in Unit : a = <<"device", u>>
    BY <1>5
  <2>2. Count(d, a) = DeviceCount(d, u)
    BY <1>5, <2>1 DEF Count
  <2> QED
    BY <1>1, <1>3, <1>5, <2>1, <2>2 DEF Concerns
<1>6. CASE Count(d, a) # 0 /\ \E s \in Service : a = <<"service", s>>
  <2>1. PICK s \in Service : a = <<"service", s>>
    BY <1>6
  <2>2. Count(d, a) = ServiceCount(d, s)
    BY <1>6, <2>1 DEF Count
  <2>3. Count(d, a) = 1 /\ s \in Results(d)
    BY <1>6, <2>2 DEF ServiceCount
  <2>4. Concerns(a, d)
    BY <2>1, <2>3, ResultsInTree DEF Concerns
  <2> QED
    BY <1>2, <2>3, <2>4
<1> QED
  BY <1>4, <1>5, <1>6 DEF Announcement

\* A step that runs HandleAddedDevice for d, in its turn.
LEMMA HearInTurn ==
  ASSUME TypeOK, HeardInTurn, NEW d \in Device, Hear(d), ToReplay(d) \/ ToHandle(d),
         \A c \in Device : /\ ToReplay(c)' => ToReplay(c)
                           /\ ToHandle(c)' => ToHandle(c),
         ~(ToReplay(d)' /\ ToHandle(d)'),
         ToReplay(d)' \/ ToHandle(d)' => ToReplay(d) /\ ToHandle(d)
  PROVE  HeardInTurn'
<1>1. /\ heard \in [Announcement -> Nat]
      /\ \A a \in Announcement : heard'[a] = heard[a] + Count(d, a)
  BY HearType DEF TypeOK
<1>2. \A a, c : Concerns(a, c)' <=> Concerns(a, c)
  BY DEF Concerns
<1> SUFFICES ASSUME NEW a \in Announcement
             PROVE  /\ (\A c \in Device : ~Concerns(a, c)) => heard'[a] = 0
                    /\ \A c \in Device :
                         Concerns(a, c) =>
                           /\ ToReplay(c)' /\ ToHandle(c)' => heard'[a] = 0
                           /\ ToReplay(c)' \/ ToHandle(c)' => heard'[a] <= Limit(a)
                           /\ heard'[a] <= 2 * Limit(a)
  BY <1>2 DEF HeardInTurn, Limit
<1>3. /\ Count(d, a) \in Nat /\ Count(d, a) <= Limit(a)
      /\ Count(d, a) > 0 => Concerns(a, d)
  BY CountBound
<1>4. Limit(a) \in Nat /\ heard[a] \in Nat /\ heard'[a] = heard[a] + Count(d, a)
  BY <1>1, LimitType
<1>5. /\ (\A c \in Device : ~Concerns(a, c)) => heard[a] = 0
      /\ \A c \in Device :
           Concerns(a, c) =>
             /\ ToReplay(c) /\ ToHandle(c) => heard[a] = 0
             /\ ToReplay(c) \/ ToHandle(c) => heard[a] <= Limit(a)
             /\ heard[a] <= 2 * Limit(a)
  BY DEF HeardInTurn
<1>6. CASE Concerns(a, d)
  <2>1. \A c \in Device : Concerns(a, c) => c = d
    BY <1>6, ConcernsOne
  <2>2. heard[a] <= Limit(a) /\ (ToReplay(d)' \/ ToHandle(d)' => heard[a] = 0)
    BY <1>5, <1>6
  <2> QED
    BY <1>3, <1>4, <1>6, <2>1, <2>2
<1>7. CASE ~Concerns(a, d)
  <2>1. heard'[a] = heard[a]
    BY <1>3, <1>4, <1>7
  <2> QED
    BY <1>5, <2>1
<1> QED
  BY <1>6, <1>7

\* A step that tells the application of no addition.
LEMMA SilentInTurn ==
  ASSUME HeardInTurn, UNCHANGED heard,
         \A c \in Device : /\ ToReplay(c)' => ToReplay(c)
                           /\ ToHandle(c)' => ToHandle(c)
  PROVE  HeardInTurn'
<1>1. \A a, c : Concerns(a, c)' <=> Concerns(a, c)
  BY DEF Concerns
<1> QED
  BY <1>1 DEF HeardInTurn, Limit

LEMMA CountedStep == CInv /\ [Next]_vars => CInv'
<1> SUFFICES ASSUME CInv, [Next]_vars PROVE CInv'
  OBVIOUS
<1>0. /\ IInv /\ IInv' /\ TypeOK /\ NoticeOnce /\ HeardInTurn
      /\ listed \subseteq Device
  BY InvariantStep DEF CInv, IInv, TypeOK, Directory!TypeOK
<1>1. ASSUME UNCHANGED <<directory, running, heard>>, phase # "register" => phase' # "register",
             \A c \in Device : ToReplay(c)' => ToReplay(c)
      PROVE  CInv'
  <2>1. NoticeOnce' /\ \A c \in Device : ToHandle(c)' => ToHandle(c)
    BY <1>0, <1>1 DEF NoticeOnce, ToHandle, ToEnter, directory
  <2> QED
    BY <1>0, <1>1, <2>1, SilentInTurn DEF CInv
<1>2. CASE Register \/ Snapshot \/ Constructed \/ \E E \in SUBSET Attachable : Attach(E)
  <2>1. /\ UNCHANGED <<directory, running, heard>>
        /\ phase # "register" => phase' # "register"
    BY <1>2 DEF Register, Snapshot, Constructed, Attach, constructor
  <2>2. ASSUME NEW c \in Device, ToReplay(c)' PROVE ToReplay(c)
    BY <1>2, <2>2 DEF Register, Snapshot, Constructed, Attach, constructor, ToReplay
  <2> QED
    BY <1>1, <2>1, <2>2
<1>3. ASSUME NEW d \in Device, Replay(d) PROVE CInv'
  <2>1. /\ phase = "replay" /\ d \in replaying /\ replaying' = replaying \ {d} /\ Hear(d)
        /\ UNCHANGED <<directory, phase, running>>
    BY <1>3 DEF Replay
  <2>2. NoticeOnce' /\ \A c \in Device : ToHandle(c)' => ToHandle(c)
    BY <1>0, <2>1 DEF NoticeOnce, ToHandle, ToEnter, directory
  <2>3. \A c \in Device : ToReplay(c)' => ToReplay(c)
    BY <2>1 DEF ToReplay
  <2>4. ToReplay(d) /\ ~ToReplay(d)'
    BY <2>1 DEF ToReplay
  <2>5. HeardInTurn'
    BY <1>0, <2>1, <2>2, <2>3, <2>4, HearInTurn
  <2> QED
    BY <1>0, <2>2, <2>5 DEF CInv
<1>4. ASSUME NEW d \in Device, HandleAddedDevice(d) PROVE CInv'
  <2>1. /\ <<"added", d>> \in running /\ running' = running \ {<<"added", d>>} /\ Hear(d)
        /\ UNCHANGED <<directory, constructor>>
    BY <1>4 DEF HandleAddedDevice
  <2>2. NoticeOnce'
    BY <1>0, <2>1 DEF NoticeOnce, ToEnter, directory
  <2>3. ToHandle(d) /\ ~ToHandle(d)'
    BY <1>0, <2>1 DEF NoticeOnce, ToHandle, ToEnter, directory
  <2>4. \A c \in Device : /\ ToHandle(c)' => ToHandle(c)
                          /\ ToReplay(c)' => ToReplay(c)
    BY <2>1 DEF ToHandle, ToEnter, ToReplay, directory, constructor
  <2>5. HeardInTurn'
    BY <1>0, <2>1, <2>3, <2>4, HearInTurn
  <2> QED
    BY <1>0, <2>2, <2>5 DEF CInv
<1>5. ASSUME NEW d \in Device, HandleRemovedDevice(d) PROVE CInv'
  <2>1. /\ UNCHANGED <<directory, constructor, heard>>
        /\ \A c : <<"added", c>> \in running' <=> <<"added", c>> \in running
    BY <1>5 DEF HandleRemovedDevice
  <2>2. NoticeOnce'
    BY <1>0, <2>1 DEF NoticeOnce, ToEnter, directory
  <2>3. \A c \in Device : /\ ToHandle(c)' => ToHandle(c)
                          /\ ToReplay(c)' => ToReplay(c)
    BY <2>1 DEF ToHandle, ToEnter, ToReplay, directory, constructor
  <2> QED
    BY <1>0, <2>1, <2>2, <2>3, SilentInTurn DEF CInv
<1>6. CASE DirectoryChanges
  <2>1. /\ listed \cup retired \subseteq listed' \cup retired'
        /\ \A c : <<"added", c>> \in owed' =>
                    <<"added", c>> \in owed \/ (ToEnter(c) /\ c \in listed')
        /\ UNCHANGED <<constructor, running, heard>>
    <3>1. UNCHANGED <<constructor, running, heard>>
      BY <1>6 DEF DirectoryChanges
    <3>2. ASSUME NEW c \in Device, Directory!Enter(c)
          PROVE  /\ listed \cup retired \subseteq listed' \cup retired'
                 /\ \A b : <<"added", b>> \in owed' =>
                             <<"added", b>> \in owed \/ (ToEnter(b) /\ b \in listed')
      BY <3>2 DEF Directory!Enter, ToEnter
    <3>3. ASSUME NEW S \in SUBSET listed, NEW N \in SUBSET S, NEW kind \in {"removed", "expired"},
                 Directory!Leave(S, N, kind)
          PROVE  /\ listed \cup retired \subseteq listed' \cup retired'
                 /\ \A b : <<"added", b>> \in owed' => <<"added", b>> \in owed
      BY <3>3 DEF Directory!Leave
    <3> QED
      BY <1>6, <3>1, <3>2, <3>3 DEF DirectoryChanges
  <2>2. NoticeOnce'
    BY <1>0, <2>1 DEF NoticeOnce, ToEnter
  <2>3. \A c \in Device : /\ ToHandle(c)' => ToHandle(c)
                          /\ ToReplay(c)' => ToReplay(c)
    BY <2>1 DEF ToHandle, ToEnter, ToReplay, constructor
  <2> QED
    BY <1>0, <2>1, <2>2, <2>3, SilentInTurn DEF CInv
<1>7. ASSUME NEW n \in owed, Fire(n) PROVE CInv'
  <2>1. /\ owed' = owed \ {n} /\ running' \in {running, running \cup {n}}
        /\ UNCHANGED <<listed, retired, constructor, heard>>
    BY <1>7 DEF Fire, Directory!Tell
  <2>2. NoticeOnce'
    BY <1>0, <2>1 DEF NoticeOnce, ToEnter
  <2>3. \A c \in Device : /\ ToHandle(c)' => ToHandle(c)
                          /\ ToReplay(c)' => ToReplay(c)
    BY <2>1 DEF ToHandle, ToEnter, ToReplay, constructor
  <2> QED
    BY <1>0, <2>1, <2>2, <2>3, SilentInTurn DEF CInv
<1>8. CASE UNCHANGED vars
  <2>1. UNCHANGED <<directory, running, heard, phase, replaying>>
    BY <1>8 DEF vars, constructor
  <2> QED
    BY <1>1, <2>1 DEF ToReplay
<1> QED
  BY <1>2, <1>3, <1>4, <1>5, <1>6, <1>7, <1>8 DEF Next, Constructor, Handler

\* How often everything was heard, for each addition that is over: in every behaviour.
THEOREM CountedCorrect == Spec => []CInv
<1>1. Init => CInv
  <2> SUFFICES ASSUME Init PROVE CInv
    OBVIOUS
  <2>1. NoticeOnce
    BY DEF Init, Directory!Init, NoticeOnce
  <2>2. \A a \in Announcement : heard[a] = 0 /\ Limit(a) \in Nat
    BY LimitType DEF Init
  <2>3. HeardInTurn
    BY <2>2 DEF HeardInTurn
  <2> QED
    BY <2>1, <2>3, InvariantInit DEF CInv
<1>2. Safety => []CInv
  BY <1>1, CountedStep, PTL DEF Safety
<1> QED
  BY <1>2 DEF Spec

\* The application never hears more often than twice of what was added, once for the
\* replay and once for the event.
THEOREM NeverHeardMore == Spec => []HeardTwiceAtMost
<1>1. CInv => HeardTwiceAtMost
  <2> SUFFICES ASSUME CInv PROVE HeardTwiceAtMost
    OBVIOUS
  <2>1. ASSUME NEW a \in Announcement PROVE heard[a] <= 2 * Limit(a)
    <3>1. heard[a] \in Nat /\ Limit(a) \in Nat
      BY LimitType DEF CInv, IInv, TypeOK
    <3>2. CASE \E d \in Device : Concerns(a, d)
      BY <3>2 DEF CInv, HeardInTurn
    <3>3. CASE \A d \in Device : ~Concerns(a, d)
      <4>1. heard[a] = 0
        BY <3>3 DEF CInv, HeardInTurn
      <4> QED
        BY <3>1, <4>1
    <3> QED
      BY <3>2, <3>3
  <2>2. ASSUME NEW s \in Service PROVE heard[<<"service", s>>] <= 2
    <3>1. <<"service", s>> \in Announcement /\ Limit(<<"service", s>>) = 1
      BY DEF Announcement, Limit
    <3> QED
      BY <2>1, <3>1
  <2>3. ASSUME NEW u \in Unit
        PROVE  \/ heard[<<"device", u>>] <= 2
               \/ heard[<<"device", u>>] <= 2 * Cardinality(Services[u])
    <3>1. <<"device", u>> \in Announcement
      BY DEF Announcement
    <3>2. Limit(<<"device", u>>) = 1 \/ Limit(<<"device", u>>) = Cardinality(Services[u])
      BY DEF Limit
    <3>3. heard[<<"device", u>>] <= 2 * Limit(<<"device", u>>)
      BY <2>1, <3>1
    <3> QED
      BY <3>2, <3>3
  <2> QED
    BY <2>2, <2>3 DEF HeardTwiceAtMost
<1> QED
  BY <1>1, CountedCorrect, PTL
=============================================================================
