----------------------- MODULE UPnPDeviceFactory_proof -----------------------
(***************************************************************************)
(* Proofs about UPnPDeviceFactory, for any device tree.  Every service is  *)
(* still ahead of the walk, has one request under way, is counted once, or *)
(* is lost: it was skipped by the walk, or its answer was not counted.  A  *)
(* lost service stays lost and keeps ServiceNum above 0; so the device is  *)
(* delivered only if none is lost, and then no URL was mixed up with       *)
(* another service's.                                                      *)
(***************************************************************************)
EXTENDS UPnPDeviceFactory, FiniteSetTheorems, SequenceTheorems, TLAPS

Walking == pc \in {"check", "url", "tag"}

Ahead == {s \in AllServices :
            /\ Walking
            /\ \E d \in DOMAIN Services : \E j \in DOMAIN Services[d] :
                 /\ Services[d][j] = s
                 /\ d > walk.dev \/ (d = walk.dev /\ j >= walk.x)}

Asked == {s \in AllServices : \E r \in requests : r.tag = s}

Counted == {s \in AllServices : \E u \in AllServices : <<u, s>> \in parsed \cup dropped}

Lost == AllServices \ (Ahead \cup Asked \cup Counted)

\* The description was refused.
Refused == pc = "done" /\ requests = {} /\ delivered = 0 /\ failures > 0

Fresh ==
  /\ walk = [dev |-> 1, x |-> 1, url |-> NoUrl] /\ Services = Tree
  /\ requests = {} /\ parsed = {} /\ dropped = {}
  /\ delivered = 0 /\ failures = 0

\* The lists still hold each service once, and those that were not dropped.
Shape ==
  /\ Len(Services) = Len(Tree)
  /\ \A d, e \in DOMAIN Services : \A i \in DOMAIN Services[d], j \in DOMAIN Services[e] :
       Services[d][i] = Services[e][j] => d = e /\ i = j
  /\ \A s \in AllServices :
       (\E d \in DOMAIN Services : \E j \in DOMAIN Services[d] : Services[d][j] = s)
         <=> \A u \in AllServices : <<u, s>> \notin dropped
  /\ Walking => walk.dev \in DOMAIN Services /\ walk.x >= 1
  /\ pc = "tag" => walk.url \in AllServices

\* A service is asked for and counted once at most.
Once ==
  /\ \A r, q \in requests : r.tag = q.tag => r = q
  /\ Ahead \cap Asked = {} /\ Ahead \cap Counted = {} /\ Asked \cap Counted = {}
  /\ \A s, u, v \in AllServices : <<u, s>> \in parsed => <<v, s>> \notin dropped

\* A service whose URL was used for another one is lost.
Mixed ==
  /\ \A r \in requests : r.url = r.tag \/ r.url \in Lost
  /\ \A u, s \in AllServices : <<u, s>> \in parsed \cup dropped => u = s \/ u \in Lost
  /\ pc = "tag" =>
       \/ walk.url \in Lost
       \/ /\ walk.x \in DOMAIN Services[walk.dev]
          /\ Services[walk.dev][walk.x] = walk.url

Accounts ==
  /\ pc = "description" => Fresh
  /\ pc # "description" => ServiceNum = Cardinality(AllServices \ Counted) \/ Refused
  /\ delivered > 0 => delivered = 1 /\ failures = 0 /\ AllServices \subseteq Counted
  /\ failures > 0 => Refused \/ Lost # {}

IInv == TypeOK /\ Shape /\ Once /\ Mixed /\ Accounts

----------------------------------------------------------------------------
LEMMA AllFinite ==
  /\ IsFiniteSet(AllServices)
  /\ \A S \in SUBSET AllServices : IsFiniteSet(S) /\ Cardinality(S) \in 0..Cardinality(AllServices)
<1>1. ASSUME NEW d \in DOMAIN Tree PROVE IsFiniteSet(ToSet(Tree[d]))
  <2>1. Tree[d] \in Seq(ToSet(Tree[d]))
    BY FactoryAssumption DEF ToSet
  <2>2. \A s \in ToSet(Tree[d]) : \E i \in 1..Len(Tree[d]) : Tree[d][i] = s
    BY FactoryAssumption DEF ToSet
  <2> QED
    BY <2>1, <2>2 DEF IsFiniteSet
<1>2. IsFiniteSet({ToSet(Tree[d]) : d \in DOMAIN Tree})
  <2> DEFINE sets == {ToSet(Tree[d]) : d \in DOMAIN Tree}
             list == [d \in 1..Len(Tree) |-> ToSet(Tree[d])]
  <2>1. DOMAIN Tree = 1..Len(Tree) /\ Len(Tree) \in Nat
    BY FactoryAssumption
  <2>2. list \in Seq(sets) /\ Len(list) = Len(Tree)
    BY <2>1
  <2>3. \A s \in sets : \E d \in 1..Len(list) : list[d] = s
    BY <2>1, <2>2
  <2> QED
    BY <2>2, <2>3 DEF IsFiniteSet
<1>3. IsFiniteSet(AllServices)
  BY <1>1, <1>2, FS_UNION DEF AllServices
<1> QED
  BY <1>3, FS_Subset, FS_CardinalityType

\* What RemoveService does to a list without repetitions.
LEMMA Removal ==
  ASSUME NEW list \in Seq(AllServices), NEW s,
         \A i, j \in DOMAIN list : list[i] = list[j] => i = j
  PROVE  LET new == RemoveService(list, s) IN
         /\ new \in Seq(AllServices)
         /\ \/ new = list /\ \A i \in DOMAIN list : list[i] # s
            \/ \E k \in DOMAIN list :
                 /\ list[k] = s
                 /\ Len(new) = Len(list) - 1
                 /\ \A j \in DOMAIN new : new[j] = IF j < k THEN list[j] ELSE list[j + 1]
<1>1. CASE \A i \in DOMAIN list : list[i] # s
  BY <1>1 DEF RemoveService
<1>2. CASE \E i \in DOMAIN list : list[i] = s
  <2> DEFINE k == CHOOSE i \in DOMAIN list : list[i] = s
             left == SubSeq(list, 1, k - 1)
             right == SubSeq(list, k + 1, Len(list))
  <2>1. k \in DOMAIN list /\ list[k] = s
    BY <1>2
  <2>2. RemoveService(list, s) = left \o right
    BY <1>2 DEF RemoveService, RemoveAt
  <2>3. DOMAIN list = 1..Len(list) /\ Len(list) \in Nat /\ \A i \in 1..Len(list) : list[i] \in AllServices
    OBVIOUS
  <2> HIDE DEF k
  <2>4. k \in Nat /\ k >= 1 /\ k <= Len(list) /\ k - 1 \in Int /\ k + 1 \in Int /\ 1 \in Int
    BY <2>1, <2>3
  <2>5. left \in Seq(AllServices) /\ Len(left) = k - 1 /\ \A i \in 1..(k - 1) : left[i] = list[i]
    <3>1. \A i \in 1..(k - 1) : list[i] \in AllServices
      BY <2>3, <2>4
    <3>2. /\ left \in Seq(AllServices)
          /\ Len(left) = IF 1 <= k - 1 THEN (k - 1) - 1 + 1 ELSE 0
          /\ \A i \in 1..((k - 1) - 1 + 1) : left[i] = list[1 + i - 1]
      BY <3>1, <2>4, SubSeqProperties
    <3> QED
      BY <3>2, <2>4
  <2>6. /\ right \in Seq(AllServices) /\ Len(right) = Len(list) - k
        /\ \A i \in 1..(Len(list) - k) : right[i] = list[k + i]
    <3>1. \A i \in (k + 1)..Len(list) : list[i] \in AllServices
      BY <2>3, <2>4
    <3>2. /\ right \in Seq(AllServices)
          /\ Len(right) = IF k + 1 <= Len(list) THEN Len(list) - (k + 1) + 1 ELSE 0
          /\ \A i \in 1..(Len(list) - (k + 1) + 1) : right[i] = list[(k + 1) + i - 1]
      BY <3>1, <2>3, <2>4, SubSeqProperties
    <3> HIDE DEF right
    <3>3. Len(right) = Len(list) - k
      <4>1. Len(list) \in Nat
        BY <2>3
      <4>2. Len(right) = IF k + 1 <= Len(list) THEN Len(list) - (k + 1) + 1 ELSE 0
        BY <3>2
      <4> QED
        BY <4>1, <4>2, <2>4
    <3>4. ASSUME NEW i \in 1..(Len(list) - k) PROVE right[i] = list[k + i]
      <4>1. i \in 1..(Len(list) - (k + 1) + 1) /\ (k + 1) + i - 1 = k + i
        BY <2>3, <2>4
      <4> QED
        BY <3>2, <4>1
    <3> QED
      BY <3>2, <3>3, <3>4
  <2> HIDE DEF left, right
  <2>7. /\ left \o right \in Seq(AllServices)
        /\ Len(left \o right) = Len(left) + Len(right)
        /\ \A i \in 1..(Len(left) + Len(right)) :
             (left \o right)[i] = IF i <= Len(left) THEN left[i] ELSE right[i - Len(left)]
    BY <2>5, <2>6, ConcatProperties
  <2>8. DOMAIN (left \o right) = 1..(Len(list) - 1) /\ Len(left \o right) = Len(list) - 1
    <3>1. Len(left \o right) = Len(list) - 1
      BY <2>3, <2>4, <2>5, <2>6, <2>7
    <3>2. DOMAIN (left \o right) = 1..Len(left \o right)
      BY <2>7, LenProperties
    <3> QED
      BY <3>1, <3>2
  <2>9. ASSUME NEW j \in 1..(Len(list) - 1)
        PROVE  (left \o right)[j] = IF j < k THEN list[j] ELSE list[j + 1]
    <3>1. CASE j < k
      BY <3>1, <2>3, <2>4, <2>5, <2>6, <2>7
    <3>2. CASE ~(j < k)
      <4>1. (left \o right)[j] = right[j - (k - 1)]
        BY <3>2, <2>3, <2>4, <2>5, <2>6, <2>7
      <4>2. j - (k - 1) \in 1..(Len(list) - k) /\ k + (j - (k - 1)) = j + 1
        BY <3>2, <2>3, <2>4
      <4> QED
        BY <3>2, <4>1, <4>2, <2>6
    <3> QED
      BY <3>1, <3>2
  <2> QED
    BY <2>1, <2>2, <2>7, <2>8, <2>9
<1> QED
  BY <1>1, <1>2

----------------------------------------------------------------------------
LEMMA InitInvariant == Init => IInv
<1> SUFFICES ASSUME Init PROVE IInv
  OBVIOUS
<1>1. TypeOK
  <2>1. ServiceNum \in 0..Cardinality(AllServices)
    BY AllFinite, FS_CardinalityType DEF Init
  <2>2. walk \in [dev : 1..Len(Tree) + 1, x : Nat, url : AllServices \cup {NoUrl}]
    BY FactoryAssumption DEF Init
  <2> QED
    BY <2>1, <2>2, FactoryAssumption DEF Init, TypeOK
<1>2. Shape
  <2>1. ASSUME NEW d \in DOMAIN Tree, NEW e \in DOMAIN Tree, NEW i \in DOMAIN Tree[d],
               NEW j \in DOMAIN Tree[e], Tree[d][i] = Tree[e][j]
        PROVE  d = e /\ i = j
    <3>1. d = e
      BY <2>1, FactoryAssumption DEF ToSet
    <3> QED
      BY <2>1, <3>1, FactoryAssumption DEF IsInjective
  <2>2. \A s \in AllServices : \E d \in DOMAIN Tree : \E j \in DOMAIN Tree[d] : Tree[d][j] = s
    BY DEF AllServices, ToSet
  <2> QED
    BY <2>1, <2>2 DEF Init, Shape, Walking
<1>3. Once /\ Mixed /\ Accounts
  BY DEF Init, Once, Mixed, Accounts, Fresh, Ahead, Asked, Counted, Walking
<1> QED
  BY <1>1, <1>2, <1>3 DEF IInv

\* Where an answer is taken: its service is not counted yet, nothing is delivered.
LEMMA Taken ==
  ASSUME IInv, NEW r \in requests
  PROVE  /\ r \in Request /\ r = [url |-> r.url, tag |-> r.tag]
         /\ r.tag \in Asked /\ r.tag \notin Counted /\ r.tag \notin Ahead
         /\ pc # "description" /\ ~Refused
         /\ delivered = 0
         /\ ServiceNum = Cardinality(AllServices \ Counted)
         /\ ServiceNum >= 1
<1>1. r \in Request /\ r = [url |-> r.url, tag |-> r.tag] /\ r.tag \in AllServices
  BY DEF IInv, TypeOK, Request
<1>2. r.tag \in Asked /\ r.tag \notin Counted /\ r.tag \notin Ahead
  BY <1>1 DEF IInv, Once, Asked
<1>3. pc # "description" /\ ~Refused
  BY DEF IInv, Accounts, Fresh, Refused
<1>4. ServiceNum = Cardinality(AllServices \ Counted)
  BY <1>3 DEF IInv, Accounts
<1>5. delivered = 0
  BY <1>1, <1>2 DEF IInv, Accounts, TypeOK
<1>6. Cardinality(AllServices \ Counted) # 0
  <2>1. IsFiniteSet(AllServices \ Counted)
    BY AllFinite
  <2> QED
    BY <1>1, <1>2, <2>1, FS_EmptySet
<1> QED
  BY <1>1, <1>2, <1>3, <1>4, <1>5, <1>6 DEF IInv, TypeOK

\* The array of each device after the removal.
LEMMA Removed ==
  ASSUME IInv, NEW s,
         Services' = [d \in DOMAIN Services |-> RemoveService(Services[d], s)]
  PROVE  /\ Services' \in Seq(Seq(AllServices)) /\ Len(Services') = Len(Services)
         /\ DOMAIN Services' = DOMAIN Services
         /\ \A d \in DOMAIN Services :
              \/ Services'[d] = Services[d] /\ \A i \in DOMAIN Services[d] : Services[d][i] # s
              \/ \E k \in DOMAIN Services[d] :
                   /\ Services[d][k] = s
                   /\ Len(Services'[d]) = Len(Services[d]) - 1
                   /\ \A j \in DOMAIN Services'[d] :
                        Services'[d][j] = IF j < k THEN Services[d][j] ELSE Services[d][j + 1]
<1>1. Services \in Seq(Seq(AllServices))
  BY DEF IInv, TypeOK
<1>2. \A d \in DOMAIN Services :
        /\ Services[d] \in Seq(AllServices)
        /\ \A i, j \in DOMAIN Services[d] : Services[d][i] = Services[d][j] => i = j
  BY <1>1 DEF IInv, Shape
<1>3. DOMAIN Services = 1..Len(Services) /\ Len(Services) \in Nat
  BY <1>1
<1>4. \A d \in DOMAIN Services : Services'[d] \in Seq(AllServices)
  BY <1>2, Removal
<1>5. Services' \in Seq(Seq(AllServices)) /\ Len(Services') = Len(Services)
  BY <1>3, <1>4
<1>6. DOMAIN Services' = DOMAIN Services
  BY <1>3
<1>7. ASSUME NEW d \in DOMAIN Services
      PROVE  \/ Services'[d] = Services[d] /\ \A i \in DOMAIN Services[d] : Services[d][i] # s
             \/ \E k \in DOMAIN Services[d] :
                  /\ Services[d][k] = s
                  /\ Len(Services'[d]) = Len(Services[d]) - 1
                  /\ \A j \in DOMAIN Services'[d] :
                       Services'[d][j] = IF j < k THEN Services[d][j] ELSE Services[d][j + 1]
  <2>1. Services'[d] = RemoveService(Services[d], s)
    OBVIOUS
  <2> QED
    BY <2>1, <1>2, Removal
<1> QED
  BY <1>5, <1>6, <1>7

\* An answer, by what becomes of it.
LEMMA AnswerCases ==
  ASSUME IInv, ScpdAnswer
  PROVE  \E r \in requests :
           /\ requests' = requests \ {r} /\ UNCHANGED <<pc, walk>> /\ pc # "crashed"
           /\ \/ /\ parsed' = parsed \cup {<<r.url, r.tag>>}
                 /\ CountAnswer /\ UNCHANGED <<Services, dropped, shrunkWalk>>
              \/ /\ Services' = [d \in DOMAIN Services |-> RemoveService(Services[d], r.tag)]
                 /\ dropped' = dropped \cup {<<r.url, r.tag>>}
                 /\ shrunkWalk' \in BOOLEAN
                 /\ CountAnswer /\ UNCHANGED parsed
              \/ /\ UNCHANGED <<Services, ServiceNum, TempDevice, CreateTable, delivered,
                                failures, parsed, dropped, shrunkWalk>>
              \/ /\ failures' = failures + 1 /\ TempDevice' = FALSE /\ CreateTable' = FALSE
                 /\ UNCHANGED <<Services, ServiceNum, delivered, parsed, dropped, shrunkWalk>>
<1> shrunkWalk \in BOOLEAN
  BY DEF IInv, TypeOK
<1> QED
  BY DEF ScpdAnswer, ScpdParses, ScpdMalformed, ScpdFails, ReportFailure

LEMMA TypeStep == ASSUME IInv, [Next]_vars PROVE TypeOK'
<1> USE DEF IInv, TypeOK
<1>1. CASE DescriptionFails
  <2>1. TempDevice' \in BOOLEAN /\ CreateTable' \in BOOLEAN /\ shrunkWalk' \in BOOLEAN
    BY <1>1, Zenon DEF DescriptionFails, ReportFailure
  <2>2. failures' \in Nat
    BY <1>1 DEF DescriptionFails, ReportFailure
  <2> QED
    BY <1>1, <2>1, <2>2 DEF DescriptionFails, ReportFailure
<1>2. CASE DescriptionParses
  <2>1. Cardinality(AllServices) \in 0..Cardinality(AllServices)
    BY AllFinite
  <2>2. TempDevice' \in BOOLEAN /\ CreateTable' \in BOOLEAN /\ shrunkWalk' \in BOOLEAN
    BY <1>2, Zenon DEF DescriptionParses, ReportDevice
  <2>3. delivered' \in Nat /\ failures' \in Nat
    BY <1>2 DEF DescriptionParses, ReportDevice
  <2> QED
    BY <1>2, <2>1, <2>2, <2>3 DEF DescriptionParses, ReportDevice
<1>3. CASE WalkCheck
  <2>1. walk.dev \in DOMAIN Services /\ Len(Services) = Len(Tree)
    BY <1>3 DEF WalkCheck, Shape, Walking
  <2>2. walk.dev + 1 \in 1..Len(Tree) + 1
    BY <2>1, FactoryAssumption
  <2>3. walk' \in [dev : 1..Len(Tree) + 1, x : Nat, url : AllServices \cup {NoUrl}]
    <3>1. CASE UNCHANGED walk
      BY <3>1
    <3>2. CASE walk' = [walk EXCEPT !.dev = @ + 1, !.x = 1]
      <4>1. walk' = [dev |-> walk.dev + 1, x |-> 1, url |-> walk.url]
        BY <3>2
      <4> QED
        BY <4>1, <2>2
    <3> QED
      BY <1>3, <3>1, <3>2 DEF WalkCheck
  <2>4. pc' \in {"description", "check", "url", "tag", "done", "crashed", "refused"}
    BY <1>3 DEF WalkCheck
  <2> QED
    BY <1>3, <2>3, <2>4 DEF WalkCheck
<1>4. CASE WalkReadUrl
  <2>1. walk.dev \in DOMAIN Services /\ walk.x \in Nat /\ walk.x >= 1
    BY <1>4 DEF WalkReadUrl, Shape, Walking
  <2>2. Services[walk.dev] \in Seq(AllServices)
    BY <2>1
  <2>3. walk.x <= Len(Services[walk.dev]) => Services[walk.dev][walk.x] \in AllServices
    BY <2>1, <2>2
  <2> QED
    BY <1>4, <2>3 DEF WalkReadUrl
<1>5. CASE WalkLaunch
  <2>1. walk.dev \in DOMAIN Services /\ walk.x \in Nat /\ walk.x >= 1 /\ walk.url \in AllServices
    BY <1>5 DEF WalkLaunch, Shape, Walking
  <2>2. Services[walk.dev] \in Seq(AllServices)
    BY <2>1
  <2>3. walk.x <= Len(Services[walk.dev]) => Services[walk.dev][walk.x] \in AllServices
    BY <2>1, <2>2
  <2>4. requests' \subseteq Request
    BY <1>5, <2>1, <2>3 DEF WalkLaunch, Request
  <2>5. walk' \in [dev : 1..Len(Tree) + 1, x : Nat, url : AllServices \cup {NoUrl}]
    <3>1. CASE UNCHANGED walk
      BY <3>1
    <3>2. CASE walk' = [walk EXCEPT !.x = @ + 1]
      <4>1. walk' = [dev |-> walk.dev, x |-> walk.x + 1, url |-> walk.url]
        BY <3>2
      <4> QED
        BY <2>1, <4>1
    <3> QED
      BY <1>5, <3>1, <3>2 DEF WalkLaunch
  <2>6. pc' \in {"check", "crashed", "refused"}
    BY <1>5 DEF WalkLaunch
  <2> QED
    BY <1>5, <2>4, <2>5, <2>6 DEF WalkLaunch
<1>6. CASE ScpdAnswer
  <2>1. PICK r \in requests :
           /\ requests' = requests \ {r} /\ UNCHANGED <<pc, walk>> /\ pc # "crashed"
           /\ \/ /\ parsed' = parsed \cup {<<r.url, r.tag>>}
                 /\ CountAnswer /\ UNCHANGED <<Services, dropped, shrunkWalk>>
              \/ /\ Services' = [d \in DOMAIN Services |-> RemoveService(Services[d], r.tag)]
                 /\ dropped' = dropped \cup {<<r.url, r.tag>>}
                 /\ shrunkWalk' \in BOOLEAN
                 /\ CountAnswer /\ UNCHANGED parsed
              \/ /\ UNCHANGED <<Services, ServiceNum, TempDevice, CreateTable, delivered,
                                failures, parsed, dropped, shrunkWalk>>
              \/ /\ failures' = failures + 1 /\ TempDevice' = FALSE /\ CreateTable' = FALSE
                 /\ UNCHANGED <<Services, ServiceNum, delivered, parsed, dropped, shrunkWalk>>
    BY <1>6, AnswerCases
  <2>2. r.url \in AllServices /\ r.tag \in AllServices /\ ServiceNum >= 1
    BY Taken DEF Request
  <2>3. Cardinality(AllServices) \in Nat
    BY AllFinite, FS_CardinalityType
  <2>4. CountAnswer => /\ ServiceNum' \in 0..Cardinality(AllServices)
                       /\ TempDevice' \in BOOLEAN /\ CreateTable' \in BOOLEAN
                       /\ delivered' \in Nat /\ failures' \in Nat
    <3>1. SUFFICES ASSUME CountAnswer PROVE /\ ServiceNum' \in 0..Cardinality(AllServices)
                       /\ TempDevice' \in BOOLEAN /\ CreateTable' \in BOOLEAN
                       /\ delivered' \in Nat /\ failures' \in Nat
      OBVIOUS
    <3>2. TempDevice' \in BOOLEAN /\ CreateTable' \in BOOLEAN
      BY <3>1, Zenon DEF CountAnswer, ReportDevice
    <3>3. ServiceNum' \in 0..Cardinality(AllServices)
      BY <3>1, <2>2, <2>3 DEF CountAnswer
    <3>4. delivered' \in Nat /\ failures' \in Nat
      BY <3>1 DEF CountAnswer, ReportDevice
    <3> QED
      BY <3>2, <3>3, <3>4
  <2>5. Services' \in Seq(Seq(AllServices))
    BY <2>1, Removed
  <2>6. /\ parsed' \subseteq AllServices \X AllServices
        /\ dropped' \subseteq AllServices \X AllServices
    BY <2>1, <2>2
  <2>7. /\ ServiceNum' \in 0..Cardinality(AllServices)
        /\ TempDevice' \in BOOLEAN /\ CreateTable' \in BOOLEAN /\ shrunkWalk' \in BOOLEAN
        /\ delivered' \in Nat /\ failures' \in Nat
    <3>1. TempDevice' \in BOOLEAN /\ CreateTable' \in BOOLEAN /\ shrunkWalk' \in BOOLEAN
      BY <2>1, <2>4, Zenon
    <3> QED
      BY <2>1, <2>4, <3>1
  <2> QED
    BY <2>1, <2>5, <2>6, <2>7
<1>7. CASE UNCHANGED vars
  BY <1>7 DEF vars
<1> QED
  BY <1>1, <1>2, <1>3, <1>4, <1>5, <1>6, <1>7 DEF Next, Walk

\* Where services go: from ahead of the walk to a request, from there to the count.
LEMMA Flow ==
  ASSUME IInv, [Next]_vars, pc # "description"
  PROVE  Ahead' \subseteq Ahead /\ Asked' \subseteq Asked \cup Ahead /\ Counted' \subseteq Counted \cup Asked
<1> USE DEF IInv
<1>1. CASE WalkCheck
  <2>1. Asked' = Asked /\ Counted' = Counted /\ UNCHANGED Services /\ Walking
    BY <1>1 DEF WalkCheck, Asked, Counted, Walking
  <2>2. CASE UNCHANGED walk
    BY <1>1, <2>1, <2>2 DEF Ahead
  <2>3. CASE walk' = [walk EXCEPT !.dev = @ + 1, !.x = 1]
    <3>1. walk'.dev = walk.dev + 1 /\ walk'.x = 1 /\ walk.dev \in Nat
      BY <2>3 DEF TypeOK
    <3>2. DOMAIN Services = 1..Len(Services) /\ Len(Services) \in Nat
      BY DEF TypeOK
    <3> QED
      BY <2>1, <3>1, <3>2 DEF Ahead
  <2> QED
    BY <1>1, <2>2, <2>3 DEF WalkCheck
<1>2. CASE WalkReadUrl
  <2>1. Asked' = Asked /\ Counted' = Counted /\ UNCHANGED Services /\ Walking
    BY <1>2 DEF WalkReadUrl, Asked, Counted, Walking
  <2>2. walk'.dev = walk.dev /\ walk'.x = walk.x
    BY <1>2 DEF WalkReadUrl, TypeOK
  <2> QED
    BY <2>1, <2>2 DEF Ahead
<1>3. CASE WalkLaunch
  <2>1. Counted' = Counted /\ UNCHANGED Services /\ Walking
    BY <1>3 DEF WalkLaunch, Counted, Walking
  <2>2. walk'.dev = walk.dev /\ walk'.x \in {walk.x, walk.x + 1} /\ walk.x \in Nat
    BY <1>3 DEF WalkLaunch, TypeOK
  <2>3. DOMAIN Services = 1..Len(Services) /\ Len(Services) \in Nat /\ walk.dev \in DOMAIN Services
        /\ walk.x >= 1
    BY <2>1 DEF TypeOK, Shape
  <2>4. Ahead' \subseteq Ahead
    BY <2>1, <2>2, <2>3 DEF Ahead, TypeOK
  <2>5. CASE UNCHANGED requests
    BY <2>1, <2>4, <2>5 DEF Asked
  <2>6. CASE /\ walk.x <= Len(Services[walk.dev])
             /\ requests' = requests \cup {[url |-> walk.url, tag |-> Services[walk.dev][walk.x]]}
    <3>1. Services[walk.dev] \in Seq(AllServices)
      BY <2>3 DEF TypeOK
    <3>2. walk.x \in DOMAIN Services[walk.dev]
      BY <3>1, <2>2, <2>3, <2>6
    <3>3. Services[walk.dev][walk.x] \in AllServices
      BY <3>1, <3>2
    <3>4. Services[walk.dev][walk.x] \in Ahead
      BY <2>1, <2>2, <2>3, <3>2, <3>3 DEF Ahead
    <3> QED
      BY <2>1, <2>4, <2>6, <3>4 DEF Asked
  <2> QED
    BY <1>3, <2>5, <2>6 DEF WalkLaunch
<1>4. CASE ScpdAnswer
  <2>1. PICK r \in requests :
           /\ requests' = requests \ {r} /\ UNCHANGED <<pc, walk>>
           /\ parsed' \cup dropped' \subseteq parsed \cup dropped \cup {<<r.url, r.tag>>}
           /\ \/ UNCHANGED Services
              \/ Services' = [d \in DOMAIN Services |-> RemoveService(Services[d], r.tag)]
    BY <1>4, AnswerCases
  <2>2. r.tag \in Asked
    BY Taken
  <2>3. Asked' \subseteq Asked /\ Counted' \subseteq Counted \cup Asked
    BY <2>1, <2>2 DEF Asked, Counted
  <2>4. CASE UNCHANGED Services
    BY <2>1, <2>3, <2>4 DEF Ahead, Walking
  <2>5. CASE Services' = [d \in DOMAIN Services |-> RemoveService(Services[d], r.tag)]
    <3>1. SUFFICES ASSUME NEW s \in AllServices, Walking,
                          NEW d \in DOMAIN Services', NEW j \in DOMAIN Services'[d],
                          Services'[d][j] = s, d > walk.dev \/ (d = walk.dev /\ j >= walk.x)
                   PROVE  s \in Ahead
      BY <2>1, <2>3 DEF Ahead, Walking
    <3>2. DOMAIN Services' = DOMAIN Services /\ Services' \in Seq(Seq(AllServices))
      BY <2>5, Removed
    <3>3. Services[d] \in Seq(AllServices) /\ Services'[d] \in Seq(AllServices)
      BY <3>2 DEF TypeOK
    <3>4. \E i \in DOMAIN Services[d] : i >= j /\ Services[d][i] = s
      <4>1. CASE Services'[d] = Services[d]
        BY <4>1, <3>1, <3>2, <3>3
      <4>2. CASE Services'[d] # Services[d]
        <5>1. PICK k \in DOMAIN Services[d] :
                /\ Len(Services'[d]) = Len(Services[d]) - 1
                /\ \A i \in DOMAIN Services'[d] :
                     Services'[d][i] = IF i < k THEN Services[d][i] ELSE Services[d][i + 1]
          <6>1. d \in DOMAIN Services
            BY <3>1, <3>2
          <6>2. \A e \in DOMAIN Services :
                  \/ Services'[e] = Services[e] /\ \A i \in DOMAIN Services[e] : Services[e][i] # r.tag
                  \/ \E k \in DOMAIN Services[e] :
                       /\ Services[e][k] = r.tag
                       /\ Len(Services'[e]) = Len(Services[e]) - 1
                       /\ \A i \in DOMAIN Services'[e] :
                            Services'[e][i] = IF i < k THEN Services[e][i] ELSE Services[e][i + 1]
            BY <2>5, Removed
          <6> QED
            BY <6>1, <6>2, <4>2
        <5>2. j \in Nat /\ j >= 1 /\ j <= Len(Services[d]) - 1 /\ Len(Services[d]) \in Nat
          BY <5>1, <3>1, <3>3
        <5>3. j \in DOMAIN Services[d] /\ j + 1 \in DOMAIN Services[d]
          BY <5>2, <3>3
        <5>4. Services[d][j] = s \/ Services[d][j + 1] = s
          BY <5>1, <3>1
        <5> QED
          BY <5>2, <5>3, <5>4
      <4> QED
        BY <4>1, <4>2
    <3>5. walk.x \in Nat
      BY DEF TypeOK
    <3> QED
      BY <3>1, <3>2, <3>3, <3>4, <3>5 DEF Ahead
  <2> QED
    BY <2>1, <2>4, <2>5
<1>5. CASE UNCHANGED vars
  BY <1>5 DEF vars, Ahead, Asked, Counted, Walking
<1> QED
  BY <1>1, <1>2, <1>3, <1>4, <1>5 DEF Next, Walk, DescriptionFails, DescriptionParses

LEMMA LostStays ==
  ASSUME IInv, [Next]_vars, pc # "description" PROVE Lost \subseteq Lost'
BY Flow DEF Lost

\* After a removal every place holds what its device held there or at the next place,
\* and nothing but s is gone.
LEMMA RemovedPlaces ==
  ASSUME IInv, NEW s,
         Services' = [d \in DOMAIN Services |-> RemoveService(Services[d], s)],
         NEW d \in DOMAIN Services
  PROVE  /\ \A i \in DOMAIN Services'[d] : \E q \in DOMAIN Services[d] :
              q \in {i, i + 1} /\ Services'[d][i] = Services[d][q] /\ Services[d][q] # s
         /\ \A q \in DOMAIN Services[d] : Services[d][q] # s =>
              \E i \in DOMAIN Services'[d] : Services'[d][i] = Services[d][q]
         /\ \A i, j \in DOMAIN Services'[d] : Services'[d][i] = Services'[d][j] => i = j
<1>1. Services[d] \in Seq(AllServices) /\ Services'[d] \in Seq(AllServices)
  <2>1. Services \in Seq(Seq(AllServices))
    BY DEF IInv, TypeOK
  <2>2. Services' \in Seq(Seq(AllServices)) /\ DOMAIN Services' = DOMAIN Services
    BY Removed
  <2> QED
    BY <2>1, <2>2
<1>2. \A i, j \in DOMAIN Services[d] : Services[d][i] = Services[d][j] => i = j
  BY DEF IInv, Shape
<1>3. CASE Services'[d] = Services[d] /\ \A i \in DOMAIN Services[d] : Services[d][i] # s
  BY <1>2, <1>3
<1>4. CASE \E k \in DOMAIN Services[d] :
             /\ Services[d][k] = s
             /\ Len(Services'[d]) = Len(Services[d]) - 1
             /\ \A j \in DOMAIN Services'[d] :
                  Services'[d][j] = IF j < k THEN Services[d][j] ELSE Services[d][j + 1]
  <2> DEFINE old == Services[d]
             new == Services'[d]
  <2>1. PICK k \in DOMAIN old :
             /\ old[k] = s
             /\ Len(new) = Len(old) - 1
             /\ \A j \in DOMAIN new : new[j] = IF j < k THEN old[j] ELSE old[j + 1]
    BY <1>4
  <2>2. /\ DOMAIN old = 1..Len(old) /\ Len(old) \in Nat
        /\ DOMAIN new = 1..(Len(old) - 1)
        /\ \A i, j \in DOMAIN old : old[i] = old[j] => i = j
    BY <1>1, <1>2, <2>1
  <2> HIDE DEF old, new
  <2>3. ASSUME NEW i \in DOMAIN new
        PROVE  \E q \in DOMAIN old : q = (IF i < k THEN i ELSE i + 1) /\ new[i] = old[q] /\ old[q] # s
    <3>1. (IF i < k THEN i ELSE i + 1) \in DOMAIN old /\ (IF i < k THEN i ELSE i + 1) # k
      BY <2>2
    <3> QED
      BY <3>1, <2>1, <2>2
  <2>4. ASSUME NEW q \in DOMAIN old, old[q] # s
        PROVE  \E i \in DOMAIN new : new[i] = old[q]
    <3>1. q # k
      BY <2>1, <2>4
    <3>2. CASE q < k
      BY <3>2, <2>1, <2>2
    <3>3. CASE q > k
      <4>1. q - 1 \in DOMAIN new /\ ~(q - 1 < k) /\ (q - 1) + 1 = q
        BY <3>3, <2>2
      <4> QED
        BY <4>1, <2>1
    <3> QED
      BY <3>1, <3>2, <3>3, <2>2
  <2>5. ASSUME NEW i \in DOMAIN new, NEW j \in DOMAIN new, new[i] = new[j]
        PROVE  i = j
    <3>1. (IF i < k THEN i ELSE i + 1) = (IF j < k THEN j ELSE j + 1)
      BY <2>2, <2>3, <2>5
    <3> QED
      BY <3>1, <2>2
  <2> QED
    BY <2>3, <2>4, <2>5 DEF old, new
<1>5. \A e \in DOMAIN Services :
        \/ Services'[e] = Services[e] /\ \A i \in DOMAIN Services[e] : Services[e][i] # s
        \/ \E k \in DOMAIN Services[e] :
             /\ Services[e][k] = s
             /\ Len(Services'[e]) = Len(Services[e]) - 1
             /\ \A j \in DOMAIN Services'[e] :
                  Services'[e][j] = IF j < k THEN Services[e][j] ELSE Services[e][j + 1]
  BY Removed
<1> HIDE DEF IInv
<1> QED
  BY <1>3, <1>4, <1>5

LEMMA ShapeStep == ASSUME IInv, [Next]_vars PROVE Shape'
<1> DEFINE Lists == /\ Len(Services) = Len(Tree)
                    /\ \A d, e \in DOMAIN Services :
                         \A i \in DOMAIN Services[d], j \in DOMAIN Services[e] :
                           Services[d][i] = Services[e][j] => d = e /\ i = j
                    /\ \A s \in AllServices :
                         (\E d \in DOMAIN Services : \E j \in DOMAIN Services[d] : Services[d][j] = s)
                           <=> \A u \in AllServices : <<u, s>> \notin dropped
<1>1. CASE UNCHANGED <<Services, dropped>>
  <2>1. Lists'
    BY <1>1 DEF IInv, Shape
  <2>2. (Walking => walk.dev \in DOMAIN Services /\ walk.x >= 1)'
    <3>1. DOMAIN Services = 1..Len(Tree) /\ Len(Tree) \in Nat /\ Len(Tree) >= 1
      BY FactoryAssumption DEF IInv, TypeOK, Shape
    <3>2. CASE DescriptionParses
      BY <3>1, <3>2, <1>1 DEF DescriptionParses, IInv, Accounts, Fresh, Walking
    <3>3. CASE WalkCheck
      <4>1. walk.dev \in 1..Len(Tree) /\ walk.x >= 1 /\ pc = "check"
        BY <3>1, <3>3 DEF WalkCheck, IInv, Shape, Walking
      <4>2. CASE UNCHANGED walk
        BY <1>1, <3>1, <4>1, <4>2
      <4>3. CASE walk' = [walk EXCEPT !.dev = @ + 1, !.x = 1]
                 /\ pc' = IF walk.dev = Len(Tree) THEN "done" ELSE "check"
        <5>1. walk'.dev = walk.dev + 1 /\ walk'.x = 1
          BY <4>3 DEF IInv, TypeOK
        <5> QED
          BY <1>1, <3>1, <4>1, <4>3, <5>1 DEF Walking
      <4> QED
        BY <3>3, <4>2, <4>3 DEF WalkCheck
    <3>4. CASE WalkReadUrl \/ WalkLaunch
      <4>1. walk'.dev = walk.dev /\ walk'.x \in {walk.x, walk.x + 1} /\ Walking /\ walk.x \in Nat
        BY <3>4 DEF WalkReadUrl, WalkLaunch, Walking, IInv, TypeOK
      <4> QED
        BY <1>1, <4>1 DEF IInv, Shape
    <3>5. CASE UNCHANGED <<pc, walk>>
      BY <1>1, <3>5 DEF IInv, Shape, Walking
    <3>6. CASE DescriptionFails
      BY <3>6 DEF DescriptionFails, Walking
    <3> QED
      BY <3>2, <3>3, <3>4, <3>5, <3>6 DEF Next, Walk, ScpdAnswer, vars
  <2>3. (pc = "tag" => walk.url \in AllServices)'
    <3>1. CASE WalkReadUrl
      <4>1. walk.dev \in DOMAIN Services /\ walk.x >= 1 /\ walk.x \in Nat
        BY <3>1 DEF WalkReadUrl, IInv, Shape, Walking, TypeOK
      <4>2. Services[walk.dev] \in Seq(AllServices)
        BY <4>1 DEF IInv, TypeOK
      <4>3. walk.x <= Len(Services[walk.dev]) => Services[walk.dev][walk.x] \in AllServices
        BY <4>1, <4>2
      <4> QED
        BY <3>1, <4>3 DEF WalkReadUrl, IInv, TypeOK
    <3>2. CASE UNCHANGED <<pc, walk>>
      BY <3>2 DEF IInv, Shape
    <3>3. CASE pc' # "tag"
      BY <3>3
    <3> QED
      BY <3>1, <3>2, <3>3 DEF Next, Walk, DescriptionFails, DescriptionParses, WalkCheck,
         WalkLaunch, ScpdAnswer, vars
  <2> QED
    BY <2>1, <2>2, <2>3 DEF Shape
<1>2. CASE ~UNCHANGED <<Services, dropped>>
  <2>1. ScpdAnswer
    BY <1>2 DEF Next, Walk, DescriptionFails, DescriptionParses, WalkCheck, WalkReadUrl,
       WalkLaunch, vars
  <2>2. PICK r \in requests :
          /\ Services' = [d \in DOMAIN Services |-> RemoveService(Services[d], r.tag)]
          /\ dropped' = dropped \cup {<<r.url, r.tag>>}
          /\ UNCHANGED <<pc, walk>>
    BY <1>2, <2>1, AnswerCases
  <2>3. r.tag \in AllServices /\ r.url \in AllServices
    BY Taken DEF Request
  <2>4. Len(Services') = Len(Services) /\ DOMAIN Services' = DOMAIN Services
    BY <2>2, Removed
  <2>5. \A d \in DOMAIN Services :
         /\ \A i \in DOMAIN Services'[d] : \E q \in DOMAIN Services[d] :
              q \in {i, i + 1} /\ Services'[d][i] = Services[d][q] /\ Services[d][q] # r.tag
         /\ \A q \in DOMAIN Services[d] : Services[d][q] # r.tag =>
              \E i \in DOMAIN Services'[d] : Services'[d][i] = Services[d][q]
         /\ \A i, j \in DOMAIN Services'[d] : Services'[d][i] = Services'[d][j] => i = j
    BY <2>2, RemovedPlaces
  <2>6. ASSUME NEW d \in DOMAIN Services, NEW e \in DOMAIN Services,
               NEW i \in DOMAIN Services'[d], NEW j \in DOMAIN Services'[e],
               Services'[d][i] = Services'[e][j]
        PROVE  d = e /\ i = j
    <3>1. d = e
      BY <2>5, <2>6 DEF IInv, Shape
    <3> QED
      BY <2>5, <2>6, <3>1
  <2>7. ASSUME NEW s \in AllServices
        PROVE  (\E d \in DOMAIN Services : \E j \in DOMAIN Services'[d] : Services'[d][j] = s)
                 <=> \A u \in AllServices : <<u, s>> \notin dropped'
    <3>1. (\E d \in DOMAIN Services : \E j \in DOMAIN Services'[d] : Services'[d][j] = s)
            <=> s # r.tag /\ \E d \in DOMAIN Services : \E j \in DOMAIN Services[d] : Services[d][j] = s
      BY <2>5
    <3>2. (\A u \in AllServices : <<u, s>> \notin dropped')
            <=> s # r.tag /\ \A u \in AllServices : <<u, s>> \notin dropped
      BY <2>2, <2>3
    <3> QED
      BY <3>1, <3>2 DEF IInv, Shape
  <2> QED
    BY <2>2, <2>4, <2>6, <2>7 DEF IInv, Shape, Walking
<1> QED
  BY <1>1, <1>2

LEMMA OnceStep == ASSUME IInv, [Next]_vars PROVE Once'
<1>1. CASE pc = "description"
  <2>1. requests = {} /\ parsed = {} /\ dropped = {}
    BY <1>1 DEF IInv, Accounts, Fresh
  <2>2. requests' = {} /\ parsed' = {} /\ dropped' = {}
    BY <1>1, <2>1 DEF Next, Walk, DescriptionFails, DescriptionParses, WalkCheck, WalkReadUrl,
       WalkLaunch, ScpdAnswer, vars
  <2> QED
    BY <2>2 DEF Once, Asked, Counted
<1>2. CASE pc # "description" /\ ~WalkLaunch /\ ~ScpdAnswer
  <2>1. UNCHANGED <<requests, parsed, dropped>>
    BY <1>2 DEF Next, Walk, DescriptionFails, DescriptionParses, WalkCheck, WalkReadUrl, vars
  <2>2. Ahead' \subseteq Ahead
    BY <1>2, Flow
  <2> QED
    BY <2>1, <2>2 DEF IInv, Once, Asked, Counted
<1>3. CASE WalkLaunch
  <2>1. pc # "description" /\ Walking /\ UNCHANGED <<parsed, dropped, Services>>
    BY <1>3 DEF WalkLaunch, Walking
  <2>2. Ahead' \subseteq Ahead
    BY <2>1, Flow
  <2>3. CASE UNCHANGED requests
    BY <2>1, <2>2, <2>3 DEF IInv, Once, Asked, Counted
  <2>4. CASE requests' # requests
    <3> DEFINE s == Services[walk.dev][walk.x]
    <3>1. /\ walk.x <= Len(Services[walk.dev])
          /\ requests' = requests \cup {[url |-> walk.url, tag |-> s]}
          /\ walk' = [walk EXCEPT !.x = @ + 1] /\ pc' = "check"
      BY <1>3, <2>4 DEF WalkLaunch
    <3>2. walk.dev \in DOMAIN Services /\ walk.x \in Nat /\ walk.x >= 1
      BY <2>1 DEF IInv, TypeOK, Shape
    <3>3. Services[walk.dev] \in Seq(AllServices)
      BY <3>2 DEF IInv, TypeOK
    <3>4. walk.x \in DOMAIN Services[walk.dev] /\ s \in AllServices
      BY <3>1, <3>2, <3>3
    <3>5. DOMAIN Services = 1..Len(Services) /\ Len(Services) \in Nat
      BY DEF IInv, TypeOK
    <3>6. s \in Ahead
      BY <2>1, <3>2, <3>4, <3>5 DEF Ahead
    <3>7. s \notin Ahead'
      <4>1. walk'.dev = walk.dev /\ walk'.x = walk.x + 1
        BY <3>1 DEF IInv, TypeOK
      <4>2. ASSUME NEW d \in DOMAIN Services, NEW j \in DOMAIN Services[d], Services[d][j] = s
            PROVE  d = walk.dev /\ j = walk.x
        BY <3>2, <3>4, <4>2 DEF IInv, Shape
      <4> QED
        BY <2>1, <3>2, <3>5, <4>1, <4>2 DEF Ahead
    <3>8. s \notin Asked /\ s \notin Counted
      BY <3>6 DEF IInv, Once
    <3>9. \A r \in requests : r.tag # s
      BY <3>4, <3>8 DEF Asked
    <3>10. Asked' \subseteq Asked \cup {s} /\ Counted' = Counted
      BY <2>1, <3>1 DEF Asked, Counted
    <3> HIDE DEF s
    <3>11. \A r, q \in requests' : r.tag = q.tag => r = q
      BY <3>1, <3>9 DEF IInv, Once
    <3> QED
      BY <2>1, <2>2, <3>7, <3>8, <3>10, <3>11 DEF IInv, Once
  <2> QED
    BY <2>3, <2>4
<1>4. CASE ScpdAnswer
  <2>1. PICK r \in requests :
          /\ requests' = requests \ {r}
          /\ \/ parsed' \cup dropped' = parsed \cup dropped /\ parsed' = parsed
             \/ parsed' = parsed \cup {<<r.url, r.tag>>} /\ UNCHANGED dropped
             \/ dropped' = dropped \cup {<<r.url, r.tag>>} /\ UNCHANGED parsed
          /\ dropped' \subseteq dropped \cup {<<r.url, r.tag>>}
          /\ parsed' \subseteq parsed \cup {<<r.url, r.tag>>}
    BY <1>4, AnswerCases
  <2>2. /\ pc # "description" /\ r.tag \in Asked /\ r.tag \notin Counted /\ r.tag \notin Ahead
        /\ r.tag \in AllServices /\ r.url \in AllServices
    BY Taken DEF Request
  <2>3. Ahead' \subseteq Ahead
    BY <2>2, Flow
  <2>4. Asked' \subseteq Asked /\ r.tag \notin Asked'
    BY <2>1 DEF Asked, IInv, Once
  <2>5. Counted' \subseteq Counted \cup {r.tag}
    BY <2>1, <2>2 DEF Counted
  <2>6. ASSUME NEW s \in AllServices, NEW u \in AllServices, NEW v \in AllServices,
               <<u, s>> \in parsed', <<v, s>> \in dropped'
        PROVE  FALSE
    <3>1. CASE s = r.tag
      <4>1. <<u, s>> \notin parsed \cup dropped /\ <<v, s>> \notin parsed \cup dropped
        BY <2>2, <3>1 DEF Counted
      <4> QED
        BY <2>1, <2>6, <4>1
    <3>2. CASE s # r.tag
      <4>1. <<u, s>> # <<r.url, r.tag>> /\ <<v, s>> # <<r.url, r.tag>>
        BY <3>2
      <4> QED
        BY <2>1, <2>6, <4>1 DEF IInv, Once
    <3> QED
      BY <3>1, <3>2
  <2>7. \A q, p \in requests' : q.tag = p.tag => q = p
    BY <2>1 DEF IInv, Once
  <2> QED
    BY <2>2, <2>3, <2>4, <2>5, <2>6, <2>7 DEF IInv, Once
<1> QED
  BY <1>1, <1>2, <1>3, <1>4

LEMMA MixedStep == ASSUME IInv, [Next]_vars PROVE Mixed'
<1>1. CASE pc = "description"
  <2>1. requests = {} /\ parsed = {} /\ dropped = {}
    BY <1>1 DEF IInv, Accounts, Fresh
  <2>2. requests' = {} /\ parsed' = {} /\ dropped' = {} /\ pc' # "tag"
    BY <1>1, <2>1 DEF Next, Walk, DescriptionFails, DescriptionParses, WalkCheck, WalkReadUrl,
       WalkLaunch, ScpdAnswer, vars
  <2> QED
    BY <2>2 DEF Mixed
<1>2. CASE pc # "description" /\ ~ScpdAnswer
  <2>1. Lost \subseteq Lost' /\ UNCHANGED <<parsed, dropped, Services>>
    BY <1>2, LostStays DEF Next, Walk, DescriptionFails, DescriptionParses, WalkCheck,
       WalkReadUrl, WalkLaunch, vars
  <2>2. CASE WalkReadUrl
    <3>1. walk.dev \in DOMAIN Services /\ walk.x \in Nat /\ walk.x >= 1
      BY <2>2 DEF WalkReadUrl, Walking, IInv, Shape, TypeOK
    <3>2. Services[walk.dev] \in Seq(AllServices)
      BY <3>1 DEF IInv, TypeOK
    <3>3. UNCHANGED requests
      BY <2>2 DEF WalkReadUrl
    <3>4. CASE walk.x <= Len(Services[walk.dev])
               /\ walk' = [walk EXCEPT !.url = Services[walk.dev][walk.x]]
      <4>1. /\ walk'.dev = walk.dev /\ walk'.x = walk.x
            /\ walk'.url = Services[walk.dev][walk.x]
        BY <3>4 DEF IInv, TypeOK
      <4>2. walk.x \in DOMAIN Services[walk.dev]
        BY <3>1, <3>2, <3>4
      <4> QED
        BY <2>1, <3>3, <4>1, <4>2 DEF IInv, Mixed
    <3>5. CASE pc' = "crashed"
      BY <2>1, <3>3, <3>5 DEF IInv, Mixed
    <3> QED
      BY <2>2, <3>4, <3>5 DEF WalkReadUrl
  <2>3. CASE WalkLaunch
    <3>1. walk.dev \in DOMAIN Services /\ walk.x \in Nat /\ pc = "tag" /\ pc' # "tag"
      BY <2>3 DEF WalkLaunch, Walking, IInv, Shape, TypeOK
    <3>2. walk.url = Services[walk.dev][walk.x] \/ walk.url \in Lost
      BY <3>1 DEF IInv, Mixed
    <3>3. \A r \in requests' : r \in requests \/ r = [url |-> walk.url, tag |-> Services[walk.dev][walk.x]]
      BY <2>3 DEF WalkLaunch
    <3> QED
      BY <2>1, <3>1, <3>2, <3>3 DEF IInv, Mixed
  <2>4. CASE UNCHANGED requests /\ (pc' # "tag" \/ UNCHANGED <<pc, walk>>)
    BY <2>1, <2>4 DEF IInv, Mixed
  <2> QED
    BY <1>2, <2>2, <2>3, <2>4 DEF Next, Walk, DescriptionFails, DescriptionParses, WalkCheck, vars
<1>3. CASE ScpdAnswer
  <2>1. PICK r \in requests :
          /\ requests' = requests \ {r} /\ UNCHANGED <<pc, walk>>
          /\ parsed' \cup dropped' \subseteq parsed \cup dropped \cup {<<r.url, r.tag>>}
          /\ \/ UNCHANGED Services
             \/ Services' = [d \in DOMAIN Services |-> RemoveService(Services[d], r.tag)]
    BY <1>3, AnswerCases
  <2>2. /\ pc # "description" /\ r.tag \in Asked /\ r.tag \notin Ahead
        /\ r.tag \in AllServices /\ r.url \in AllServices
    BY Taken DEF Request
  <2>3. Lost \subseteq Lost'
    BY <2>2, LostStays
  <2>4. \A q \in requests' : q.url = q.tag \/ q.url \in Lost'
    BY <2>1, <2>3 DEF IInv, Mixed
  <2>5. ASSUME NEW u \in AllServices, NEW s \in AllServices, <<u, s>> \in parsed' \cup dropped'
        PROVE  u = s \/ u \in Lost'
    <3>1. <<u, s>> \in parsed \cup dropped \/ (u = r.url /\ s = r.tag)
      BY <2>1, <2>5
    <3> QED
      BY <2>3, <3>1 DEF IInv, Mixed
  <2>6. ASSUME pc = "tag", walk.url \notin Lost'
        PROVE  walk.x \in DOMAIN Services'[walk.dev] /\ Services'[walk.dev][walk.x] = walk.url
    <3> DEFINE dev == walk.dev
               x == walk.x
               old == Services[dev]
               new == Services'[dev]
    <3>1. x \in DOMAIN old /\ old[x] = walk.url
      BY <2>3, <2>6 DEF IInv, Mixed
    <3>2. dev \in DOMAIN Services /\ x \in Nat /\ x >= 1 /\ Walking /\ walk.url \in AllServices
      BY <2>6 DEF IInv, Shape, Walking, TypeOK
    <3>3. DOMAIN Services = 1..Len(Services) /\ Len(Services) \in Nat
      BY DEF IInv, TypeOK
    <3>4. CASE UNCHANGED Services
      BY <3>1, <3>4
    <3>5. CASE Services' = [d \in DOMAIN Services |-> RemoveService(Services[d], r.tag)]
      <4>1. CASE new = old
        BY <3>1, <4>1
      <4>2. CASE new # old
        <5>1. \A e \in DOMAIN Services :
                \/ Services'[e] = Services[e] /\ \A i \in DOMAIN Services[e] : Services[e][i] # r.tag
                \/ \E k \in DOMAIN Services[e] :
                     /\ Services[e][k] = r.tag
                     /\ Len(Services'[e]) = Len(Services[e]) - 1
                     /\ \A j \in DOMAIN Services'[e] :
                          Services'[e][j] = IF j < k THEN Services[e][j] ELSE Services[e][j + 1]
          BY <3>5, Removed
        <5>2. PICK k \in DOMAIN old :
                /\ old[k] = r.tag
                /\ Len(new) = Len(old) - 1
                /\ \A j \in DOMAIN new : new[j] = IF j < k THEN old[j] ELSE old[j + 1]
          BY <5>1, <4>2, <3>2
        <5>3. DOMAIN Services' = DOMAIN Services /\ Services' \in Seq(Seq(AllServices))
          BY <3>5, Removed
        <5>4. Services \in Seq(Seq(AllServices))
          BY DEF IInv, TypeOK
        <5>5. old \in Seq(AllServices) /\ new \in Seq(AllServices)
          BY <3>2, <5>3, <5>4
        <5>6. k < x
          <6>1. ~(k >= x)
            BY <2>2, <3>2, <3>3, <5>2 DEF Ahead
          <6> QED
            BY <6>1, <3>2, <5>5
        <5>7. x - 1 \in DOMAIN new /\ ~(x - 1 < k) /\ (x - 1) + 1 = x
          BY <3>1, <3>2, <5>2, <5>5, <5>6
        <5>8. new[x - 1] = walk.url
          BY <3>1, <5>2, <5>7
        <5>9. walk.url \notin Ahead'
          <6>1. Shape'
            BY ShapeStep
          <6>2. ASSUME NEW d \in DOMAIN Services', NEW j \in DOMAIN Services'[d],
                       Services'[d][j] = walk.url
                PROVE  d = dev /\ j = x - 1
            BY <3>2, <5>3, <5>7, <5>8, <6>1, <6>2 DEF Shape
          <6> QED
            BY <2>1, <3>2, <3>3, <6>2 DEF Ahead
        <5>10. walk.url \in Ahead
          BY <3>1, <3>2, <3>3 DEF Ahead
        <5>11. walk.url # r.tag /\ walk.url \notin Asked /\ walk.url \notin Counted
          BY <2>2, <5>10 DEF IInv, Once
        <5>12. walk.url \notin Asked' /\ walk.url \notin Counted'
          <6>1. Asked' \subseteq Asked
            BY <2>1 DEF Asked
          <6>2. Counted' \subseteq Counted \cup {r.tag}
            BY <2>1, <2>2 DEF Counted
          <6> QED
            BY <5>11, <6>1, <6>2
        <5> QED
          BY <2>6, <3>2, <5>9, <5>12 DEF Lost
      <4> QED
        BY <4>1, <4>2
    <3> QED
      BY <2>1, <3>4, <3>5
  <2> QED
    BY <2>1, <2>4, <2>5, <2>6 DEF Mixed
<1> QED
  BY <1>1, <1>2, <1>3

LEMMA AccountsStep == ASSUME IInv, [Next]_vars PROVE Accounts'
<1>1. CASE DescriptionFails
  <2>1. requests = {} /\ delivered = 0 /\ failures = 0
    BY <1>1 DEF DescriptionFails, IInv, Accounts, Fresh
  <2>2. Refused' /\ pc' # "description" /\ delivered' = 0
    BY <1>1, <2>1 DEF DescriptionFails, ReportFailure, Refused
  <2> QED
    BY <2>2 DEF Accounts
<1>2. CASE DescriptionParses
  <2>1. delivered = 0 /\ failures = 0 /\ parsed = {} /\ dropped = {}
    BY <1>2 DEF DescriptionParses, IInv, Accounts, Fresh
  <2>2. Counted' = {} /\ pc' # "description" /\ ServiceNum' = Cardinality(AllServices)
    BY <1>2, <2>1 DEF DescriptionParses, Counted
  <2>3. failures' = 0 /\ delivered' = IF ServiceNum' = 0 THEN 1 ELSE 0
    BY <1>2, <2>1 DEF DescriptionParses, ReportDevice
  <2>4. ServiceNum' = 0 => AllServices = {}
    BY <2>2, AllFinite, FS_EmptySet
  <2>5. AllServices \ Counted' = AllServices
    BY <2>2
  <2> QED
    BY <2>2, <2>3, <2>4, <2>5 DEF Accounts
<1>3. CASE Walk
  <2>1. /\ UNCHANGED <<parsed, dropped, delivered, failures, ServiceNum>>
        /\ pc \in {"check", "url", "tag"} /\ pc' # "description"
    BY <1>3 DEF Walk, WalkCheck, WalkReadUrl, WalkLaunch
  <2>2. Lost \subseteq Lost' /\ ~Refused /\ Counted' = Counted
    BY <2>1, LostStays DEF Refused, Counted
  <2> QED
    BY <2>1, <2>2 DEF IInv, Accounts
<1>4. CASE ScpdAnswer
  <2>1. PICK r \in requests :
           /\ requests' = requests \ {r} /\ UNCHANGED <<pc, walk>> /\ pc # "crashed"
           /\ \/ /\ parsed' = parsed \cup {<<r.url, r.tag>>}
                 /\ CountAnswer /\ UNCHANGED <<Services, dropped, shrunkWalk>>
              \/ /\ Services' = [d \in DOMAIN Services |-> RemoveService(Services[d], r.tag)]
                 /\ dropped' = dropped \cup {<<r.url, r.tag>>}
                 /\ shrunkWalk' \in BOOLEAN
                 /\ CountAnswer /\ UNCHANGED parsed
              \/ /\ UNCHANGED <<Services, ServiceNum, TempDevice, CreateTable, delivered,
                                failures, parsed, dropped, shrunkWalk>>
              \/ /\ failures' = failures + 1 /\ TempDevice' = FALSE /\ CreateTable' = FALSE
                 /\ UNCHANGED <<Services, ServiceNum, delivered, parsed, dropped, shrunkWalk>>
    BY <1>4, AnswerCases
  <2>2. /\ pc # "description" /\ ~Refused /\ delivered = 0
        /\ r.tag \in Asked /\ r.tag \notin Counted /\ r.tag \notin Ahead
        /\ r.tag \in AllServices /\ r.url \in AllServices
        /\ ServiceNum = Cardinality(AllServices \ Counted)
    BY Taken DEF Request
  <2>3. Lost \subseteq Lost' /\ Ahead' \subseteq Ahead
    BY <2>2, LostStays, Flow
  <2>4. failures > 0 => Lost' # {}
    BY <2>2, <2>3 DEF IInv, Accounts
  <2>5. pc' # "description" /\ failures \in Nat
    BY <2>1, <2>2 DEF IInv, TypeOK
  <2>6. CASE CountAnswer /\ parsed' \cup dropped' = parsed \cup dropped \cup {<<r.url, r.tag>>}
    <3>1. Counted' = Counted \cup {r.tag}
      BY <2>2, <2>6 DEF Counted
    <3>2. AllServices \ Counted' = (AllServices \ Counted) \ {r.tag}
      BY <3>1
    <3>3. IsFiniteSet(AllServices \ Counted)
      BY AllFinite
    <3>4. Cardinality(AllServices \ Counted') = Cardinality(AllServices \ Counted) - 1
      BY <2>2, <3>2, <3>3, FS_RemoveElement
    <3>5. ServiceNum' = Cardinality(AllServices \ Counted')
      BY <2>2, <2>6, <3>4 DEF CountAnswer
    <3>6. IsFiniteSet(AllServices \ Counted')
      BY <3>2, <3>3, FS_RemoveElement
    <3>7. ServiceNum' = 0 => AllServices \subseteq Counted'
      BY <3>5, <3>6, FS_EmptySet
    <3>8. failures' = failures /\ delivered' = IF ServiceNum' = 0 THEN 1 ELSE 0
      BY <2>2, <2>6 DEF CountAnswer, ReportDevice
    <3>9. ServiceNum' = 0 => failures = 0
      BY <2>4, <2>5, <3>7 DEF Lost
    <3> QED
      BY <2>4, <2>5, <3>5, <3>7, <3>8, <3>9 DEF Accounts
  <2>7. CASE UNCHANGED <<ServiceNum, delivered, failures, parsed, dropped>>
    <3>1. Counted' = Counted
      BY <2>7 DEF Counted
    <3> QED
      BY <2>2, <2>4, <2>5, <2>7, <3>1 DEF Accounts
  <2>8. CASE failures' = failures + 1 /\ UNCHANGED <<ServiceNum, delivered, parsed, dropped>>
    <3>1. Counted' = Counted
      BY <2>8 DEF Counted
    <3>2. r.tag \notin Asked'
      BY <2>1 DEF Asked, IInv, Once
    <3>3. r.tag \in Lost'
      BY <2>2, <2>3, <3>1, <3>2 DEF Lost
    <3> QED
      BY <2>2, <2>5, <2>8, <3>1, <3>3 DEF Accounts
  <2> QED
    BY <2>1, <2>6, <2>7, <2>8
<1>5. CASE UNCHANGED vars
  BY <1>5 DEF vars, IInv, Accounts, Fresh, Refused, Counted, Lost, Ahead, Asked, Walking
<1> QED
  BY <1>1, <1>2, <1>3, <1>4, <1>5 DEF Next

----------------------------------------------------------------------------
LEMMA InvariantStep == IInv /\ [Next]_vars => IInv'
BY TypeStep, ShapeStep, OnceStep, MixedStep, AccountsStep DEF IInv

\* Only a creation that lost no service, mixed up none and failed nowhere delivers.
LEMMA Complete == IInv => DeliveredComplete
<1> SUFFICES ASSUME IInv, delivered > 0 PROVE DeliveredComplete
  BY DEF DeliveredComplete
<1>1. delivered = 1 /\ AllServices \subseteq Counted
  BY DEF IInv, Accounts
<1>2. Lost = {}
  BY <1>1 DEF Lost
<1>3. requests = {}
  BY <1>1, Taken
<1>4. ASSUME NEW s \in AllServices
      PROVE  \/ <<s, s>> \in parsed /\ \E d \in DOMAIN Services : s \in ToSet(Services[d])
             \/ <<s, s>> \in dropped /\ \A d \in DOMAIN Services : s \notin ToSet(Services[d])
  <2>1. PICK u \in AllServices : <<u, s>> \in parsed \cup dropped
    BY <1>1 DEF Counted
  <2>2. <<s, s>> \in parsed \cup dropped
    BY <1>2, <2>1 DEF IInv, Mixed
  <2>3. (\E d \in DOMAIN Services : s \in ToSet(Services[d]))
          <=> \A v \in AllServices : <<v, s>> \notin dropped
    BY DEF IInv, Shape, ToSet
  <2>4. <<s, s>> \in parsed => \A v \in AllServices : <<v, s>> \notin dropped
    BY DEF IInv, Once
  <2> QED
    BY <2>2, <2>3, <2>4
<1> QED
  BY <1>1, <1>3, <1>4 DEF DeliveredComplete

\* What the caller has been told only changes as DeviceCreation allows.
LEMMA CreationStep == IInv /\ [Next]_vars => [Creation!Next]_Outcome
<1> SUFFICES ASSUME IInv, [Next]_vars PROVE [Creation!Next]_Outcome
  OBVIOUS
<1> USE DEF Outcome, Creation!Next, Creation!Create, Creation!Fail
<1>1. delivered \in Nat /\ failures \in Nat /\ (delivered > 0 => failures = 0)
  BY DEF IInv, TypeOK, Accounts
<1>2. CASE UNCHANGED <<delivered, failures>>
  BY <1>2
<1>3. CASE failures' = failures + 1 /\ delivered' = delivered /\ delivered = 0
  BY <1>1, <1>3
<1>4. CASE failures' = failures /\ failures = 0 /\ delivered' = 1 /\ delivered = 0
  BY <1>1, <1>4
<1>5. CASE DescriptionFails
  BY <1>3, <1>5 DEF DescriptionFails, ReportFailure, IInv, Accounts, Fresh
<1>6. CASE DescriptionParses
  BY <1>2, <1>4, <1>6 DEF DescriptionParses, ReportDevice, IInv, Accounts, Fresh
<1>7. CASE Walk \/ UNCHANGED vars
  BY <1>2, <1>7 DEF Walk, WalkCheck, WalkReadUrl, WalkLaunch, vars
<1>8. CASE ScpdAnswer
  <2>1. delivered = 0
    BY <1>8, Taken DEF ScpdAnswer
  <2>2. \/ UNCHANGED <<delivered, failures>>
        \/ failures' = failures + 1 /\ delivered' = delivered
        \/ failures' = failures /\ delivered' = 1
    BY <1>8, <2>1 DEF ScpdAnswer, ScpdParses, ScpdMalformed, ScpdFails, CountAnswer, ReportDevice,
       ReportFailure
  <2>3. Accounts'
    BY AccountsStep
  <2>4. CASE failures' = failures /\ delivered' = 1
    BY <1>4, <2>1, <2>3, <2>4 DEF Accounts
  <2> QED
    BY <1>2, <1>3, <2>1, <2>2, <2>4
<1> QED
  BY <1>5, <1>6, <1>7, <1>8 DEF Next

----------------------------------------------------------------------------
\* The inductive invariant, for any device tree.
THEOREM InvariantCorrect == Safety => []IInv
BY InitInvariant, InvariantStep, PTL DEF Safety

\* ServiceNum never falls below 0, and every variable keeps its type.
THEOREM TypeCorrect == Safety => []TypeOK
BY InvariantCorrect, PTL DEF IInv

\* However the answers race the walk, a device that is delivered is delivered once,
\* and has every service of its description from that service's own SCPD, but for
\* those whose SCPD was malformed.
THEOREM DeliveryComplete == Safety => []DeliveredComplete
BY InvariantCorrect, Complete, PTL

\* The factory implements DeviceCreation: one delivery, or failures, never both.
THEOREM CreationImplemented == Safety => ImplementsDeviceCreation
<1>1. Init => Creation!Init
  BY DEF Init, Outcome, Creation!Init
<1> QED
  BY <1>1, InvariantCorrect, CreationStep, PTL DEF Safety, ImplementsDeviceCreation, Creation!Spec
=============================================================================
