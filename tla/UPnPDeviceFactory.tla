------------------------- MODULE UPnPDeviceFactory -------------------------
(***************************************************************************)
(* Global/UPnP/UPnPDeviceFactory.cs with the completions of                *)
(* HttpRequestor.cs: one device creation.                                  *)
(*                                                                         *)
(* The factory fetches the device description, counts the services of the  *)
(* device tree (ServiceNum), then one thread walks the tree and launches a *)
(* request for every service description (SCPD).  The answers come on      *)
(* other threads while the walk is still running, in any order; each       *)
(* decrements ServiceNum, a service whose SCPD does not parse is removed   *)
(* from the very list that is being walked, and the answer that brings     *)
(* ServiceNum to 0 delivers the device.                                    *)
(***************************************************************************)
EXTENDS Naturals, Sequences, FiniteSets, SequencesExt

CONSTANTS
  Tree,     (* The device tree of the description in the order it is walked:   *)
            (* one sequence of services per device, the root device first.     *)
  NoUrl     (* No SCPDURL has been read yet.                                   *)

AllServices == UNION {ToSet(Tree[d]) : d \in DOMAIN Tree}

ASSUME FactoryAssumption ==
  /\ Tree \in Seq(Seq(AllServices))
  /\ Tree # << >>
  /\ \A d \in DOMAIN Tree : IsInjective(Tree[d])
  /\ \A d, e \in DOMAIN Tree :
        d # e => ToSet(Tree[d]) \cap ToSet(Tree[e]) = {}
  /\ NoUrl \notin AllServices

VARIABLES
  pc,            (* where the thread of the description's answer stands        *)
  walk,          (* its place in the tree: device, index, the URL it has read  *)
  Services,      (* UPnPDevice.Services of each device, shrinks on RemoveService *)
  ServiceNum,    (* SCPDs that have not been accounted for                     *)
  TempDevice,    (* TRUE while the factory still holds the device              *)
  requests,      (* HttpRequestor: launched and unanswered [url, tag]          *)
  CreateTable,   (* TRUE while the reusable factory still references this one  *)
  delivered,     (* how often OnDevice was raised                              *)
  failures,      (* how often OnFailed2 was raised                             *)
  parsed,        (* history: <<url, service>> of each SCPD that parsed         *)
  dropped,       (* history: <<url, service>> of each service removed          *)
  shrunkWalk     (* history: the list under the walk shrank before its end     *)

vars == <<pc, walk, Services, ServiceNum, TempDevice, requests, CreateTable,
          delivered, failures, parsed, dropped, shrunkWalk>>

Request == [url : AllServices, tag : AllServices]

TypeOK ==
  /\ pc \in {"description", "check", "url", "tag", "done", "crashed", "refused"}
  /\ walk \in [dev : 1..Len(Tree) + 1, x : Nat, url : AllServices \cup {NoUrl}]
  /\ Services \in Seq(Seq(AllServices))
  /\ ServiceNum \in 0..Cardinality(AllServices)
  /\ requests \subseteq Request
  /\ TempDevice \in BOOLEAN /\ CreateTable \in BOOLEAN /\ shrunkWalk \in BOOLEAN
  /\ delivered \in Nat /\ failures \in Nat
  /\ parsed \subseteq AllServices \X AllServices
  /\ dropped \subseteq AllServices \X AllServices

\* The constructor launches the request for the description.
Init ==
  /\ pc = "description"
  /\ walk = [dev |-> 1, x |-> 1, url |-> NoUrl]
  /\ Services = Tree
  /\ ServiceNum = 0
  /\ TempDevice = FALSE
  /\ requests = {}
  /\ CreateTable = TRUE
  /\ delivered = 0 /\ failures = 0
  /\ parsed = {} /\ dropped = {}
  /\ shrunkWalk = FALSE

----------------------------------------------------------------------------
\* HandleFactory, and the OnDevice handler behind it.
ReportDevice ==
  /\ delivered' = delivered + 1
  /\ CreateTable' = FALSE
  /\ UNCHANGED failures

\* FactoryFailedSink, and the OnFailed handler behind it.
ReportFailure ==
  /\ failures' = failures + 1
  /\ CreateTable' = FALSE
  /\ UNCHANGED delivered

\* The description cannot be fetched, is empty, does not parse, or names
\* another device than the one that was announced.
DescriptionFails ==
  /\ pc = "description"
  /\ pc' = "done"
  /\ ReportFailure
  /\ UNCHANGED <<walk, Services, ServiceNum, TempDevice, requests, parsed,
                 dropped, shrunkWalk>>

\* The description parses: FetchServiceCount, and either the device is complete
\* at once or the walk of FetchServiceDocuments begins.
DescriptionParses ==
  /\ pc = "description"
  /\ ServiceNum' = Cardinality(AllServices)
  /\ IF ServiceNum' = 0
       THEN pc' = "done" /\ TempDevice' = FALSE /\ ReportDevice
       ELSE /\ pc' = "check" /\ TempDevice' = TRUE
            /\ UNCHANGED <<CreateTable, delivered, failures>>
  /\ UNCHANGED <<walk, Services, requests, parsed, dropped, shrunkWalk>>

\* Mutated form of WalkCheck: x < Length - 1.
WalkCheckStopsEarly ==
  /\ pc = "check"
  /\ IF walk.x < Len(Services[walk.dev])
       THEN pc' = "url" /\ UNCHANGED walk
       ELSE /\ walk' = [walk EXCEPT !.dev = @ + 1, !.x = 1]
            /\ pc' = IF walk.dev = Len(Tree) THEN "done" ELSE "check"
  /\ UNCHANGED <<Services, ServiceNum, TempDevice, requests, CreateTable,
                 delivered, failures, parsed, dropped, shrunkWalk>>

\* x < device.Services.Length, or on to the next device of the tree.
WalkCheck ==
  /\ pc = "check"
  /\ IF walk.x <= Len(Services[walk.dev])
       THEN pc' = "url" /\ UNCHANGED walk
       ELSE /\ walk' = [walk EXCEPT !.dev = @ + 1, !.x = 1]
            /\ pc' = IF walk.dev = Len(Tree) THEN "done" ELSE "check"
  /\ UNCHANGED <<Services, ServiceNum, TempDevice, requests, CreateTable,
                 delivered, failures, parsed, dropped, shrunkWalk>>

\* device.Services[x].SCPDURL: the array may have shrunk since the check, and
\* then the index is out of range; nothing on this thread catches that.
WalkReadUrl ==
  /\ pc = "url"
  /\ IF walk.x <= Len(Services[walk.dev])
       THEN /\ pc' = "tag"
            /\ walk' = [walk EXCEPT !.url = Services[walk.dev][walk.x]]
       ELSE pc' = "crashed" /\ UNCHANGED walk
  /\ UNCHANGED <<Services, ServiceNum, TempDevice, requests, CreateTable,
                 delivered, failures, parsed, dropped, shrunkWalk>>

\* device.Services[x] again, as the tag, then LaunchRequest and ++x.  Of an
\* SCPDURL that is not an http URL LaunchRequest makes no HttpWebRequest: it
\* throws before anything is sent, and that is not caught on this thread either.
WalkLaunch ==
  /\ pc = "tag"
  /\ IF walk.x <= Len(Services[walk.dev])
       THEN \/ /\ pc' = "check"
               /\ requests' = requests \cup
                    {[url |-> walk.url, tag |-> Services[walk.dev][walk.x]]}
               /\ walk' = [walk EXCEPT !.x = @ + 1]
            \/ pc' = "refused" /\ UNCHANGED <<walk, requests>>
       ELSE pc' = "crashed" /\ UNCHANGED <<walk, requests>>
  /\ UNCHANGED <<Services, ServiceNum, TempDevice, CreateTable, delivered,
                 failures, parsed, dropped, shrunkWalk>>

----------------------------------------------------------------------------
\* --ServiceNum, and the test that is made with it under CBLock.  The delivery
\* itself is outside the lock, but only one answer can see 0.
CountAnswer ==
  /\ ServiceNum' = ServiceNum - 1
  /\ IF ServiceNum' = 0
       THEN ReportDevice /\ TempDevice' = FALSE
       ELSE UNCHANGED <<TempDevice, CreateTable, delivered, failures>>

\* An SCPD arrives and parses into the service that is the request's tag.
ScpdParses(r) ==
  /\ parsed' = parsed \cup {<<r.url, r.tag>>}
  /\ CountAnswer
  /\ UNCHANGED <<Services, dropped, shrunkWalk>>

\* RemoveService of a device, which copies the other services to a new array.
RemoveService(list, s) ==
  IF \E k \in DOMAIN list : list[k] = s
    THEN RemoveAt(list, CHOOSE k \in DOMAIN list : list[k] = s)
    ELSE list

\* Mutated form of ScpdMalformed: the faulty service stays on its device.
ScpdMalformedKept(r) ==
  /\ dropped' = dropped \cup {<<r.url, r.tag>>}
  /\ CountAnswer
  /\ UNCHANGED <<Services, parsed, shrunkWalk>>

\* The walk has not come to the end of the list that holds the service.
UnderWalk(s) ==
  /\ pc \in {"check", "url", "tag"}
  /\ s \in ToSet(Services[walk.dev])
  /\ walk.x <= Len(Services[walk.dev])

\* An SCPD arrives and does not parse: the service is removed from its device
\* and the answer counts as well.  If an earlier failure has cleared TempDevice
\* the log line in the handler throws, and neither happens.
ScpdMalformed(r) ==
  \/ /\ TempDevice
     /\ Services' = [d \in DOMAIN Services |-> RemoveService(Services[d], r.tag)]
     /\ dropped' = dropped \cup {<<r.url, r.tag>>}
     /\ shrunkWalk' = (shrunkWalk \/ UnderWalk(r.tag))
     /\ CountAnswer
     /\ UNCHANGED parsed
  \/ /\ ~TempDevice
     /\ UNCHANGED <<Services, ServiceNum, TempDevice, CreateTable, delivered,
                    failures, parsed, dropped, shrunkWalk>>

\* Mutated form of ScpdFails: a failed request is counted like an answered one.
ScpdFailsCounted(r) ==
  /\ failures' = failures + 1
  /\ ServiceNum' = ServiceNum - 1
  /\ delivered' = IF ServiceNum' = 0 THEN delivered + 1 ELSE delivered
  /\ CreateTable' = FALSE
  /\ TempDevice' = FALSE
  /\ UNCHANGED <<Services, parsed, dropped, shrunkWalk>>

\* The SCPD cannot be fetched or is empty: the creation has failed.  The answer
\* is not counted, so ServiceNum can no longer reach 0.
ScpdFails(r) ==
  /\ TempDevice' = FALSE
  /\ ReportFailure
  /\ UNCHANGED <<Services, ServiceNum, parsed, dropped, shrunkWalk>>

\* HttpRequestor completes each request exactly once, in any order.  An exception
\* that leaves the walk's thread ends the process, and with it the answers.
ScpdAnswer ==
  /\ pc \notin {"crashed", "refused"}
  /\ \E r \in requests :
       /\ requests' = requests \ {r}
       /\ ScpdParses(r) \/ ScpdMalformed(r) \/ ScpdFails(r)
  /\ UNCHANGED <<pc, walk>>

Walk == WalkCheck \/ WalkReadUrl \/ WalkLaunch

Next == DescriptionFails \/ DescriptionParses \/ Walk \/ ScpdAnswer

\* The thread pool runs the walk; the HTTP stack completes every request with an
\* answer or with an error.
Fairness ==
  /\ WF_vars(DescriptionFails \/ DescriptionParses)
  /\ WF_vars(Walk)
  /\ WF_vars(ScpdAnswer)

Safety == Init /\ [][Next]_vars

Spec == Safety /\ Fairness

----------------------------------------------------------------------------
\* The abstract outcome the caller sees.
Outcome ==
  IF delivered > 0 THEN "created" ELSE IF failures > 0 THEN "failed" ELSE "pending"

Creation == INSTANCE DeviceCreation WITH outcome <- Outcome

\* The factory keeps the promise of DeviceCreation: it delivers the device or
\* reports failure, never both, whatever the order of the answers.
ImplementsDeviceCreation == Creation!Spec

\* A device is delivered once and complete: every service of the description
\* was parsed from its own SCPD and is on the device, or its own SCPD was
\* malformed and it is gone; and no answer is outstanding.
DeliveredComplete ==
  delivered > 0 =>
    /\ delivered = 1
    /\ requests = {}
    /\ \A s \in AllServices :
         \/ <<s, s>> \in parsed /\ \E d \in DOMAIN Services : s \in ToSet(Services[d])
         \/ <<s, s>> \in dropped /\ \A d \in DOMAIN Services : s \notin ToSet(Services[d])

\* The caller hears of every creation, but for two: LaunchRequest refused an
\* SCPDURL, or a service was dropped from the list under the walk before the
\* walk had come to its end, so that the walk skips a service or runs off it.
EventuallyReported == <>(delivered + failures > 0 \/ pc = "refused" \/ shrunkWalk)

\* Resilience.txt, case 5b: a bad service description drops the service, and the
\* rest of the device is still created.  Once the walk is over and every request
\* is answered, a device none of whose requests failed has been delivered.
MalformedScpdDropsOnlyTheService ==
  (pc = "done" /\ requests = {} /\ failures = 0) => delivered = 1

=============================================================================
