----------------------------- MODULE DVEventing -----------------------------
(***************************************************************************)
(* The eventing of a device that the C generator writes (DVMicroStack.c of *)
(* the DeviceProtection sample): the list of subscribers of one service,   *)
(* their reference counts and the notifications on their way.              *)
(*                                                                         *)
(* Two threads meet here.  The chain's thread answers SUBSCRIBE, renewal   *)
(* and UNSUBSCRIBE and is told by the web client how each notification     *)
(* ended; the application's thread sets the state variable and walks the   *)
(* list.  EventLock is taken by the walk, by UNSUBSCRIBE and by the sink   *)
(* of a notification, not by SUBSCRIBE, whose initial event is a read and  *)
(* a write of fields that the walk may be updating.                        *)
(*                                                                         *)
(* What a program does once it has reached a freed subscriber is not C's   *)
(* to say: behaviours are followed up to there ("dead").  The web client   *)
(* is external: each notification it accepts ends once, in order for each  *)
(* subscriber, with a response or without.                                 *)
(***************************************************************************)
EXTENDS Naturals, Sequences, SequencesExt

CONSTANTS
  Subscriber, NoSubscriber,  \* the subscribers ever allocated
  MaxSubscribers,            \* 10 in the code
  MaxSets                    \* bound: the calls of SetState

ASSUME EventingAssumption == NoSubscriber \notin Subscriber /\ MaxSubscribers \in Nat

VARIABLES
  HeadSubscriberPtr,    \* the list
  NumberOfSubscribers,
  info,      \* each subscriber's mem, RefCount, SEQ, Disposing and time
  SetupReady,           \* how often the state variable was set
  EventLock,            \* whether the walk holds it
  app,       \* the application's thread: pc, at, and the fields it has read
  chain,     \* the chain's thread: the initial event it is sending
  requests,  \* the notifications in the web client, each with its SEQ
  dead,
  last,      \* the value in the last notification of each subscriber
  raced,     \* the subscribers that a walk met before their initial event
  missed     \* those that a walk did not come to, for want of a Next, and not since

members == <<HeadSubscriberPtr, NumberOfSubscribers>>
notes == <<last, raced, missed>>
DVvars == <<members, info, SetupReady, EventLock, app, chain, requests, dead, notes>>

Fields == [RefCount : Nat, SEQ : Nat]
NoFields == [RefCount |-> 0, SEQ |-> 0]

DVTypeOK ==
  /\ HeadSubscriberPtr \in Seq(Subscriber) /\ NumberOfSubscribers \in Nat
  /\ info \in [Subscriber -> [mem : {"none", "live", "freed", "purged"}, RefCount : Nat,
                              SEQ : Nat, Disposing : BOOLEAN,
                              time : {"valid", "expired", "lapsed"}]]
  /\ SetupReady \in Nat /\ EventLock \in BOOLEAN
  /\ app \in [pc : {"idle", "lock", "walk", "send"}, at : Subscriber \cup {NoSubscriber},
              read : Fields]
  /\ chain \in [pc : {"idle", "purge", "free", "body", "read", "send"},
                at : Subscriber \cup {NoSubscriber}, next : Subscriber \cup {NoSubscriber},
                body : Nat, read : Fields]
  /\ requests \in [Subscriber -> Seq(Nat)]
  /\ dead \in BOOLEAN
  /\ last \in [Subscriber -> Nat]
  /\ raced \in SUBSET Subscriber /\ missed \in SUBSET Subscriber

\* A subscriber that is not allocated; what its fields hold is of no account.
Blank(mem) ==
  [mem |-> mem, RefCount |-> 0, SEQ |-> 0, Disposing |-> FALSE, time |-> "valid"]

Idle == [pc |-> "idle", at |-> NoSubscriber, next |-> NoSubscriber, body |-> 0,
         read |-> NoFields]

DVInit ==
  /\ HeadSubscriberPtr = <<>> /\ NumberOfSubscribers = 0
  /\ info = [s \in Subscriber |-> Blank("none")]
  /\ SetupReady = 0 /\ EventLock = FALSE
  /\ app = [pc |-> "idle", at |-> NoSubscriber, read |-> NoFields]
  /\ chain = Idle
  /\ requests = [s \in Subscriber |-> <<>>]
  /\ dead = FALSE
  /\ last = [s \in Subscriber |-> 0] /\ raced = {} /\ missed = {}

Listed == ToSet(HeadSubscriberPtr)
Gone(s) == info[s].mem \in {"freed", "purged"}

\* The walk of the list down to s meets no freed subscriber.
Reaches(s) ==
  \E k \in DOMAIN HeadSubscriberPtr :
    HeadSubscriberPtr[k] = s /\ \A j \in 1..k : ~Gone(HeadSubscriberPtr[j])

First(list) == IF list = <<>> THEN NoSubscriber ELSE Head(list)

Place(s) == CHOOSE k \in DOMAIN HeadSubscriberPtr : HeadSubscriberPtr[k] = s

\* info->Next, NULL once RemoveSubscriberInfo has taken s out of the list.
After(s) ==
  IF s \in Listed /\ Place(s) < Len(HeadSubscriberPtr)
    THEN HeadSubscriberPtr[Place(s) + 1] ELSE NoSubscriber

\* s comes before r in the list.
Before(s, r) ==
  \E i, j \in DOMAIN HeadSubscriberPtr :
    i < j /\ HeadSubscriberPtr[i] = s /\ HeadSubscriberPtr[j] = r

Behind(s) == {r \in Listed : Before(s, r)}

\* The subscriber whose initial event is not sent yet.
Starting == IF chain.pc \in {"body", "read", "send"} THEN {chain.at} ELSE {}

\* The subscriber that TryToSubscribe has taken out of the list and has to free.
Leaving == IF chain.pc = "free" THEN {chain.at} ELSE {}

----------------------------------------------------------------------------
(* Helpers: what becomes of info and of the list.                          *)

\* Mutated form of Counted: the last notification on its way is not waited for.
CountedEarly(s, n, disposing) ==
  [info EXCEPT ![s] =
     IF n <= 1 THEN Blank("freed") ELSE [@ EXCEPT !.RefCount = n, !.Disposing = disposing]]

\* A subscriber whose RefCount has come to zero is freed.
Counted(s, n, disposing) ==
  [info EXCEPT ![s] =
     IF n = 0 THEN Blank("freed") ELSE [@ EXCEPT !.RefCount = n, !.Disposing = disposing]]

Without(s) == IF s \in Listed THEN RemoveAt(HeadSubscriberPtr, Place(s)) ELSE HeadSubscriberPtr

\* RemoveSubscriberInfo.
RemoveSubscriberInfo(s) ==
  /\ HeadSubscriberPtr' = Without(s)
  /\ NumberOfSubscribers' = IF s \in Listed THEN NumberOfSubscribers - 1 ELSE NumberOfSubscribers

\* Mutated form of ExpireSubscriberInfo: it does not ask whether s is in the list.
ExpireSubscriberInfoBlind(s, n) ==
  /\ HeadSubscriberPtr' = Without(s) /\ NumberOfSubscribers' = NumberOfSubscribers - 1
  /\ info' = Counted(s, n - 1, TRUE)

\* ExpireSubscriberInfo.  A subscriber that is no longer in the list is left alone.
ExpireSubscriberInfo(s, n) ==
  IF s \in Listed
    THEN RemoveSubscriberInfo(s) /\ info' = Counted(s, n - 1, TRUE)
    ELSE info' = Counted(s, n, TRUE) /\ UNCHANGED members

\* SendEvent_Body, its increments and its request.
SendEvent_Body(s, read, value) ==
  /\ info' = [info EXCEPT ![s].SEQ = read.SEQ + 1, ![s].RefCount = read.RefCount + 1]
  /\ requests' = [requests EXCEPT ![s] = Append(@, read.SEQ)]
  /\ last' = [last EXCEPT ![s] = value]
  /\ missed' = missed \ {s}

ReadFields(s) == [RefCount |-> info[s].RefCount, SEQ |-> info[s].SEQ]

----------------------------------------------------------------------------
(* The application's thread.                                               *)

SetState ==
  /\ app.pc = "idle" /\ SetupReady < MaxSets
  /\ SetupReady' = SetupReady + 1
  /\ app' = [app EXCEPT !.pc = "lock"]
  /\ UNCHANGED <<members, info, EventLock, chain, requests, notes>>

\* SendEvent: sem_wait, and the head of the list.
SendEvent ==
  /\ app.pc = "lock" /\ EventLock = FALSE
  /\ EventLock' = TRUE
  /\ app' = [app EXCEPT !.pc = "walk", !.at = First(HeadSubscriberPtr)]
  /\ UNCHANGED <<members, info, SetupReady, chain, requests, notes>>

\* Mutated form of Visit: the walk ends at an expired subscriber.
VisitStops ==
  /\ app.pc = "walk" /\ app.at # NoSubscriber /\ ~Gone(app.at)
  /\ app' = IF info[app.at].time = "expired"
              THEN [app EXCEPT !.at = NoSubscriber]
              ELSE [app EXCEPT !.pc = "send", !.read = ReadFields(app.at)]
  /\ raced' = IF app.at \in Starting THEN raced \cup {app.at} ELSE raced
  /\ UNCHANGED <<members, info, SetupReady, EventLock, chain, requests, last, missed>>

\* One round of the loop: an expired subscriber is passed over, also if it is the
\* one whose initial event is not sent yet.
Visit ==
  /\ app.pc = "walk" /\ app.at # NoSubscriber /\ ~Gone(app.at)
  /\ app' = IF info[app.at].time = "expired"
              THEN [app EXCEPT !.at = After(app.at)]
              ELSE [app EXCEPT !.pc = "send", !.read = ReadFields(app.at)]
  /\ raced' = IF app.at \in Starting THEN raced \cup {app.at} ELSE raced
  /\ UNCHANGED <<members, info, SetupReady, EventLock, chain, requests, last, missed>>

Notify ==
  /\ app.pc = "send" /\ ~Gone(app.at)
  /\ SendEvent_Body(app.at, app.read, SetupReady)
  /\ app' = [pc |-> "walk", at |-> After(app.at), read |-> NoFields]
  /\ UNCHANGED <<members, SetupReady, EventLock, chain, raced>>

SendEventEnds ==
  /\ app.pc = "walk" /\ app.at = NoSubscriber
  /\ EventLock' = FALSE
  /\ app' = [app EXCEPT !.pc = "idle"]
  /\ UNCHANGED <<members, info, SetupReady, chain, requests, notes>>

----------------------------------------------------------------------------
(* The chain's thread, without EventLock.                                  *)

\* TryToSubscribe looks for expired subscribers first.
TryToSubscribe ==
  /\ chain.pc = "idle"
  /\ chain' = [Idle EXCEPT !.pc = "purge", !.at = First(HeadSubscriberPtr)]
  /\ UNCHANGED <<members, info, SetupReady, EventLock, app, requests, notes>>

\* An expired one is taken out, whatever its RefCount; a walk that is there ends there.
Purge ==
  /\ chain.pc = "purge" /\ chain.at # NoSubscriber /\ ~Gone(chain.at)
  /\ IF info[chain.at].time = "expired"
       THEN /\ RemoveSubscriberInfo(chain.at)
            /\ chain' = [chain EXCEPT !.pc = "free", !.next = After(chain.at)]
            /\ missed' = IF app.at = chain.at THEN missed \cup Behind(chain.at) ELSE missed
       ELSE /\ chain' = [chain EXCEPT !.at = After(chain.at)]
            /\ UNCHANGED <<members, missed>>
  /\ UNCHANGED <<info, SetupReady, EventLock, app, requests, last, raced>>

\* DestructSubscriberInfo.
PurgeFrees ==
  /\ chain.pc = "free"
  /\ info' = [info EXCEPT ![chain.at] = Blank("purged")]
  /\ chain' = [Idle EXCEPT !.pc = "purge", !.at = chain.next]
  /\ UNCHANGED <<members, SetupReady, EventLock, app, requests, notes>>

\* The request is refused: there are too many subscribers, or the URL is malformed.
Refuse ==
  /\ chain.pc = "purge" /\ chain.at = NoSubscriber
  /\ chain' = Idle
  /\ UNCHANGED <<members, info, SetupReady, EventLock, app, requests, notes>>

\* A new subscriber is put in front.
Accept ==
  /\ chain.pc = "purge" /\ chain.at = NoSubscriber
  /\ NumberOfSubscribers < MaxSubscribers
  /\ \E s \in Subscriber : info[s].mem = "none"
  /\ LET s == CHOOSE r \in Subscriber : info[r].mem = "none" IN
       /\ HeadSubscriberPtr' = <<s>> \o HeadSubscriberPtr
       /\ info' = [info EXCEPT ![s].mem = "live", ![s].RefCount = 1]
       /\ chain' = [Idle EXCEPT !.pc = "body", !.at = s]
  /\ NumberOfSubscribers' = NumberOfSubscribers + 1
  /\ UNCHANGED <<SetupReady, EventLock, app, requests, notes>>

\* The initial event: its body is made, then it is sent as every event is.
InitialEventBody ==
  /\ chain.pc = "body"
  /\ chain' = [chain EXCEPT !.pc = "read", !.body = SetupReady]
  /\ UNCHANGED <<members, info, SetupReady, EventLock, app, requests, notes>>

InitialEventRead ==
  /\ chain.pc = "read"
  /\ chain' = [chain EXCEPT !.pc = "send", !.read = ReadFields(chain.at)]
  /\ UNCHANGED <<members, info, SetupReady, EventLock, app, requests, notes>>

InitialEvent ==
  /\ chain.pc = "send"
  /\ SendEvent_Body(chain.at, chain.read, chain.body)
  /\ chain' = Idle
  /\ UNCHANGED <<members, SetupReady, EventLock, app, raced>>

\* "lapsed" remembers that the subscriber had expired before.
RenewEvents(s) ==
  /\ chain.pc = "idle" /\ Reaches(s) /\ info[s].time = "expired"
  /\ info' = [info EXCEPT ![s].time = "lapsed"]
  /\ UNCHANGED <<members, SetupReady, EventLock, app, chain, requests, notes>>

----------------------------------------------------------------------------
(* The chain's thread, with EventLock.                                     *)

\* Mutated form of ProcessUNSUBSCRIBE: the reference of the list is kept.
ProcessUNSUBSCRIBEKeeps(s) ==
  /\ chain.pc = "idle" /\ EventLock = FALSE /\ Reaches(s)
  /\ RemoveSubscriberInfo(s)
  /\ UNCHANGED <<info, SetupReady, EventLock, app, chain, requests, notes>>

ProcessUNSUBSCRIBE(s) ==
  /\ chain.pc = "idle" /\ EventLock = FALSE /\ Reaches(s)
  /\ RemoveSubscriberInfo(s)
  /\ info' = Counted(s, info[s].RefCount - 1, info[s].Disposing)
  /\ UNCHANGED <<SetupReady, EventLock, app, chain, requests, notes>>

Answer(s) ==
  /\ chain.pc = "idle" /\ requests[s] # <<>> /\ ~Gone(s)
  /\ requests' = [requests EXCEPT ![s] = Tail(@)]

\* SendEventSink of a notification that has ended, with a response or without.
SendEventSink(s, response) ==
  LET n == info[s].RefCount - 1 IN
  /\ Answer(s)
  /\ IF info[s].Disposing
       THEN UNCHANGED <<members, info>>
       ELSE /\ EventLock = FALSE
            /\ IF n = 0 \/ response
                 THEN /\ info' = Counted(s, n, FALSE)
                      /\ UNCHANGED members
                 ELSE ExpireSubscriberInfo(s, n)
  /\ UNCHANGED <<SetupReady, EventLock, app, chain, notes>>

----------------------------------------------------------------------------
\* The time of a subscription is over.
Expires(s) ==
  /\ info[s].mem = "live" /\ info[s].time # "expired"
  /\ info' = [info EXCEPT ![s].time = "expired"]
  /\ UNCHANGED <<members, SetupReady, EventLock, app, chain, requests, notes>>

\* A thread reaches a freed subscriber: the walk, the sink of a notification, or the
\* answer to a request that goes through the list.
WalkTouches == app.pc \in {"walk", "send"} /\ app.at # NoSubscriber /\ Gone(app.at)
SinkTouches == chain.pc = "idle" /\ \E s \in Subscriber : Gone(s) /\ requests[s] # <<>>
ListTouches == chain.pc = "idle" /\ \E s \in Listed : Gone(s)
PurgeTouches == chain.pc = "purge" /\ chain.at # NoSubscriber /\ Gone(chain.at)

AppStep == SendEvent \/ Visit \/ Notify \/ SendEventEnds
SubscribeStep ==
  \/ Purge \/ PurgeFrees \/ Refuse \/ Accept
  \/ InitialEventBody \/ InitialEventRead \/ InitialEvent
DVSink(s) == \E response \in BOOLEAN : SendEventSink(s, response)

Step ==
  \/ SetState \/ AppStep
  \/ TryToSubscribe \/ SubscribeStep
  \/ \E s \in Subscriber : RenewEvents(s) \/ ProcessUNSUBSCRIBE(s) \/ DVSink(s) \/ Expires(s)

Die(touches) ==
  /\ touches
  /\ dead' = TRUE
  /\ UNCHANGED <<members, info, SetupReady, EventLock, app, chain, requests, notes>>

DVNext ==
  /\ ~dead
  /\ \/ Step /\ UNCHANGED dead
     \/ Die(WalkTouches \/ SinkTouches \/ ListTouches \/ PurgeTouches)

DVSafety == DVInit /\ [][DVNext]_DVvars

AppGoesOn == ~dead /\ ((AppStep /\ UNCHANGED dead) \/ Die(WalkTouches))
ChainGoesOn == ~dead /\ ((SubscribeStep /\ UNCHANGED dead) \/ Die(PurgeTouches))
RequestEnds(s) == ~dead /\ ((DVSink(s) /\ UNCHANGED dead) \/ Die(SinkTouches))

\* Both threads go on, and the web client ends every request: the chain comes back to
\* it between the requests that it serves.
DVSpec ==
  /\ DVSafety
  /\ WF_DVvars(AppGoesOn) /\ WF_DVvars(ChainGoesOn)
  /\ \A s \in Subscriber : SF_DVvars(RequestEnds(s))

----------------------------------------------------------------------------
\* The counter is the length of the list and within its bound, although SUBSCRIBE
\* changes both without the lock and the sink of a failed notification may come
\* after the UNSUBSCRIBE of its subscriber.
CountMatches ==
  /\ NumberOfSubscribers = Len(HeadSubscriberPtr)
  /\ NumberOfSubscribers <= MaxSubscribers

\* RefCount counts the list and the notifications on their way, so that a subscriber
\* freed by its count is reached by neither of them and by no walk.  Not of those
\* that a walk met before their initial event: an increment may be lost there.
\* A subscriber that a failure disposed of no longer counts.
ReferencesCounted ==
  \A s \in Subscriber \ raced :
    /\ info[s].mem = "live" /\ ~info[s].Disposing =>
         info[s].RefCount =
           Len(requests[s]) + (IF s \in Listed \cup Leaving THEN 1 ELSE 0)
    /\ info[s].mem = "freed" => s \notin Listed /\ requests[s] = <<>> /\ app.at # s
    /\ info[s].Disposing => s \notin Listed

\* When no event is being sent, the last notification of every subscriber whose
\* subscription has not expired since it began carries the present value.  Not of one
\* that a walk met before its initial event, and not of those behind the place where
\* SUBSCRIBE took an expired subscriber out of the list under the walk.
LastEventCurrent ==
  app.pc = "idle" => \A s \in Listed \ (raced \cup missed \cup Starting) :
    info[s].time = "valid" => last[s] = SetupReady

----------------------------------------------------------------------------
(* The inductive invariant.                                                *)

NoneTwice ==
  \A i, j \in DOMAIN HeadSubscriberPtr : HeadSubscriberPtr[i] = HeadSubscriberPtr[j] => i = j

\* What is in the list or has a notification on its way has been allocated.
Allocated ==
  \A s \in Subscriber :
    /\ s \in Listed => info[s].mem \in {"live", "freed"}
    /\ info[s].mem = "live" => info[s].RefCount > 0
    /\ info[s].mem # "live" => ~info[s].Disposing
    /\ info[s].mem = "none" => requests[s] = <<>>

\* Where the chain's thread stands; nobody else takes a subscriber out of the list.
ChainPlace ==
  /\ chain.pc = "idle" => chain.at = NoSubscriber
  /\ chain.pc = "purge" => chain.at \in Listed \cup {NoSubscriber}
  /\ chain.pc = "free" =>
       /\ chain.at \in Subscriber \ Listed /\ info[chain.at].mem = "live"
       /\ chain.next \in Listed \cup {NoSubscriber}
  /\ chain.pc \in {"body", "read", "send"} =>
       chain.at \in Listed /\ info[chain.at].mem = "live"

\* Where the walk stands.  Under it only SUBSCRIBE takes subscribers out of the list.
WalkPlace ==
  /\ EventLock <=> app.pc \in {"walk", "send"}
  /\ ~EventLock => app.at = NoSubscriber
  /\ app.pc = "send" => app.at # NoSubscriber
  /\ app.at # NoSubscriber => app.at \in Listed \cup Leaving \/ Gone(app.at)

\* A RefCount that one thread has read and will write is still what it was.
ReadsCurrent ==
  /\ app.pc = "send" /\ app.at \notin raced /\ info[app.at].mem = "live" =>
       app.read.RefCount = info[app.at].RefCount /\ app.at \notin Starting
  /\ chain.pc = "send" /\ chain.at \notin raced =>
       chain.read.RefCount = info[chain.at].RefCount

\* The walk, if one is under way, has been past s, or will not come to it any more.
Passed(s) ==
  app.pc # "lock" /\ (app.at \in {NoSubscriber} \cup Leaving \/ Before(s, app.at))

\* Whom the walk has been past has the present value, or is going to be sent it.
PassedCurrent ==
  /\ \A s \in Listed \ (raced \cup missed \cup Starting) :
       Passed(s) /\ info[s].time = "valid" => last[s] = SetupReady
  /\ chain.pc \in {"read", "send"} /\ chain.at \notin raced /\ Passed(chain.at) =>
       chain.body = SetupReady

DVInvariant ==
  /\ DVTypeOK /\ CountMatches /\ NoneTwice /\ Allocated /\ ChainPlace /\ WalkPlace
  /\ ReferencesCounted /\ ReadsCurrent /\ PassedCurrent

\* A subscriber that has left the list is freed, unless a failure disposed of it: again
\* and again nobody is left behind, although subscribers may leave at any time.
UnlistedIsFreed ==
  []<>(dead \/ \A s \in Subscriber :
                 info[s].mem = "live" /\ s \notin Listed => info[s].Disposing \/ s \in raced)
=============================================================================
