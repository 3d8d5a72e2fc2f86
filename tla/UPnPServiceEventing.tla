------------------------ MODULE UPnPServiceEventing ------------------------
(***************************************************************************)
(* The two ends of an event subscription (UPnPService.cs): a control       *)
(* point's service, which subscribes, renews on a LifeTimeMonitor and      *)
(* unsubscribes, and the device's service, which keeps SubscriberTable and *)
(* sends events.                                                           *)
(*                                                                         *)
(* Several threads of the application call Subscribe and UnSubscribe, and  *)
(* a thread of the smart control point calls _Update.  SubscribeLock       *)
(* covers the counting only, a single step; the rest of a call runs        *)
(* outside of it.  RenewSink and _Update set the count to 0 without the    *)
(* lock, before a counting or after it, not between its read and write.    *)
(*                                                                         *)
(* Each request has an HTTPRequest and a connection of its own (external): *)
(* it is answered once, with a response or with null, and answers come in  *)
(* any order, on threads of their own.  A response may be lost after its   *)
(* request was served.                                                     *)
(*                                                                         *)
(* Time is counted in half timeouts, after which a subscription is         *)
(* renewed.  It passes only when no request, expiry or response is under   *)
(* way: half a timeout is taken to be long enough for these.               *)
(***************************************************************************)
EXTENDS Integers

CONSTANTS
  SID, NoSID,   \* the identifiers that GetNewSID makes; no SID, or ""
  Caller,       \* the threads that call Subscribe, UnSubscribe and _Update
  Timeouts,     \* the timeouts a control point may ask for: 0 is infinite, 2 two halves
  MaxCalls      \* bound: the calls of all threads

ASSUME EventingAssumption ==
  NoSID \notin SID /\ Timeouts \subseteq {0, 2} /\ MaxCalls \in Nat

VARIABLES
  \* the control point's service
  SubscribeCounter, CurrentSID, CurrentTimeout,
  app,          \* where each caller is, the SID it has read, the callers it left counted
  arming,       \* the responses to SUBSCRIBE that are still to set the clock
  cycle,        \* whether SubscribeCycle holds a time for this service
  expired,      \* the expiries of that time whose sink is still to run
  \* the requests under way: how many of each
  requests,
  \* the device's service
  SubscriberTable,  \* Expires by SID: the half timeouts left, Infinite or Absent
  walk,             \* SendEvents: the SIDs still to visit, and the entry it has copied
  \* history
  calls,
  excuses       \* why the two ends may disagree about CurrentSID

clientVars == <<SubscribeCounter, CurrentSID, CurrentTimeout, app, arming, cycle, expired>>
deviceVars == <<SubscriberTable, walk>>
vars == <<clientVars, requests, deviceVars, calls, excuses>>

Infinite == -1
Absent == -2
Left == {Absent, Infinite} \cup 0..2

Request == [op : {"SUBSCRIBE", "RENEW", "UNSUBSCRIBE"}, state : {"sent", "ok", "failed"},
            sid : SID \cup {NoSID}]

At == [op : {"idle", "subscribe", "unsubscribe", "clear", "update", "resubscribe"},
       sid : SID \cup {NoSID}, others : BOOLEAN]

Reason == {"RenewalFailed", "RenewThrew", "StrayAnswer", "Overwritten", "Updated",
           "Refused", "Threw", "Late", "Forced", "Crossed"}

TypeOK ==
  /\ SubscribeCounter \in Nat /\ CurrentSID \in SID \cup {NoSID} /\ CurrentTimeout \in Timeouts
  /\ app \in [Caller -> At]
  /\ arming \in Nat /\ cycle \in BOOLEAN /\ expired \in Nat
  /\ requests \in [Request -> Nat]
  /\ SubscriberTable \in [SID -> Left]
  /\ walk \in [keys : SUBSET SID, sid : SID \cup {NoSID}, Expires : Left]
  /\ calls \in 0..MaxCalls
  /\ excuses \in SUBSET Reason

Is(op, s, others) == [op |-> op, sid |-> s, others |-> others]
Idle == Is("idle", NoSID, FALSE)
NoCopy == [keys |-> {}, sid |-> NoSID, Expires |-> Absent]

\* Every call of Subscribe asks for the same timeout.
Init ==
  /\ SubscribeCounter = 0 /\ CurrentSID = NoSID /\ CurrentTimeout \in Timeouts
  /\ app = [c \in Caller |-> Idle] /\ arming = 0 /\ cycle = FALSE /\ expired = 0
  /\ requests = [r \in Request |-> 0]
  /\ SubscriberTable = [s \in SID |-> Absent] /\ walk = NoCopy
  /\ calls = 0 /\ excuses = {}

Req(op, state, s) == [op |-> op, state |-> state, sid |-> s]
Sent(op, s) == Req(op, "sent", s)
Send(r) == requests' = [requests EXCEPT ![r] = @ + 1]
Becomes(r, q) == requests' = [requests EXCEPT ![r] = @ - 1, ![q] = @ + 1]
UnderWay == {r \in Request : requests[r] > 0}

----------------------------------------------------------------------------
(* The calls.  A caller that goes on, or comes to an end, is at c.         *)

Goes(c, op) == app' = [app EXCEPT ![c] = Is(op, NoSID, FALSE)]
Call(c) == app[c] = Idle /\ calls < MaxCalls /\ calls' = calls + 1

\* Why a subscription that there is now may lapse.
Because(reason) ==
  excuses' = IF CurrentSID # NoSID THEN excuses \cup {reason} ELSE excuses

\* SSDP.ParseURL threw (a name that is not resolved, say), or IPAddress.Parse did.
Throws(c, reason) ==
  /\ Goes(c, "idle")
  /\ excuses' = excuses \cup {reason}
  /\ UNCHANGED requests

\* Subscribe counts its callers under SubscribeLock; the first of them goes on.
Count(c) ==
  /\ SubscribeCounter' = SubscribeCounter + 1
  /\ Goes(c, IF SubscribeCounter = 0 THEN "subscribe" ELSE "idle")
  /\ UNCHANGED <<CurrentSID, CurrentTimeout, arming, cycle, expired, requests, deviceVars, excuses>>

Subscribe(c) == Call(c) /\ Count(c)

\* It sends its request, or throws: the caller stays counted.
SubscribeSend(c) ==
  /\ app[c].op = "subscribe"
  /\ \/ Goes(c, "idle") /\ Send(Sent("SUBSCRIBE", NoSID)) /\ UNCHANGED excuses
     \/ Throws(c, "Threw")
  /\ UNCHANGED <<SubscribeCounter, CurrentSID, CurrentTimeout, arming, cycle, expired,
                 deviceVars, calls>>

\* UnSubscribe, of one callback or (null, and from Dispose) of all of them.
UnSubscribe(c, all) ==
  LET n == IF SubscribeCounter > 0 THEN SubscribeCounter - 1 ELSE 0
  IN  /\ Call(c)
      /\ SubscribeCounter' = n
      /\ app' = [app EXCEPT ![c] = IF n = 0 \/ all THEN Is("unsubscribe", NoSID, n > 0) ELSE Idle]
      /\ UNCHANGED <<CurrentSID, CurrentTimeout, arming, cycle, expired, requests, deviceVars,
                     excuses>>

\* UnSubscribe reads CurrentSID for its request, and later clears it; or it throws first.
UnSubscribeRead(c) ==
  /\ app[c].op = "unsubscribe"
  /\ \/ /\ app' = [app EXCEPT ![c] = Is("clear", CurrentSID, @.others)]
        /\ UNCHANGED <<requests, excuses>>
     \/ Throws(c, "Threw")
  /\ UNCHANGED <<SubscribeCounter, CurrentSID, CurrentTimeout, arming, cycle, expired,
                 deviceVars, calls>>

\* Why CurrentSID is cleared although callers are counted: they were when UnSubscribe
\* counted, or a Subscribe has crossed it since.
Cleared(c) ==
  excuses' = IF SubscribeCounter = 0 THEN {}
             ELSE IF app[c].others THEN {"Forced"} ELSE {"Crossed"}

\* Mutated form of UnSubscribeSend: CurrentSID is not cleared.
UnSubscribeSendKeeps(c) ==
  /\ app[c].op = "clear"
  /\ Goes(c, "idle")
  /\ Send(Sent("UNSUBSCRIBE", app[c].sid))
  /\ Cleared(c)
  /\ UNCHANGED <<SubscribeCounter, CurrentSID, CurrentTimeout, arming, cycle, expired,
                 deviceVars, calls>>

UnSubscribeSend(c) ==
  /\ app[c].op = "clear"
  /\ Goes(c, "idle")
  /\ CurrentSID' = NoSID
  /\ Send(Sent("UNSUBSCRIBE", app[c].sid))
  /\ Cleared(c)
  /\ UNCHANGED <<SubscribeCounter, CurrentTimeout, arming, cycle, expired, deviceVars, calls>>

\* _Update, for a device that has changed its address, subscribes anew if there are
\* callers: it stops the clock and sets the count to 0, without SubscribeLock, and calls
\* Subscribe.
Update(c) ==
  /\ Call(c)
  /\ SubscribeCounter # 0
  /\ Goes(c, "update")
  /\ UNCHANGED <<SubscribeCounter, CurrentSID, CurrentTimeout, arming, cycle, expired, requests,
                 deviceVars, excuses>>

UpdateReset(c) ==
  /\ app[c].op = "update"
  /\ cycle' = FALSE
  /\ SubscribeCounter' = 0
  /\ Goes(c, "resubscribe")
  /\ Because("Updated")
  /\ UNCHANGED <<CurrentSID, CurrentTimeout, arming, expired, requests, deviceVars, calls>>

UpdateSubscribe(c) == app[c].op = "resubscribe" /\ Count(c) /\ UNCHANGED calls

----------------------------------------------------------------------------
(* The responses, and the renewal cycle.                                   *)

Answer(r) == r.state # "sent" /\ requests' = [requests EXCEPT ![r] = @ - 1]

HandleSubscribeResponse(r) ==
  /\ r.op = "SUBSCRIBE" /\ Answer(r)
  /\ IF r.state = "ok"
       THEN /\ CurrentSID' = r.sid
            /\ arming' = IF CurrentTimeout # 0 THEN arming + 1 ELSE arming
            /\ excuses' = IF SubscribeCounter = 0 THEN {"Late"} ELSE {}
       ELSE /\ excuses' = excuses \cup {"Refused"}
            /\ UNCHANGED <<CurrentSID, arming>>
  /\ UNCHANGED <<SubscribeCounter, CurrentTimeout, app, cycle, expired, deviceVars, calls>>

\* The end of HandleSubscribeResponse, after the application's callback.
SubscribeArms ==
  /\ arming > 0
  /\ arming' = arming - 1
  /\ cycle' = TRUE
  /\ UNCHANGED <<SubscribeCounter, CurrentSID, CurrentTimeout, app, expired, requests,
                 deviceVars, calls, excuses>>

\* It removes the time of whatever subscription there is now.
HandleUnsubscribeResponse(r) ==
  /\ r.op = "UNSUBSCRIBE" /\ Answer(r)
  /\ cycle' = FALSE
  /\ Because("StrayAnswer")
  /\ UNCHANGED <<SubscribeCounter, CurrentSID, CurrentTimeout, app, arming, expired,
                 deviceVars, calls>>

\* SubscribeCycleSink calls Renew, which sends whatever SID is current.  What it throws
\* is caught and logged by WeakEvent.Fire, and the application is not told.
Renew ==
  /\ expired > 0
  /\ expired' = expired - 1
  /\ \/ Send(Sent("RENEW", CurrentSID)) /\ UNCHANGED excuses
     \/ Because("RenewThrew") /\ UNCHANGED requests
  /\ UNCHANGED <<SubscribeCounter, CurrentSID, CurrentTimeout, app, arming, cycle, deviceVars,
                 calls>>

RenewSink(r) ==
  /\ r.op = "RENEW" /\ Answer(r)
  /\ cycle' = (r.state = "ok")
  /\ SubscribeCounter' = IF r.state = "ok" THEN SubscribeCounter ELSE 0
  /\ IF r.state = "ok" THEN UNCHANGED excuses ELSE Because("RenewalFailed")
  /\ UNCHANGED <<CurrentSID, CurrentTimeout, app, arming, expired, deviceVars, calls>>

----------------------------------------------------------------------------
(* The device.                                                             *)

\* A request is served, and answered with s unless the connection is lost.
Answered(r, s) ==
  \/ Becomes(r, Req(r.op, "ok", s))
  \/ Becomes(r, Req(r.op, "failed", r.sid))

Full == IF CurrentTimeout = 0 THEN Infinite ELSE CurrentTimeout

Free(s) ==
  /\ SubscriberTable[s] = Absent /\ s \notin {CurrentSID, walk.sid} \cup walk.keys
  /\ \A c \in Caller : app[c].sid # s
  /\ \A r \in UnderWay : r.sid # s

\* _SubscribeEvent, also for a renewal that names no SID.
SubscribeEvent(r) ==
  /\ r.state = "sent" /\ r.sid = NoSID /\ r.op \in {"SUBSCRIBE", "RENEW"}
  /\ \E s \in SID : /\ Free(s)
                    /\ SubscriberTable' = [SubscriberTable EXCEPT ![s] = Full]
                    /\ Answered(r, s)
  /\ UNCHANGED <<clientVars, walk, calls, excuses>>

\* Mutated form of RenewEvent: the time is not prolonged.
RenewEventKeeps(r) ==
  /\ r.state = "sent" /\ r.op = "RENEW" /\ r.sid # NoSID
  /\ SubscriberTable[r.sid] # Absent
  /\ Answered(r, r.sid)
  /\ UNCHANGED <<clientVars, deviceVars, calls, excuses>>

\* _RenewEvent, of an entry that is still in the table.
RenewEvent(r) ==
  /\ r.state = "sent" /\ r.op = "RENEW" /\ r.sid # NoSID
  /\ SubscriberTable[r.sid] # Absent
  /\ SubscriberTable' = [SubscriberTable EXCEPT ![r.sid] = Full]
  /\ Answered(r, r.sid)
  /\ UNCHANGED <<clientVars, walk, calls, excuses>>

\* _CancelEvent.  A SID that is not in the table is answered all the same.
CancelEvent(r) ==
  /\ r.state = "sent" /\ r.op = "UNSUBSCRIBE"
  /\ SubscriberTable' = [s \in SID |-> IF s = r.sid THEN Absent ELSE SubscriberTable[s]]
  /\ Answered(r, r.sid)
  /\ UNCHANGED <<clientVars, walk, calls, excuses>>

\* A request is not served: the network lost it, or RenewEvents threw on its SID
\* and the idle connection is closed.
Lose(r) ==
  /\ r.state = "sent"
  /\ Becomes(r, Req(r.op, "failed", r.sid))
  /\ UNCHANGED <<clientVars, deviceVars, calls, excuses>>

\* SendEvents copies the keys of the table.
SendEvents ==
  /\ walk = NoCopy
  /\ \E s \in SID : SubscriberTable[s] # Absent
  /\ walk' = [NoCopy EXCEPT !.keys = {s \in SID : SubscriberTable[s] # Absent}]
  /\ UNCHANGED <<clientVars, requests, SubscriberTable, calls, excuses>>

\* It copies one entry, or removes one whose time is over.
SendEventsCopy(s) ==
  /\ walk.sid = NoSID /\ s \in walk.keys
  /\ IF SubscriberTable[s] \in {Absent, 0}
       THEN /\ walk' = [walk EXCEPT !.keys = @ \ {s}]
            /\ SubscriberTable' = [SubscriberTable EXCEPT ![s] = Absent]
       ELSE /\ walk' = [keys |-> walk.keys \ {s}, sid |-> s, Expires |-> SubscriberTable[s]]
            /\ UNCHANGED SubscriberTable
  /\ UNCHANGED <<clientVars, requests, calls, excuses>>

\* Mutated form of SendEventsWrite: an event prolongs the subscription.
SendEventsWriteProlongs ==
  /\ walk.sid # NoSID
  /\ SubscriberTable' = [SubscriberTable EXCEPT ![walk.sid] = Full]
  /\ walk' = [NoCopy EXCEPT !.keys = walk.keys]
  /\ UNCHANGED <<clientVars, requests, calls, excuses>>

\* It writes the copy back with the next SEQ, over a renewal or a removal since.
SendEventsWrite ==
  /\ walk.sid # NoSID
  /\ SubscriberTable' = [SubscriberTable EXCEPT ![walk.sid] = walk.Expires]
  /\ walk' = [NoCopy EXCEPT !.keys = walk.keys]
  /\ excuses' = IF walk.sid = CurrentSID /\ SubscriberTable[CurrentSID] # walk.Expires
                  THEN excuses \cup {"Overwritten"} ELSE excuses
  /\ UNCHANGED <<clientVars, requests, calls>>

----------------------------------------------------------------------------
(* Half a timeout passes.                                                  *)

Prompt == UnderWay = {} /\ expired = 0 /\ arming = 0

Older(n) == IF n > 0 THEN n - 1 ELSE n

Tick ==
  /\ Prompt
  /\ cycle \/ \E s \in SID : SubscriberTable[s] > 0
  /\ SubscriberTable' = [s \in SID |-> Older(SubscriberTable[s])]
  /\ walk' = [walk EXCEPT !.Expires = Older(@)]
  /\ cycle' = FALSE
  /\ expired' = IF cycle THEN 1 ELSE 0
  /\ UNCHANGED <<SubscribeCounter, CurrentSID, CurrentTimeout, app, arming, requests, calls,
                 excuses>>

----------------------------------------------------------------------------
Client ==
  \/ \E c \in Caller : \/ SubscribeSend(c) \/ UnSubscribeRead(c) \/ UnSubscribeSend(c)
                       \/ UpdateReset(c) \/ UpdateSubscribe(c)
  \/ SubscribeArms \/ Renew
  \/ \E r \in UnderWay :
       HandleSubscribeResponse(r) \/ HandleUnsubscribeResponse(r) \/ RenewSink(r)

Serve == \E r \in UnderWay : SubscribeEvent(r) \/ RenewEvent(r) \/ CancelEvent(r) \/ Lose(r)

Device ==
  \/ Serve
  \/ SendEvents \/ SendEventsWrite
  \/ \E s \in SID : SendEventsCopy(s)

Next ==
  \/ \E c \in Caller : Subscribe(c) \/ Update(c) \/ \E all \in BOOLEAN : UnSubscribe(c, all)
  \/ Client \/ Device \/ Tick

\* Threads go on, requests are answered or their connections close, and time passes.
\* Nothing is assumed of the application or of the device's events.
Fairness ==
  /\ WF_vars(Client \/ Serve) /\ WF_vars(Tick)

Safety == Init /\ [][Next]_vars

Spec == Safety /\ Fairness

----------------------------------------------------------------------------
(* Properties.                                                             *)

Excused(reasons) == excuses \cap reasons # {}

\* The subscription that a control point holds is alive at the device, renewed in time.
\* It lapses only after a renewal has failed, which the application is told
\* (RenewSink), or has thrown before it was sent, which it is not (Renew); when the
\* answer to an older UNSUBSCRIBE has removed its time (HandleUnsubscribeResponse); when
\* SendEvents has written an entry back over a renewal or a cancellation; or when
\* _Update has stopped its time.
StaysSubscribed ==
  CurrentSID # NoSID =>
    \/ SubscriberTable[CurrentSID] \notin {Absent, 0}
    \/ Excused({"RenewalFailed", "RenewThrew", "StrayAnswer", "Overwritten", "Updated"})

\* The callers counted by Subscribe and UnSubscribe have a subscription, and without
\* callers there is none, once no call is at work and no SUBSCRIBE under way.  They
\* disagree only after a SUBSCRIBE that was refused or lost, whose callers stay counted;
\* after a Subscribe or UnSubscribe that threw when it had counted; after a SUBSCRIBE
\* answered when its caller had gone; after UnSubscribe(null) with several callers; after
\* an UnSubscribe that cleared the SID of a Subscribe that crossed it on another thread;
\* or after a failed renewal, which sets the count to 0 and leaves CurrentSID.
CounterMeansSubscribed ==
  (SubscribeCounter > 0) # (CurrentSID # NoSID) =>
    \/ \E c \in Caller : app[c] # Idle
    \/ \E r \in UnderWay : r.op = "SUBSCRIBE"
    \/ Excused({"Refused", "Threw", "Late", "Forced", "Crossed", "RenewalFailed"})

\* A subscription with a timeout that its control point no longer knows (its answer was
\* lost, it was replaced, its UNSUBSCRIBE was lost, a renewal without a SID made it, or
\* SendEvents restored it) lapses at the device, whatever is renewed and sent meanwhile:
\* no SID has time left and is not the current one for ever.  An infinite subscription is
\* excepted: one that is left behind the device keeps, and sends to, for ever.
LeftBehindLapses ==
  \A s \in SID : []<>(SubscriberTable[s] <= 0 \/ s = CurrentSID)
=============================================================================
