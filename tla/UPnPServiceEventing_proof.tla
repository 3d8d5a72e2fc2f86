--------------------- MODULE UPnPServiceEventing_proof ---------------------
(***************************************************************************)
(* Proofs about UPnPServiceEventing, for any SIDs and callers, either      *)
(* timeout and any number of calls.  A subscription is followed from the SUBSCRIBE *)
(* that made it (Offered) over each round of its renewal (Renewed); that   *)
(* nothing cancels it on the way is NoCancel.                              *)
(***************************************************************************)
EXTENDS UPnPServiceEventing, TLAPS

\* The SID of a control point is not being unsubscribed.
NoCancel == CurrentSID # NoSID => requests[Sent("UNSUBSCRIBE", CurrentSID)] = 0

\* No caller has read s for its UNSUBSCRIBE.
Unread(s) == \A c \in Caller : app[c].sid # s

\* A subscription that is made but not known yet: its entry is fresh, nothing names it.
Offered ==
  \A r \in UnderWay :
    r.op = "SUBSCRIBE" /\ r.state = "ok" =>
      /\ r.sid # NoSID /\ r.sid # CurrentSID /\ Unread(r.sid)
      /\ requests[r] = 1 /\ requests[Sent("UNSUBSCRIBE", r.sid)] = 0
      /\ SubscriberTable[r.sid] = Full
      /\ walk.sid = r.sid => walk.Expires = Full

Renewing(s, state) == requests[Req("RENEW", state, s)] > 0

Lapsing == {"RenewalFailed", "RenewThrew", "StrayAnswer", "Overwritten", "Updated"}

\* The current subscription has its whole time and somebody to start its next round, or
\* half of it and its renewal on the way.
Round(s) ==
  \/ SubscriberTable[s] = 2 /\ (cycle \/ arming > 0 \/ Renewing(s, "ok"))
  \/ /\ SubscriberTable[s] \in {1, 2}
     /\ expired > 0 \/ Renewing(s, "sent") \/ Renewing(s, "failed")

Renewed ==
  CurrentSID # NoSID /\ ~Excused(Lapsing) =>
    IF CurrentTimeout = 0 THEN SubscriberTable[CurrentSID] = Infinite ELSE Round(CurrentSID)

IInv == TypeOK /\ NoCancel /\ Offered /\ Renewed

\* A request is what its fields are, and moving one changes its two counts only.
LEMMA Fields ==
  ASSUME NEW r \in Request
  PROVE /\ r = Req(r.op, r.state, r.sid)
        /\ r.op \in {"SUBSCRIBE", "RENEW", "UNSUBSCRIBE"} /\ r.sid \in SID \cup {NoSID}
        /\ r.state \in {"sent", "ok", "failed"}
BY DEF Request, Req

LEMMA Requests ==
  ASSUME NEW op \in {"SUBSCRIBE", "RENEW", "UNSUBSCRIBE"}, NEW st \in {"sent", "ok", "failed"},
         NEW s \in SID \cup {NoSID}
  PROVE /\ Req(op, st, s) \in Request
        /\ Req(op, st, s).op = op /\ Req(op, st, s).state = st /\ Req(op, st, s).sid = s
BY DEF Request, Req

LEMMA InitInvariant == Init => IInv
<1> SUFFICES ASSUME Init PROVE IInv
  OBVIOUS
<1>1. TypeOK
  <2>1. requests \in [Request -> Nat]
    BY DEF Init
  <2>2. SubscriberTable \in [SID -> Left]
    BY DEF Init, Left
  <2>3. walk \in [keys : SUBSET SID, sid : SID \cup {NoSID}, Expires : Left]
    BY DEF Init, NoCopy, Left
  <2>4. app \in [Caller -> At]
    BY DEF Init, Idle, Is, At
  <2>5. calls \in 0..MaxCalls /\ excuses = {}
    BY EventingAssumption DEF Init
  <2>6. SubscribeCounter \in Nat /\ arming \in Nat /\ cycle \in BOOLEAN /\ expired \in Nat
    BY DEF Init
  <2>7. CurrentSID \in SID \cup {NoSID} /\ CurrentTimeout \in Timeouts
    BY DEF Init
  <2>8. QED
    BY <2>1, <2>2, <2>3, <2>4, <2>5, <2>6, <2>7 DEF TypeOK
<1>2. UnderWay = {}
  BY DEF Init, UnderWay
<1>3. QED
  BY <1>1, <1>2 DEF Init, IInv, NoCancel, Offered, Renewed

----------------------------------------------------------------------------
\* What Sent, Becomes and an answer do to the counts.
LEMMA SendType ==
  ASSUME TypeOK, NEW q \in Request, Send(q)
  PROVE /\ requests' \in [Request -> Nat]
        /\ \A p \in Request : requests'[p] = IF p = q THEN requests[p] + 1 ELSE requests[p]
BY DEF Send, TypeOK

LEMMA BecomesType ==
  ASSUME TypeOK, NEW r \in UnderWay, NEW q \in Request, r # q, Becomes(r, q)
  PROVE /\ requests' \in [Request -> Nat]
        /\ \A p \in Request : requests'[p] = IF p = q THEN requests[p] + 1
                                   ELSE IF p = r THEN requests[p] - 1 ELSE requests[p]
BY DEF Becomes, TypeOK, UnderWay

LEMMA AnswerType ==
  ASSUME TypeOK, NEW r \in UnderWay, Answer(r)
  PROVE /\ requests' \in [Request -> Nat]
        /\ \A p \in Request : requests'[p] = IF p = r THEN requests[p] - 1 ELSE requests[p]
BY DEF Answer, TypeOK, UnderWay

\* A served request becomes its answer, with the SID or without.
LEMMA AnsweredType ==
  ASSUME TypeOK, NEW r \in UnderWay, r.state = "sent", NEW s \in SID \cup {NoSID}, Answered(r, s)
  PROVE /\ requests' \in [Request -> Nat]
        /\ \E q \in {Req(r.op, "ok", s), Req(r.op, "failed", r.sid)} :
             \A p \in Request : requests'[p] = IF p = q THEN requests[p] + 1
                                     ELSE IF p = r THEN requests[p] - 1 ELSE requests[p]
<1>1. r \in Request
  BY DEF UnderWay
<1>2. /\ Req(r.op, "ok", s) \in Request /\ Req(r.op, "failed", r.sid) \in Request
      /\ r # Req(r.op, "ok", s) /\ r # Req(r.op, "failed", r.sid)
  BY <1>1, Fields, Requests
<1>3. CASE Becomes(r, Req(r.op, "ok", s))
  BY <1>3, <1>2, BecomesType
<1>4. CASE Becomes(r, Req(r.op, "failed", r.sid))
  BY <1>4, <1>2, BecomesType
<1>5. QED
  BY <1>3, <1>4 DEF Answered

LEMMA LoseType ==
  ASSUME TypeOK, NEW r \in UnderWay, Lose(r)
  PROVE /\ requests' \in [Request -> Nat]
        /\ \A p \in Request : requests'[p] = IF p = Req(r.op, "failed", r.sid) THEN requests[p] + 1
                                   ELSE IF p = r THEN requests[p] - 1 ELSE requests[p]
<1>1. r \in Request /\ r.state = "sent"
  BY DEF UnderWay, Lose
<1>2. Req(r.op, "failed", r.sid) \in Request /\ r # Req(r.op, "failed", r.sid)
  BY <1>1, Fields, Requests
<1>3. QED
  BY <1>2, BecomesType DEF Lose

\* A caller goes on, or to an end; the others stay where they are.
LEMMA GoesType ==
  ASSUME TypeOK, NEW c \in Caller, NEW op \in {"idle", "subscribe", "update", "resubscribe"},
         Goes(c, op)
  PROVE /\ app' \in [Caller -> At]
        /\ app'[c].op = op /\ app'[c].sid = NoSID
        /\ \A d \in Caller : d # c => app'[d] = app[d]
        /\ op = "idle" => app'[c] = Idle
<1>1. Is(op, NoSID, FALSE) \in At /\ Is(op, NoSID, FALSE).op = op /\ Is(op, NoSID, FALSE).sid = NoSID
  BY DEF At, Is
<1>2. QED
  BY <1>1 DEF Goes, TypeOK, Idle, Is

LEMMA CountType ==
  ASSUME TypeOK, NEW c \in Caller, Count(c)
  PROVE /\ app' \in [Caller -> At] /\ app'[c].sid = NoSID
        /\ app'[c].op = IF SubscribeCounter = 0 THEN "subscribe" ELSE "idle"
        /\ \A d \in Caller : d # c => app'[d] = app[d]
BY GoesType DEF Count

LEMMA UnSubscribeType ==
  ASSUME TypeOK, NEW c \in Caller, NEW all \in BOOLEAN, UnSubscribe(c, all)
  PROVE /\ app' \in [Caller -> At] /\ app'[c].sid = NoSID
        /\ \A d \in Caller : d # c => app'[d] = app[d]
        /\ SubscribeCounter' \in Nat
        /\ SubscribeCounter' = 0 => app'[c].op = "unsubscribe"
        /\ SubscribeCounter' # 0 => SubscribeCounter > 0
<1> DEFINE n == IF SubscribeCounter > 0 THEN SubscribeCounter - 1 ELSE 0
           q == Is("unsubscribe", NoSID, n > 0)
<1>1. /\ SubscribeCounter' = n /\ app[c] = Idle
      /\ app' = [app EXCEPT ![c] = IF n = 0 \/ all THEN q ELSE Idle]
  BY DEF UnSubscribe, Call
<1>2. n \in Nat /\ (n # 0 => SubscribeCounter > 0)
  BY DEF TypeOK
<1>3. q \in At /\ q.op = "unsubscribe" /\ q.sid = NoSID
  <2>1. (n > 0) \in BOOLEAN
    OBVIOUS
  <2> HIDE DEF n
  <2>2. QED
    BY <2>1 DEF At, Is
<1>4. Idle \in At /\ Idle.sid = NoSID
  BY DEF At, Idle, Is
<1> HIDE DEF n, q
<1>5. QED
  BY <1>1, <1>2, <1>3, <1>4 DEF TypeOK

LEMMA ReadType ==
  ASSUME TypeOK, NEW c \in Caller,
         app' = [app EXCEPT ![c] = Is("clear", CurrentSID, @.others)]
  PROVE /\ app' \in [Caller -> At] /\ app'[c].sid = CurrentSID /\ app'[c].op = "clear"
        /\ \A d \in Caller : d # c => app'[d] = app[d]
<1> DEFINE q == Is("clear", CurrentSID, app[c].others)
<1>1. app[c].others \in BOOLEAN
  BY DEF TypeOK, At
<1>2. q \in At
  BY <1>1 DEF At, Is, TypeOK
<1>3. q.sid = CurrentSID /\ q.op = "clear"
  BY DEF Is
<1> HIDE DEF q
<1>4. app' = [app EXCEPT ![c] = q]
  BY DEF q
<1>5. QED
  BY <1>2, <1>3, <1>4 DEF TypeOK

----------------------------------------------------------------------------
LEMMA TypeInductive == ASSUME TypeOK, [Next]_vars PROVE TypeOK'
<1> USE DEF TypeOK, clientVars, deviceVars
<1>1. ASSUME NEW c \in Caller, Subscribe(c) PROVE TypeOK'
  <2>1. app' \in [Caller -> At]
    BY <1>1, CountType DEF Subscribe
  <2>2. QED
    BY <1>1, <2>1, EventingAssumption DEF Subscribe, Call, Count
<1>2. ASSUME NEW c \in Caller, SubscribeSend(c) PROVE TypeOK'
  <2>1. Sent("SUBSCRIBE", NoSID) \in Request
    BY Requests DEF Sent
  <2>2. Goes(c, "idle")
    BY <1>2 DEF SubscribeSend, Throws
  <2>3. app' \in [Caller -> At]
    BY <2>2, GoesType
  <2>4. requests' \in [Request -> Nat]
    BY <1>2, <2>1, SendType DEF SubscribeSend, Throws
  <2>5. excuses' \in SUBSET Reason
    BY <1>2 DEF SubscribeSend, Throws, Reason
  <2>6. QED
    BY <1>2, <2>3, <2>4, <2>5 DEF SubscribeSend
<1>3. ASSUME NEW c \in Caller, NEW all \in BOOLEAN, UnSubscribe(c, all) PROVE TypeOK'
  <2>1. app' \in [Caller -> At] /\ SubscribeCounter' \in Nat
    BY <1>3, UnSubscribeType
  <2>2. QED
    BY <1>3, <2>1, EventingAssumption DEF UnSubscribe, Call
<1>4. ASSUME NEW c \in Caller, UnSubscribeRead(c) PROVE TypeOK'
  <2>1. app' \in [Caller -> At]
    BY <1>4, ReadType, GoesType DEF UnSubscribeRead, Throws
  <2>2. excuses' \in SUBSET Reason
    BY <1>4 DEF UnSubscribeRead, Throws, Reason
  <2>3. requests' = requests
    BY <1>4 DEF UnSubscribeRead, Throws
  <2>4. QED
    BY <1>4, <2>1, <2>2, <2>3 DEF UnSubscribeRead
<1>5. ASSUME NEW c \in Caller, UnSubscribeSend(c) PROVE TypeOK'
  <2>1. app' \in [Caller -> At]
    BY <1>5, GoesType DEF UnSubscribeSend
  <2>2. Sent("UNSUBSCRIBE", app[c].sid) \in Request
    BY Requests DEF Sent, At
  <2>3. requests' \in [Request -> Nat]
    BY <1>5, <2>2, SendType DEF UnSubscribeSend
  <2>4. excuses' \in SUBSET Reason
    BY <1>5 DEF UnSubscribeSend, Cleared, Reason
  <2>5. QED
    BY <1>5, <2>1, <2>3, <2>4 DEF UnSubscribeSend
<1>r. ASSUME NEW reason \in Reason, Because(reason) PROVE excuses' \in SUBSET Reason
  BY <1>r DEF Because
<1>6. ASSUME NEW c \in Caller, Update(c) PROVE TypeOK'
  <2>1. app' \in [Caller -> At]
    BY <1>6, GoesType DEF Update
  <2>2. QED
    BY <1>6, <2>1, EventingAssumption DEF Update, Call
<1>24. ASSUME NEW c \in Caller, UpdateReset(c) PROVE TypeOK'
  <2>1. app' \in [Caller -> At]
    BY <1>24, GoesType DEF UpdateReset
  <2>2. excuses' \in SUBSET Reason
    BY <1>24, <1>r DEF UpdateReset, Reason
  <2>3. QED
    BY <1>24, <2>1, <2>2 DEF UpdateReset
<1>25. ASSUME NEW c \in Caller, UpdateSubscribe(c) PROVE TypeOK'
  <2>1. app' \in [Caller -> At]
    BY <1>25, CountType DEF UpdateSubscribe
  <2>2. QED
    BY <1>25, <2>1 DEF UpdateSubscribe, Count
<1>7. ASSUME NEW r \in UnderWay, HandleSubscribeResponse(r) PROVE TypeOK'
  <2>1. r \in Request
    BY DEF UnderWay
  <2>2. requests' \in [Request -> Nat] /\ r.sid \in SID \cup {NoSID}
    BY <1>7, <2>1, Fields, AnswerType DEF HandleSubscribeResponse
  <2>3. CurrentSID' \in SID \cup {NoSID} /\ arming' \in Nat
    BY <1>7, <2>2 DEF HandleSubscribeResponse
  <2>4. excuses' \in SUBSET Reason
    BY <1>7 DEF HandleSubscribeResponse, Reason
  <2>5. QED
    BY <1>7, <2>2, <2>3, <2>4 DEF HandleSubscribeResponse
<1>8. CASE SubscribeArms
  BY <1>8 DEF SubscribeArms
<1>9. ASSUME NEW r \in UnderWay, HandleUnsubscribeResponse(r) PROVE TypeOK'
  <2>1. excuses' \in SUBSET Reason
    BY <1>9, <1>r DEF HandleUnsubscribeResponse, Reason
  <2>2. QED
    BY <1>9, <2>1, AnswerType DEF HandleUnsubscribeResponse
<1>10. CASE Renew
  <2>1. Sent("RENEW", CurrentSID) \in Request
    BY Requests DEF Sent
  <2>2. requests' \in [Request -> Nat]
    BY <1>10, <2>1, SendType DEF Renew
  <2>3. excuses' \in SUBSET Reason
    BY <1>10, <1>r DEF Renew, Reason
  <2>4. QED
    BY <1>10, <2>2, <2>3 DEF Renew
<1>11. ASSUME NEW r \in UnderWay, RenewSink(r) PROVE TypeOK'
  <2>1. excuses' \in SUBSET Reason
    BY <1>11, <1>r DEF RenewSink, Reason
  <2>2. QED
    BY <1>11, <2>1, AnswerType DEF RenewSink
<1>12. Full \in Left /\ Absent \in Left /\ \A n \in Left : Older(n) \in Left
  BY EventingAssumption DEF Full, Left, Older, Infinite, Absent
<1>13. ASSUME NEW r \in UnderWay, SubscribeEvent(r) PROVE TypeOK'
  BY <1>13, <1>12, AnsweredType DEF SubscribeEvent
<1>14. ASSUME NEW r \in UnderWay, RenewEvent(r) PROVE TypeOK'
  <2>1. r \in Request /\ r.state = "sent"
    BY <1>14 DEF UnderWay, RenewEvent
  <2>2. r.sid \in SID
    BY <1>14, <2>1, Fields DEF RenewEvent
  <2>3. requests' \in [Request -> Nat]
    BY <1>14, <2>1, <2>2, AnsweredType DEF RenewEvent
  <2>4. QED
    BY <1>14, <1>12, <2>2, <2>3 DEF RenewEvent
<1>15. ASSUME NEW r \in UnderWay, CancelEvent(r) PROVE TypeOK'
  <2>1. r \in Request /\ r.state = "sent"
    BY <1>15 DEF UnderWay, CancelEvent
  <2>2. requests' \in [Request -> Nat]
    BY <1>15, <2>1, Fields, AnsweredType DEF CancelEvent
  <2>3. SubscriberTable' \in [SID -> Left]
    BY <1>15, <1>12 DEF CancelEvent
  <2>4. QED
    BY <1>15, <2>2, <2>3 DEF CancelEvent
<1>16. ASSUME NEW r \in UnderWay, Lose(r) PROVE TypeOK'
  BY <1>16, LoseType DEF Lose
<1>17. NoCopy \in [keys : SUBSET SID, sid : SID \cup {NoSID}, Expires : Left]
  BY <1>12 DEF NoCopy
<1>18. CASE SendEvents
  <2>1. walk' \in [keys : SUBSET SID, sid : SID \cup {NoSID}, Expires : Left]
    BY <1>18, <1>12 DEF SendEvents, NoCopy
  <2>2. QED
    BY <1>18, <2>1 DEF SendEvents
<1>19. ASSUME NEW s \in SID, SendEventsCopy(s) PROVE TypeOK'
  <2>1. walk' \in [keys : SUBSET SID, sid : SID \cup {NoSID}, Expires : Left]
    BY <1>19 DEF SendEventsCopy
  <2>2. SubscriberTable' \in [SID -> Left]
    BY <1>19, <1>12 DEF SendEventsCopy
  <2>3. QED
    BY <1>19, <2>1, <2>2 DEF SendEventsCopy
<1>20. CASE SendEventsWrite
  <2>1. walk' \in [keys : SUBSET SID, sid : SID \cup {NoSID}, Expires : Left]
    BY <1>20, <1>17 DEF SendEventsWrite, NoCopy
  <2>2. SubscriberTable' \in [SID -> Left]
    BY <1>20 DEF SendEventsWrite
  <2>3. excuses' \in SUBSET Reason
    BY <1>20 DEF SendEventsWrite, Reason
  <2>4. QED
    BY <1>20, <2>1, <2>2, <2>3 DEF SendEventsWrite
<1>21. CASE Tick
  <2>1. walk' \in [keys : SUBSET SID, sid : SID \cup {NoSID}, Expires : Left]
    BY <1>21, <1>12 DEF Tick
  <2>2. SubscriberTable' \in [SID -> Left]
    BY <1>21, <1>12 DEF Tick
  <2>3. QED
    BY <1>21, <2>1, <2>2 DEF Tick
<1>22. CASE UNCHANGED vars
  BY <1>22 DEF vars
<1>23. QED
  BY <1>1, <1>2, <1>3, <1>4, <1>5, <1>6, <1>7, <1>8, <1>9, <1>10, <1>11, <1>13, <1>14, <1>15,
     <1>16, <1>18, <1>19, <1>20, <1>21, <1>22, <1>24, <1>25 DEF Next, Client, Serve, Device

----------------------------------------------------------------------------
\* What an action does to the requests that NoCancel and Offered are about: nothing, if it
\* sends no UNSUBSCRIBE and answers no SUBSCRIBE with a SID.
Untouched ==
  /\ requests' \in [Request -> Nat]
  /\ \A p \in Request :
       /\ p.op = "UNSUBSCRIBE" /\ p.state = "sent" => requests'[p] <= requests[p]
       /\ p.op = "SUBSCRIBE" /\ p.state = "ok" => requests'[p] = requests[p]

LEMMA UntouchedStep ==
  ASSUME IInv, Untouched, UNCHANGED <<CurrentSID, CurrentTimeout>>,
         \A c \in Caller : app'[c].sid \in {app[c].sid, CurrentSID, NoSID},
         \A r \in UnderWay : r.op = "SUBSCRIBE" /\ r.state = "ok" =>
           /\ SubscriberTable'[r.sid] = SubscriberTable[r.sid]
           /\ walk'.sid = r.sid =>
                walk'.Expires = IF walk.sid = r.sid THEN walk.Expires ELSE SubscriberTable[r.sid]
  PROVE NoCancel' /\ Offered'
<1>1. NoCancel'
  <2> SUFFICES ASSUME CurrentSID # NoSID
               PROVE requests'[Sent("UNSUBSCRIBE", CurrentSID)] = 0
    BY DEF NoCancel
  <2>1. CurrentSID \in SID \cup {NoSID}
    BY DEF IInv, TypeOK
  <2>2. /\ Sent("UNSUBSCRIBE", CurrentSID) \in Request
        /\ Sent("UNSUBSCRIBE", CurrentSID).op = "UNSUBSCRIBE"
        /\ Sent("UNSUBSCRIBE", CurrentSID).state = "sent"
    BY <2>1, Requests DEF Sent
  <2>3. requests[Sent("UNSUBSCRIBE", CurrentSID)] = 0
    BY DEF IInv, NoCancel
  <2>4. QED
    BY <2>2, <2>3 DEF Untouched
<1>2. Offered'
  <2> SUFFICES ASSUME NEW r \in UnderWay', r.op = "SUBSCRIBE", r.state = "ok"
               PROVE /\ r.sid # NoSID /\ r.sid # CurrentSID /\ Unread(r.sid)'
                     /\ requests'[r] = 1 /\ requests'[Sent("UNSUBSCRIBE", r.sid)] = 0
                     /\ SubscriberTable'[r.sid] = Full'
                     /\ walk'.sid = r.sid => walk'.Expires = Full'
    BY DEF Offered
  <2>1. r \in Request /\ r \in UnderWay /\ requests'[r] = requests[r]
    BY DEF UnderWay, Untouched
  <2>2. /\ r.sid # NoSID /\ r.sid # CurrentSID /\ Unread(r.sid)
        /\ requests[r] = 1 /\ requests[Sent("UNSUBSCRIBE", r.sid)] = 0
        /\ SubscriberTable[r.sid] = Full
        /\ walk.sid = r.sid => walk.Expires = Full
    BY <2>1 DEF IInv, Offered
  <2>3. /\ Sent("UNSUBSCRIBE", r.sid) \in Request
        /\ Sent("UNSUBSCRIBE", r.sid).op = "UNSUBSCRIBE"
        /\ Sent("UNSUBSCRIBE", r.sid).state = "sent"
    BY <2>1, Fields, Requests DEF Sent
  <2>4. requests'[Sent("UNSUBSCRIBE", r.sid)] = 0
    BY <2>2, <2>3 DEF Untouched, IInv, TypeOK
  <2>5. Full' = Full
    BY DEF Full
  <2>6. Unread(r.sid)'
    BY <2>2 DEF Unread
  <2>7. QED
    BY <2>1, <2>2, <2>4, <2>5, <2>6
<1>3. QED
  BY <1>1, <1>2

\* An offered subscription is under way, so its fields are known.
LEMMA OfferedIs ==
  ASSUME IInv, NEW r \in UnderWay, r.op = "SUBSCRIBE", r.state = "ok"
  PROVE /\ r \in Request /\ r.sid \in SID /\ r.sid # CurrentSID /\ Unread(r.sid)
        /\ requests[r] = 1 /\ requests[Sent("UNSUBSCRIBE", r.sid)] = 0
        /\ SubscriberTable[r.sid] = Full
        /\ walk.sid = r.sid => walk.Expires = Full
<1>1. r \in Request
  BY DEF UnderWay
<1>2. QED
  BY <1>1, Fields DEF IInv, Offered

LEMMA FullAlive ==
  ASSUME TypeOK PROVE Full \notin {Absent, 0}
BY EventingAssumption DEF TypeOK, Full, Absent, Infinite

LEMMA OfferedInductive == ASSUME IInv, [Next]_vars PROVE NoCancel' /\ Offered'
<1> USE DEF clientVars, deviceVars
<1>t. TypeOK
  BY DEF IInv
<1>u. requests' = requests => Untouched
  BY <1>t DEF Untouched, TypeOK
<1>s. ASSUME NEW op \in {"SUBSCRIBE", "RENEW"}, NEW s \in SID \cup {NoSID}, Send(Sent(op, s))
      PROVE Untouched
  <2>1. /\ Sent(op, s) \in Request /\ Sent(op, s).op = op /\ Sent(op, s).state = "sent"
    BY Requests DEF Sent
  <2>2. QED
    BY <2>1, <1>t, <1>s, SendType DEF Untouched, TypeOK
<1>a. ASSUME NEW r \in UnderWay, Answer(r), r.op # "SUBSCRIBE" \/ r.state # "ok"
      PROVE Untouched
  BY <1>t, <1>a, AnswerType DEF Untouched, TypeOK
<1>1. ASSUME NEW c \in Caller, Count(c) PROVE NoCancel' /\ Offered'
  <2>1. \A d \in Caller : app'[d].sid \in {app[d].sid, CurrentSID, NoSID}
    BY <1>1, <1>t, CountType
  <2>2. QED
    BY <1>1, <2>1, <1>u, UntouchedStep DEF Count
<1>g. ASSUME NEW c \in Caller, NEW op \in {"idle", "subscribe", "update", "resubscribe"}, Goes(c, op)
      PROVE \A d \in Caller : app'[d].sid \in {app[d].sid, CurrentSID, NoSID}
  BY <1>g, <1>t, GoesType
<1>2. ASSUME NEW c \in Caller, SubscribeSend(c) PROVE NoCancel' /\ Offered'
  <2>1. Untouched /\ Goes(c, "idle")
    BY <1>2, <1>s, <1>u DEF SubscribeSend, Throws
  <2>2. \A d \in Caller : app'[d].sid \in {app[d].sid, CurrentSID, NoSID}
    BY <2>1, <1>g
  <2>3. QED
    BY <1>2, <2>1, <2>2, UntouchedStep DEF SubscribeSend
<1>3. ASSUME NEW c \in Caller, NEW all \in BOOLEAN, UnSubscribe(c, all) PROVE NoCancel' /\ Offered'
  <2>1. \A d \in Caller : app'[d].sid \in {app[d].sid, CurrentSID, NoSID}
    BY <1>3, <1>t, UnSubscribeType
  <2>2. QED
    BY <1>3, <2>1, <1>u, UntouchedStep DEF UnSubscribe
<1>4. ASSUME NEW c \in Caller, UnSubscribeRead(c) PROVE NoCancel' /\ Offered'
  <2>1. requests' = requests
    BY <1>4 DEF UnSubscribeRead, Throws
  <2>2. \A d \in Caller : app'[d].sid \in {app[d].sid, CurrentSID, NoSID}
    BY <1>4, <1>t, <1>g, ReadType DEF UnSubscribeRead, Throws
  <2>3. QED
    BY <1>4, <2>1, <2>2, <1>u, UntouchedStep DEF UnSubscribeRead
<1>5. ASSUME NEW c \in Caller, UnSubscribeSend(c) PROVE NoCancel' /\ Offered'
  <2>1. /\ app[c].sid \in SID \cup {NoSID} /\ CurrentSID' = NoSID
        /\ \A d \in Caller : app'[d].sid \in {app[d].sid, NoSID}
    BY <1>5, <1>t, GoesType DEF UnSubscribeSend, TypeOK, At
  <2>2. Sent("UNSUBSCRIBE", app[c].sid) \in Request
    BY <2>1, Requests DEF Sent
  <2>3. /\ requests' \in [Request -> Nat]
        /\ \A p \in Request :
             requests'[p] = IF p = Sent("UNSUBSCRIBE", app[c].sid) THEN requests[p] + 1
                                                                   ELSE requests[p]
    BY <1>5, <1>t, <2>2, SendType DEF UnSubscribeSend
  <2>4. Offered'
    <3> SUFFICES ASSUME NEW r \in UnderWay', r.op = "SUBSCRIBE", r.state = "ok"
                 PROVE /\ r.sid # NoSID /\ r.sid # CurrentSID' /\ Unread(r.sid)'
                       /\ requests'[r] = 1 /\ requests'[Sent("UNSUBSCRIBE", r.sid)] = 0
                       /\ SubscriberTable'[r.sid] = Full'
                       /\ walk'.sid = r.sid => walk'.Expires = Full'
      BY DEF Offered
    <3>1. r \in Request /\ r # Sent("UNSUBSCRIBE", app[c].sid)
      BY <2>1, Requests DEF UnderWay, Sent
    <3>2. r \in UnderWay /\ requests'[r] = requests[r]
      BY <2>3, <3>1 DEF UnderWay
    <3>3. /\ r.sid \in SID /\ Unread(r.sid)
          /\ requests[r] = 1 /\ requests[Sent("UNSUBSCRIBE", r.sid)] = 0
          /\ SubscriberTable[r.sid] = Full
          /\ walk.sid = r.sid => walk.Expires = Full
      BY <3>2, OfferedIs
    <3>4. /\ Sent("UNSUBSCRIBE", r.sid) \in Request
          /\ Sent("UNSUBSCRIBE", r.sid) # Sent("UNSUBSCRIBE", app[c].sid)
      BY <3>3, <2>1, Requests DEF Sent, Unread
    <3>5. Unread(r.sid)'
      BY <2>1, <3>3, EventingAssumption DEF Unread
    <3>6. QED
      BY <1>5, <2>1, <2>3, <3>2, <3>3, <3>4, <3>5, EventingAssumption DEF UnSubscribeSend, Full
  <2>5. QED
    BY <2>1, <2>4 DEF NoCancel
<1>6. ASSUME NEW c \in Caller, Update(c) PROVE NoCancel' /\ Offered'
  BY <1>6, <1>u, <1>g, UntouchedStep DEF Update
<1>24. ASSUME NEW c \in Caller, UpdateReset(c) PROVE NoCancel' /\ Offered'
  BY <1>24, <1>u, <1>g, UntouchedStep DEF UpdateReset
<1>7. ASSUME NEW r \in UnderWay, HandleSubscribeResponse(r) PROVE NoCancel' /\ Offered'
  <2>1. CASE r.state # "ok"
    <3>1. Untouched
      BY <1>7, <2>1, <1>a DEF HandleSubscribeResponse
    <3>2. QED
      BY <1>7, <2>1, <3>1, UntouchedStep DEF HandleSubscribeResponse
  <2>2. CASE r.state = "ok"
    <3>1. /\ r \in Request /\ r.sid \in SID
          /\ requests[r] = 1 /\ requests[Sent("UNSUBSCRIBE", r.sid)] = 0
      BY <1>7, <2>2, OfferedIs DEF HandleSubscribeResponse
    <3>2. /\ requests' \in [Request -> Nat]
          /\ \A p \in Request : requests'[p] = IF p = r THEN requests[p] - 1 ELSE requests[p]
      BY <1>7, <1>t, AnswerType DEF HandleSubscribeResponse
    <3>3. CurrentSID' = r.sid /\ r.op = "SUBSCRIBE"
          /\ UNCHANGED <<CurrentTimeout, app, SubscriberTable, walk>>
      BY <1>7, <2>2 DEF HandleSubscribeResponse
    <3>4. ASSUME NEW s \in SID
          PROVE Sent("UNSUBSCRIBE", s) \in Request /\ Sent("UNSUBSCRIBE", s) # r
      BY <3>3, Requests DEF Sent
    <3>5. NoCancel'
      BY <3>1, <3>2, <3>3, <3>4 DEF NoCancel
    <3>6. Offered'
      <4> SUFFICES ASSUME NEW q \in UnderWay', q.op = "SUBSCRIBE", q.state = "ok"
                   PROVE /\ q.sid # NoSID /\ q.sid # CurrentSID' /\ Unread(q.sid)'
                         /\ requests'[q] = 1 /\ requests'[Sent("UNSUBSCRIBE", q.sid)] = 0
                         /\ SubscriberTable'[q.sid] = Full'
                         /\ walk'.sid = q.sid => walk'.Expires = Full'
        BY DEF Offered
      <4>1. q \in Request /\ q # r /\ q \in UnderWay /\ requests'[q] = requests[q]
        BY <3>1, <3>2 DEF UnderWay
      <4>2. q.sid # r.sid
        BY <4>1, <3>1, <3>3, <2>2, Fields
      <4>3. /\ q.sid \in SID /\ Unread(q.sid)
            /\ requests[q] = 1 /\ requests[Sent("UNSUBSCRIBE", q.sid)] = 0
            /\ SubscriberTable[q.sid] = Full
            /\ walk.sid = q.sid => walk.Expires = Full
        BY <4>1, OfferedIs
      <4>4. QED
        BY <3>2, <3>3, <3>4, <4>1, <4>2, <4>3, EventingAssumption DEF Full, Unread
    <3>7. QED
      BY <3>5, <3>6
  <2>3. QED
    BY <2>1, <2>2
<1>8. CASE SubscribeArms
  BY <1>8, <1>u, UntouchedStep DEF SubscribeArms
<1>9. ASSUME NEW r \in UnderWay, HandleUnsubscribeResponse(r) PROVE NoCancel' /\ Offered'
  <2>1. Untouched
    BY <1>9, <1>a DEF HandleUnsubscribeResponse
  <2>2. QED
    BY <1>9, <2>1, UntouchedStep DEF HandleUnsubscribeResponse
<1>10. CASE Renew
  <2>1. Untouched
    BY <1>10, <1>s, <1>u, <1>t DEF Renew, TypeOK
  <2>2. QED
    BY <1>10, <2>1, UntouchedStep DEF Renew
<1>11. ASSUME NEW r \in UnderWay, RenewSink(r) PROVE NoCancel' /\ Offered'
  <2>1. Untouched
    BY <1>11, <1>a DEF RenewSink
  <2>2. QED
    BY <1>11, <2>1, UntouchedStep DEF RenewSink
<1>b. ASSUME NEW r \in UnderWay, r.state = "sent", r.op # "SUBSCRIBE",
             NEW s \in SID \cup {NoSID}, Answered(r, s)
      PROVE Untouched
  <2>1. r \in Request
    BY DEF UnderWay
  <2>2. \A q \in {Req(r.op, "ok", s), Req(r.op, "failed", r.sid)} :
          q.op # "SUBSCRIBE" /\ q.state # "sent"
    BY <1>b, <2>1, Fields, Requests
  <2>3. QED
    BY <1>b, <1>t, <2>2, AnsweredType DEF Untouched, TypeOK
<1>13. ASSUME NEW r \in UnderWay, SubscribeEvent(r) PROVE NoCancel' /\ Offered'
  <2>1. /\ r \in Request /\ r.op \in {"SUBSCRIBE", "RENEW"} /\ r.state = "sent" /\ r.sid = NoSID
        /\ UNCHANGED <<CurrentSID, CurrentTimeout, app, walk>>
    BY <1>13 DEF SubscribeEvent, UnderWay
  <2>2. PICK s \in SID : /\ Free(s) /\ Answered(r, s)
                         /\ SubscriberTable' = [SubscriberTable EXCEPT ![s] = Full]
    BY <1>13 DEF SubscribeEvent
  <2>3. /\ requests' \in [Request -> Nat]
        /\ \E q \in {Req(r.op, "ok", s), Req(r.op, "failed", r.sid)} :
             \A p \in Request : requests'[p] = IF p = q THEN requests[p] + 1
                                     ELSE IF p = r THEN requests[p] - 1 ELSE requests[p]
    BY <1>t, <2>1, <2>2, AnsweredType
  <2>4. PICK q \in {Req(r.op, "ok", s), Req(r.op, "failed", r.sid)} :
             \A p \in Request : requests'[p] = IF p = q THEN requests[p] + 1
                                     ELSE IF p = r THEN requests[p] - 1 ELSE requests[p]
    BY <2>3
  <2>5. /\ q \in Request /\ q.op = r.op
        /\ q.state = "ok" => q.sid = s
    BY <2>1, Fields, Requests
  <2>6. ASSUME NEW u \in SID \cup {NoSID}
        PROVE /\ Sent("UNSUBSCRIBE", u) \in Request
              /\ requests'[Sent("UNSUBSCRIBE", u)] = requests[Sent("UNSUBSCRIBE", u)]
    BY <2>1, <2>4, <2>5, Requests DEF Sent
  <2>7. NoCancel'
    BY <2>1, <2>6, <1>t DEF NoCancel, IInv, TypeOK
  <2>8. ASSUME NEW p \in UnderWay', p.op = "SUBSCRIBE", p.state = "ok"
        PROVE /\ p.sid # NoSID /\ p.sid # CurrentSID' /\ Unread(p.sid)'
              /\ requests'[p] = 1 /\ requests'[Sent("UNSUBSCRIBE", p.sid)] = 0
              /\ SubscriberTable'[p.sid] = Full'
              /\ walk'.sid = p.sid => walk'.Expires = Full'
    <3>1. p \in Request /\ p # r /\ Full' = Full
      BY <2>1, <2>8 DEF UnderWay, Full
    <3>2. CASE p = q
      <4>1. p.sid = s
        BY <2>5, <2>8, <3>2
      <4>2. /\ s # CurrentSID /\ Unread(s) /\ s # walk.sid
            /\ requests[p] = 0 /\ requests[Sent("UNSUBSCRIBE", s)] = 0
        <5>1. /\ s # CurrentSID /\ Unread(s) /\ s # walk.sid
              /\ \A x \in UnderWay : x.sid # s
          BY <2>2 DEF Free, Unread
        <5>2. Sent("UNSUBSCRIBE", s) \in Request /\ Sent("UNSUBSCRIBE", s).sid = s
          BY Requests DEF Sent
        <5>3. p \notin UnderWay /\ Sent("UNSUBSCRIBE", s) \notin UnderWay
          BY <4>1, <5>1, <5>2
        <5>4. QED
          BY <5>1, <5>2, <5>3, <3>1, <1>t DEF UnderWay, TypeOK
      <4>3. QED
        BY <2>1, <2>2, <2>4, <2>6, <3>1, <3>2, <4>1, <4>2, <1>t, EventingAssumption DEF TypeOK, Unread
    <3>3. CASE p # q
      <4>1. requests'[p] = requests[p] /\ p \in UnderWay
        BY <2>4, <3>1, <3>3 DEF UnderWay
      <4>2. /\ p.sid \in SID /\ p.sid # CurrentSID /\ Unread(p.sid)
            /\ requests[p] = 1 /\ requests[Sent("UNSUBSCRIBE", p.sid)] = 0
            /\ SubscriberTable[p.sid] = Full
            /\ walk.sid = p.sid => walk.Expires = Full
        BY <4>1, <2>8, OfferedIs
      <4>3. p.sid # s
        BY <2>2, <4>1 DEF Free
      <4>4. QED
        BY <2>1, <2>2, <2>6, <3>1, <4>1, <4>2, <4>3, <1>t, EventingAssumption DEF TypeOK, Unread
    <3>4. QED
      BY <3>2, <3>3
  <2>9. QED
    BY <2>7, <2>8 DEF Offered
<1>14. ASSUME NEW r \in UnderWay, RenewEvent(r) PROVE NoCancel' /\ Offered'
  <2>1. r \in Request /\ r.op = "RENEW" /\ r.state = "sent" /\ r.sid \in SID
    BY <1>14, Fields DEF RenewEvent, UnderWay
  <2>2. Untouched
    BY <1>14, <2>1, <1>b DEF RenewEvent
  <2>3. ASSUME NEW p \in UnderWay, p.op = "SUBSCRIBE", p.state = "ok"
        PROVE SubscriberTable'[p.sid] = SubscriberTable[p.sid]
    BY <1>14, <2>1, <2>3, <1>t, OfferedIs DEF RenewEvent, TypeOK
  <2>4. QED
    BY <1>14, <2>2, <2>3, UntouchedStep DEF RenewEvent
<1>15. ASSUME NEW r \in UnderWay, CancelEvent(r) PROVE NoCancel' /\ Offered'
  <2>1. /\ r \in Request /\ r.op = "UNSUBSCRIBE" /\ r.state = "sent" /\ r.sid \in SID \cup {NoSID}
        /\ r = Sent("UNSUBSCRIBE", r.sid)
    BY <1>15, Fields DEF CancelEvent, UnderWay, Sent
  <2>2. Untouched
    BY <1>15, <2>1, <1>b DEF CancelEvent
  <2>3. ASSUME NEW p \in UnderWay, p.op = "SUBSCRIBE", p.state = "ok"
        PROVE SubscriberTable'[p.sid] = SubscriberTable[p.sid]
    <3>1. p.sid \in SID /\ requests[Sent("UNSUBSCRIBE", p.sid)] = 0
      BY <2>3, OfferedIs
    <3>2. p.sid # r.sid
      BY <2>1, <3>1 DEF UnderWay
    <3>3. QED
      BY <1>15, <3>1, <3>2 DEF CancelEvent
  <2>4. QED
    BY <1>15, <2>2, <2>3, UntouchedStep DEF CancelEvent
<1>16. ASSUME NEW r \in UnderWay, Lose(r) PROVE NoCancel' /\ Offered'
  <2>1. r \in Request /\ r.state = "sent"
    BY <1>16 DEF Lose, UnderWay
  <2>2. Req(r.op, "failed", r.sid).state = "failed"
    BY <2>1, Fields, Requests
  <2>3. Untouched
    BY <1>16, <1>t, <2>1, <2>2, LoseType DEF Untouched, TypeOK
  <2>4. QED
    BY <1>16, <2>3, UntouchedStep DEF Lose
<1>18. CASE SendEvents
  <2>1. /\ requests' = requests /\ UNCHANGED <<CurrentSID, CurrentTimeout, app, SubscriberTable>>
        /\ walk'.sid = NoSID
    BY <1>18 DEF SendEvents, NoCopy
  <2>2. QED
    BY <2>1, <1>u, OfferedIs, UntouchedStep, EventingAssumption
<1>19. ASSUME NEW s \in SID, SendEventsCopy(s) PROVE NoCancel' /\ Offered'
  <2>1. /\ requests' = requests /\ UNCHANGED <<CurrentSID, CurrentTimeout, app>>
    BY <1>19 DEF SendEventsCopy
  <2>2. ASSUME NEW r \in UnderWay, r.op = "SUBSCRIBE", r.state = "ok"
        PROVE /\ SubscriberTable'[r.sid] = SubscriberTable[r.sid]
              /\ walk'.sid = r.sid =>
                   walk'.Expires = IF walk.sid = r.sid THEN walk.Expires ELSE SubscriberTable[r.sid]
    <3>1. r.sid \in SID /\ SubscriberTable[r.sid] \notin {Absent, 0}
      BY <2>2, <1>t, OfferedIs, FullAlive
    <3>2. CASE SubscriberTable[s] \in {Absent, 0}
      <4>1. /\ walk' = [walk EXCEPT !.keys = @ \ {s}] /\ walk.sid = NoSID
            /\ SubscriberTable' = [SubscriberTable EXCEPT ![s] = Absent]
        BY <1>19, <3>2 DEF SendEventsCopy
      <4>2. walk'.sid = NoSID
        BY <4>1, <1>t DEF TypeOK
      <4>3. QED
        BY <4>1, <4>2, <3>1, <3>2, <1>t, EventingAssumption DEF TypeOK
    <3>3. CASE SubscriberTable[s] \notin {Absent, 0}
      BY <1>19, <3>1, <3>3, EventingAssumption DEF SendEventsCopy
    <3>4. QED
      BY <3>2, <3>3
  <2>3. QED
    BY <2>1, <2>2, <1>u, UntouchedStep
<1>20. CASE SendEventsWrite
  <2>1. /\ requests' = requests /\ UNCHANGED <<CurrentSID, CurrentTimeout, app>>
        /\ walk'.sid = NoSID
        /\ SubscriberTable' = [SubscriberTable EXCEPT ![walk.sid] = walk.Expires]
    BY <1>20 DEF SendEventsWrite, NoCopy
  <2>2. ASSUME NEW r \in UnderWay, r.op = "SUBSCRIBE", r.state = "ok"
        PROVE SubscriberTable'[r.sid] = SubscriberTable[r.sid] /\ walk'.sid # r.sid
    BY <2>1, <2>2, <1>t, OfferedIs, EventingAssumption DEF TypeOK
  <2>3. QED
    BY <2>1, <2>2, <1>u, UntouchedStep
<1>21. CASE Tick
  <2>1. UnderWay = {} /\ UNCHANGED <<requests, CurrentSID>>
    BY <1>21 DEF Tick, Prompt
  <2>2. UnderWay' = {}
    BY <2>1 DEF UnderWay
  <2>3. QED
    BY <2>1, <2>2 DEF IInv, NoCancel, Offered
<1>22. CASE UNCHANGED vars
  BY <1>22, <1>u, UntouchedStep DEF vars
<1>23. QED
  BY <1>1, <1>2, <1>3, <1>4, <1>5, <1>6, <1>7, <1>8, <1>9, <1>10, <1>11, <1>13, <1>14, <1>15,
     <1>16, <1>18, <1>19, <1>20, <1>21, <1>22, <1>24
  DEF Next, Client, Serve, Device, Subscribe, UpdateSubscribe

----------------------------------------------------------------------------
\* A step keeps the round of the current subscription that leaves its time alone and does
\* not lose who is to start its next round.
Starter == cycle \/ arming > 0 \/ Renewing(CurrentSID, "ok")
Renewer == expired > 0 \/ Renewing(CurrentSID, "sent") \/ Renewing(CurrentSID, "failed")

LEMMA RoundKept ==
  ASSUME IInv, UNCHANGED <<CurrentSID, CurrentTimeout>>, excuses \subseteq excuses',
         CurrentSID # NoSID /\ ~Excused(Lapsing)' =>
           /\ SubscriberTable'[CurrentSID] = SubscriberTable[CurrentSID]
           /\ Starter => Starter' \/ Renewer'
           /\ Renewer => Renewer'
  PROVE Renewed'
<1> SUFFICES ASSUME CurrentSID # NoSID, ~Excused(Lapsing)'
             PROVE IF CurrentTimeout = 0 THEN SubscriberTable'[CurrentSID] = Infinite
                                         ELSE Round(CurrentSID)'
  BY DEF Renewed
<1>1. ~Excused(Lapsing)
  BY DEF Excused
<1>2. CASE CurrentTimeout = 0
  BY <1>1, <1>2 DEF IInv, Renewed
<1>3. CASE CurrentTimeout # 0
  <2>1. Round(CurrentSID)
    BY <1>1, <1>3 DEF IInv, Renewed
  <2>2. \/ SubscriberTable'[CurrentSID] = 2 /\ Starter'
        \/ SubscriberTable'[CurrentSID] \in {1, 2} /\ Renewer'
    BY <2>1 DEF Round, Starter, Renewer
  <2>3. QED
    BY <1>3, <2>2 DEF Round, Starter, Renewer
<1>4. QED
  BY <1>2, <1>3

\* The current entry of an inductive state is alive, unless it is excused.
LEMMA CurrentAlive ==
  ASSUME IInv, CurrentSID # NoSID, ~Excused(Lapsing)
  PROVE CurrentSID \in SID /\ SubscriberTable[CurrentSID] \notin {Absent, 0}
BY EventingAssumption DEF IInv, TypeOK, Renewed, Round, Infinite, Absent

LEMMA RenewedInductive == ASSUME IInv, [Next]_vars PROVE Renewed'
<1> USE DEF clientVars, deviceVars
<1>t. TypeOK
  BY DEF IInv
<1>p. ASSUME NEW st \in {"sent", "ok", "failed"}
      PROVE /\ Req("RENEW", st, CurrentSID) \in Request
            /\ Req("RENEW", st, CurrentSID).op = "RENEW"
            /\ Req("RENEW", st, CurrentSID).state = st
            /\ Req("RENEW", st, CurrentSID).sid = CurrentSID
  BY <1>t, Requests DEF TypeOK
<1>q. ASSUME requests' \in [Request -> Nat], UNCHANGED CurrentSID,
             \A st \in {"sent", "ok", "failed"} :
               requests'[Req("RENEW", st, CurrentSID)] >= requests[Req("RENEW", st, CurrentSID)]
      PROVE \A st \in {"sent", "ok", "failed"} : Renewing(CurrentSID, st) => Renewing(CurrentSID, st)'
  BY <1>q, <1>p, <1>t DEF Renewing, TypeOK
<1>c. ASSUME UNCHANGED <<CurrentSID, CurrentTimeout, arming, cycle, expired, SubscriberTable>>,
             excuses \subseteq excuses', requests' \in [Request -> Nat],
             \A st \in {"sent", "ok", "failed"} :
               requests'[Req("RENEW", st, CurrentSID)] >= requests[Req("RENEW", st, CurrentSID)]
      PROVE Renewed'
  BY <1>c, <1>q, RoundKept DEF Starter, Renewer
<1>u. ASSUME UNCHANGED <<CurrentSID, CurrentTimeout, arming, cycle, expired, SubscriberTable, requests>>,
             excuses \subseteq excuses'
      PROVE Renewed'
  BY <1>u, RoundKept DEF Starter, Renewer, Renewing
<1>1. ASSUME NEW c \in Caller, Count(c) PROVE Renewed'
  BY <1>1, <1>u DEF Count
<1>2. ASSUME NEW c \in Caller, SubscribeSend(c) PROVE Renewed'
  <2>1. Sent("SUBSCRIBE", NoSID) \in Request
    BY Requests DEF Sent
  <2>2. CASE Send(Sent("SUBSCRIBE", NoSID)) /\ UNCHANGED excuses
    BY <1>2, <2>2, <1>t, <1>p, <1>c, <2>1, SendType DEF SubscribeSend, TypeOK
  <2>3. CASE Throws(c, "Threw")
    BY <1>2, <2>3, <1>u DEF SubscribeSend, Throws
  <2>4. QED
    BY <1>2, <2>2, <2>3 DEF SubscribeSend
<1>3. ASSUME NEW c \in Caller, NEW all \in BOOLEAN, UnSubscribe(c, all) PROVE Renewed'
  BY <1>3, <1>u DEF UnSubscribe
<1>4. ASSUME NEW c \in Caller, UnSubscribeRead(c) PROVE Renewed'
  <2>1. requests' = requests /\ excuses \subseteq excuses'
    BY <1>4 DEF UnSubscribeRead, Throws
  <2>2. QED
    BY <1>4, <2>1, <1>u DEF UnSubscribeRead
<1>5. ASSUME NEW c \in Caller, UnSubscribeSend(c) PROVE Renewed'
  BY <1>5 DEF UnSubscribeSend, Renewed
<1>6. ASSUME NEW c \in Caller, Update(c) PROVE Renewed'
  BY <1>6, <1>u DEF Update
<1>24. ASSUME NEW c \in Caller, UpdateReset(c) PROVE Renewed'
  BY <1>24 DEF UpdateReset, Because, Renewed, Excused, Lapsing
<1>7. ASSUME NEW r \in UnderWay, HandleSubscribeResponse(r) PROVE Renewed'
  <2>1. /\ requests' \in [Request -> Nat]
        /\ \A p \in Request : requests'[p] = IF p = r THEN requests[p] - 1 ELSE requests[p]
    BY <1>7, <1>t, AnswerType DEF HandleSubscribeResponse
  <2>2. CASE r.state # "ok"
    <3>1. \A st \in {"sent", "ok", "failed"} :
            requests'[Req("RENEW", st, CurrentSID)] = requests[Req("RENEW", st, CurrentSID)]
      BY <1>7, <1>p, <2>1 DEF HandleSubscribeResponse
    <3>2. \A st \in {"sent", "ok", "failed"} :
            requests'[Req("RENEW", st, CurrentSID)] >= requests[Req("RENEW", st, CurrentSID)]
      BY <3>1, <1>p, <1>t DEF TypeOK
    <3>3. QED
      BY <1>7, <1>c, <2>1, <2>2, <3>2 DEF HandleSubscribeResponse
  <2>3. CASE r.state = "ok"
    <3>1. SubscriberTable[r.sid] = Full
      BY <1>7, <2>3, OfferedIs DEF HandleSubscribeResponse
    <3>2. /\ CurrentSID' = r.sid /\ UNCHANGED <<CurrentTimeout, SubscriberTable>>
          /\ CurrentTimeout # 0 => arming' = arming + 1
      BY <1>7, <2>3 DEF HandleSubscribeResponse
    <3>3. CASE CurrentTimeout = 0
      BY <3>1, <3>2, <3>3 DEF Renewed, Full
    <3>4. CASE CurrentTimeout # 0
      <4>1. CurrentTimeout = 2 /\ arming' > 0
        BY <3>2, <3>4, <1>t, EventingAssumption DEF TypeOK
      <4>2. QED
        BY <3>1, <3>2, <4>1 DEF Renewed, Round, Full
    <3>5. QED
      BY <3>3, <3>4
  <2>4. QED
    BY <2>2, <2>3
<1>8. CASE SubscribeArms
  <2>1. cycle' /\ UNCHANGED <<CurrentSID, CurrentTimeout, requests, expired, SubscriberTable, excuses>>
    BY <1>8 DEF SubscribeArms
  <2>2. QED
    BY <2>1, RoundKept DEF Starter, Renewer, Renewing
<1>9. ASSUME NEW r \in UnderWay, HandleUnsubscribeResponse(r) PROVE Renewed'
  BY <1>9 DEF HandleUnsubscribeResponse, Because, Renewed, Excused, Lapsing
<1>26. CASE Renew /\ Because("RenewThrew")
  BY <1>26 DEF Renew, Because, Renewed, Excused, Lapsing
<1>10. CASE Renew /\ Send(Sent("RENEW", CurrentSID)) /\ UNCHANGED excuses
  <2>1. Sent("RENEW", CurrentSID) = Req("RENEW", "sent", CurrentSID)
    BY DEF Sent
  <2>2. requests'[Req("RENEW", "sent", CurrentSID)] = requests[Req("RENEW", "sent", CurrentSID)] + 1
    BY <1>10, <1>t, <1>p, <2>1, SendType DEF Renew
  <2>3. requests[Req("RENEW", "sent", CurrentSID)] \in Nat
    BY <1>p, <1>t DEF TypeOK
  <2>4. Req("RENEW", "sent", CurrentSID) # Req("RENEW", "ok", CurrentSID)
    BY <1>p
  <2>5. requests'[Req("RENEW", "ok", CurrentSID)] = requests[Req("RENEW", "ok", CurrentSID)]
    BY <1>10, <1>t, <1>p, <2>1, <2>4, SendType DEF Renew
  <2>6. UNCHANGED <<CurrentSID, CurrentTimeout, arming, cycle, SubscriberTable, excuses>>
    BY <1>10 DEF Renew
  <2>7. Renewer'
    BY <2>2, <2>3, <2>6 DEF Renewer, Renewing
  <2>8. QED
    BY <2>6, <2>7, RoundKept
<1>11. ASSUME NEW r \in UnderWay, RenewSink(r) PROVE Renewed'
  <2>1. CASE r.state # "ok"
    BY <1>11, <2>1 DEF RenewSink, Because, Renewed, Excused, Lapsing
  <2>2. CASE r.state = "ok"
    <3>1. cycle' /\ UNCHANGED <<CurrentSID, CurrentTimeout, expired, SubscriberTable, excuses>>
      BY <1>11, <2>2 DEF RenewSink
    <3>2. \A p \in Request : p # r => requests'[p] = requests[p]
      BY <1>11, <1>t, AnswerType DEF RenewSink
    <3>3. \A st \in {"sent", "failed"} : Renewing(CurrentSID, st) => Renewing(CurrentSID, st)'
      BY <1>p, <2>2, <3>1, <3>2 DEF Renewing
    <3>4. QED
      BY <3>1, <3>3, RoundKept DEF Starter, Renewer
  <2>3. QED
    BY <2>1, <2>2
\* The device's actions leave the client alone, and the count of each renewal except r's.
<1>d. ASSUME NEW r \in UnderWay, r.state = "sent", NEW s \in SID \cup {NoSID}, Answered(r, s),
             r # Req("RENEW", "sent", CurrentSID)
      PROVE /\ requests' \in [Request -> Nat]
            /\ \A st \in {"sent", "ok", "failed"} :
                 requests'[Req("RENEW", st, CurrentSID)] >= requests[Req("RENEW", st, CurrentSID)]
  <2>1. requests' \in [Request -> Nat]
    BY <1>d, <1>t, AnsweredType
  <2>2. PICK q \in {Req(r.op, "ok", s), Req(r.op, "failed", r.sid)} :
             \A p \in Request : requests'[p] = IF p = q THEN requests[p] + 1
                                     ELSE IF p = r THEN requests[p] - 1 ELSE requests[p]
    BY <1>d, <1>t, AnsweredType
  <2>3. \A st \in {"sent", "ok", "failed"} : r # Req("RENEW", st, CurrentSID)
    BY <1>d, <1>p
  <2>4. ASSUME NEW st \in {"sent", "ok", "failed"}
        PROVE requests'[Req("RENEW", st, CurrentSID)] >= requests[Req("RENEW", st, CurrentSID)]
    <3>1. Req("RENEW", st, CurrentSID) \in Request /\ requests[Req("RENEW", st, CurrentSID)] \in Nat
      BY <1>p, <1>t DEF TypeOK
    <3>2. \/ requests'[Req("RENEW", st, CurrentSID)] = requests[Req("RENEW", st, CurrentSID)] + 1
          \/ requests'[Req("RENEW", st, CurrentSID)] = requests[Req("RENEW", st, CurrentSID)]
      BY <3>1, <2>2, <2>3
    <3>3. QED
      BY <3>1, <3>2
  <2>5. QED
    BY <2>1, <2>4
<1>e. ASSUME UNCHANGED <<clientVars, excuses>>, requests' \in [Request -> Nat],
             \A st \in {"sent", "ok", "failed"} :
               requests'[Req("RENEW", st, CurrentSID)] >= requests[Req("RENEW", st, CurrentSID)],
             CurrentSID # NoSID /\ ~Excused(Lapsing) =>
               SubscriberTable'[CurrentSID] = SubscriberTable[CurrentSID]
      PROVE Renewed'
  <2>1. \A st \in {"sent", "ok", "failed"} : Renewing(CurrentSID, st) => Renewing(CurrentSID, st)'
    BY <1>e, <1>q
  <2>2. ~Excused(Lapsing)' => ~Excused(Lapsing)
    BY <1>e DEF Excused
  <2>3. QED
    BY <1>e, <2>1, <2>2, RoundKept DEF Starter, Renewer
<1>13. ASSUME NEW r \in UnderWay, SubscribeEvent(r) PROVE Renewed'
  <2>1. r.state = "sent" /\ r.sid = NoSID /\ UNCHANGED <<clientVars, excuses>>
    BY <1>13 DEF SubscribeEvent
  <2>2. PICK s \in SID : /\ Free(s) /\ Answered(r, s)
                         /\ SubscriberTable' = [SubscriberTable EXCEPT ![s] = Full]
    BY <1>13 DEF SubscribeEvent
  <2>3. CASE CurrentSID = NoSID
    BY <2>1, <2>3 DEF Renewed
  <2>4. CASE CurrentSID # NoSID
    <3>1. r # Req("RENEW", "sent", CurrentSID)
      BY <2>1, <2>4, <1>p
    <3>2. SubscriberTable'[CurrentSID] = SubscriberTable[CurrentSID]
      BY <2>2, <2>4, <1>t DEF Free, TypeOK
    <3>3. QED
      BY <2>1, <2>2, <3>1, <3>2, <1>d, <1>e
  <2>5. QED
    BY <2>3, <2>4
<1>14. ASSUME NEW r \in UnderWay, RenewEvent(r) PROVE Renewed'
  <2>1. /\ r \in Request /\ r = Req("RENEW", "sent", r.sid) /\ r.sid \in SID
        /\ r.op = "RENEW" /\ r.state = "sent"
        /\ Answered(r, r.sid) /\ UNCHANGED <<clientVars, excuses>>
        /\ SubscriberTable' = [SubscriberTable EXCEPT ![r.sid] = Full]
    BY <1>14, Fields DEF RenewEvent, UnderWay
  <2>2. CASE r.sid # CurrentSID
    <3>1. r # Req("RENEW", "sent", CurrentSID)
      BY <2>2, <1>p
    <3>2. CurrentSID # NoSID => SubscriberTable'[CurrentSID] = SubscriberTable[CurrentSID]
      BY <2>1, <2>2, <1>t DEF TypeOK
    <3>3. QED
      BY <2>1, <3>1, <3>2, <1>d, <1>e
  <2>3. CASE r.sid = CurrentSID
    <3>1. PICK q \in {Req(r.op, "ok", r.sid), Req(r.op, "failed", r.sid)} :
               \A p \in Request : requests'[p] = IF p = q THEN requests[p] + 1
                                       ELSE IF p = r THEN requests[p] - 1 ELSE requests[p]
      BY <2>1, <1>t, AnsweredType
    <3>2. q = Req("RENEW", "ok", CurrentSID) \/ q = Req("RENEW", "failed", CurrentSID)
      BY <2>1, <2>3, <3>1
    <3>3. q \in Request /\ requests[q] \in Nat /\ requests'[q] = requests[q] + 1
      BY <3>1, <3>2, <1>p, <1>t DEF TypeOK
    <3>4. requests'[q] > 0
      BY <3>3
    <3>5. SubscriberTable'[CurrentSID] = Full
      BY <2>1, <2>3, <1>t DEF TypeOK
    <3>6. CurrentTimeout # 0 => Full = 2
      BY <1>t, EventingAssumption DEF Full, TypeOK
    <3>7. UNCHANGED <<CurrentSID, CurrentTimeout>>
      BY <2>1
    <3>8. CASE CurrentTimeout = 0
      BY <3>5, <3>7, <3>8 DEF Renewed, Full
    <3>9. CASE CurrentTimeout # 0
      <4>1. Renewing(CurrentSID, "ok")' \/ Renewing(CurrentSID, "failed")'
        BY <3>2, <3>4, <3>7 DEF Renewing
      <4>2. Round(CurrentSID)'
        BY <4>1, <3>5, <3>6, <3>7, <3>9 DEF Round
      <4>3. QED
        BY <4>2, <3>7, <3>9 DEF Renewed
    <3>10. QED
      BY <3>8, <3>9
  <2>4. QED
    BY <2>2, <2>3
<1>15. ASSUME NEW r \in UnderWay, CancelEvent(r) PROVE Renewed'
  <2>1. /\ r \in Request /\ r = Sent("UNSUBSCRIBE", r.sid) /\ r.sid \in SID \cup {NoSID}
        /\ r.op = "UNSUBSCRIBE" /\ r.state = "sent"
        /\ Answered(r, r.sid) /\ UNCHANGED <<clientVars, excuses>>
        /\ SubscriberTable' = [s \in SID |-> IF s = r.sid THEN Absent ELSE SubscriberTable[s]]
    BY <1>15, Fields DEF CancelEvent, UnderWay, Sent
  <2>2. r # Req("RENEW", "sent", CurrentSID)
    BY <2>1, <1>p
  <2>3. CurrentSID # NoSID => CurrentSID # r.sid /\ CurrentSID \in SID
    BY <2>1, <1>t DEF IInv, NoCancel, UnderWay, TypeOK
  <2>4. QED
    BY <2>1, <2>2, <2>3, <1>d, <1>e
<1>16. ASSUME NEW r \in UnderWay, Lose(r) PROVE Renewed'
  <2>1. /\ r \in Request /\ r.state = "sent" /\ UNCHANGED <<clientVars, deviceVars, excuses>>
        /\ r = Req(r.op, r.state, r.sid)
    BY <1>16, Fields DEF Lose, UnderWay
  <2>2. /\ requests' \in [Request -> Nat]
        /\ \A p \in Request : requests'[p] = IF p = Req(r.op, "failed", r.sid) THEN requests[p] + 1
                                   ELSE IF p = r THEN requests[p] - 1 ELSE requests[p]
    BY <1>16, <1>t, LoseType
  <2>3. Req(r.op, "failed", r.sid) \in Request
    BY <2>1, Fields, Requests
  <2>4. CASE r # Req("RENEW", "sent", CurrentSID)
    <3>1. ASSUME NEW st \in {"sent", "ok", "failed"}
          PROVE requests'[Req("RENEW", st, CurrentSID)] >= requests[Req("RENEW", st, CurrentSID)]
      <4>1. Req("RENEW", st, CurrentSID) \in Request /\ requests[Req("RENEW", st, CurrentSID)] \in Nat
        BY <1>p, <1>t DEF TypeOK
      <4>2. r # Req("RENEW", st, CurrentSID)
        BY <2>1, <2>4, <1>p
      <4>3. \/ requests'[Req("RENEW", st, CurrentSID)] = requests[Req("RENEW", st, CurrentSID)] + 1
            \/ requests'[Req("RENEW", st, CurrentSID)] = requests[Req("RENEW", st, CurrentSID)]
        BY <4>1, <4>2, <2>2
      <4>4. QED
        BY <4>1, <4>3
    <3>2. QED
      BY <2>1, <2>2, <3>1, <1>e
  <2>5. CASE r = Req("RENEW", "sent", CurrentSID)
    <3>1. Req(r.op, "failed", r.sid) = Req("RENEW", "failed", CurrentSID)
      BY <2>5, <1>p
    <3>2. /\ requests'[Req("RENEW", "failed", CurrentSID)]
               = requests[Req("RENEW", "failed", CurrentSID)] + 1
          /\ requests[Req("RENEW", "failed", CurrentSID)] \in Nat
      BY <2>2, <2>3, <3>1, <1>t DEF TypeOK
    <3>3. Renewer'
      BY <2>1, <3>2 DEF Renewer, Renewing
    <3>4. QED
      BY <2>1, <3>3, RoundKept
  <2>6. QED
    BY <2>4, <2>5
<1>18. CASE SendEvents
  BY <1>18, <1>u DEF SendEvents
<1>19. ASSUME NEW s \in SID, SendEventsCopy(s) PROVE Renewed'
  <2>1. /\ UNCHANGED <<clientVars, requests, excuses>>
        /\ \/ UNCHANGED SubscriberTable
           \/ /\ SubscriberTable[s] \in {Absent, 0}
              /\ SubscriberTable' = [SubscriberTable EXCEPT ![s] = Absent]
    BY <1>19 DEF SendEventsCopy
  <2>2. CurrentSID # NoSID /\ ~Excused(Lapsing)' =>
          SubscriberTable'[CurrentSID] = SubscriberTable[CurrentSID]
    <3>1. CurrentSID # NoSID /\ ~Excused(Lapsing) =>
            CurrentSID \in SID /\ SubscriberTable[CurrentSID] \notin {Absent, 0}
      BY CurrentAlive
    <3>2. QED
      BY <2>1, <3>1, <1>t DEF Excused, TypeOK
  <2>3. QED
    BY <2>1, <2>2, RoundKept DEF Starter, Renewer, Renewing
<1>20. CASE SendEventsWrite
  <2>1. /\ UNCHANGED <<clientVars, requests>> /\ excuses \subseteq excuses'
        /\ SubscriberTable' = [SubscriberTable EXCEPT ![walk.sid] = walk.Expires]
        /\ walk.sid # CurrentSID \/ SubscriberTable[CurrentSID] = walk.Expires
             \/ "Overwritten" \in excuses'
    BY <1>20 DEF SendEventsWrite
  <2>2. CurrentSID # NoSID /\ ~Excused(Lapsing)' =>
          SubscriberTable'[CurrentSID] = SubscriberTable[CurrentSID]
    BY <2>1, <1>t DEF Excused, Lapsing, TypeOK
  <2>3. QED
    BY <2>1, <2>2, RoundKept DEF Starter, Renewer, Renewing
<1>21. CASE Tick
  <2>1. /\ UnderWay = {} /\ expired = 0 /\ arming = 0
        /\ UNCHANGED <<CurrentSID, CurrentTimeout, excuses>>
        /\ SubscriberTable' = [s \in SID |-> Older(SubscriberTable[s])]
        /\ expired' = IF cycle THEN 1 ELSE 0
    BY <1>21 DEF Tick, Prompt
  <2> SUFFICES ASSUME CurrentSID # NoSID, ~Excused(Lapsing)'
               PROVE IF CurrentTimeout = 0 THEN SubscriberTable'[CurrentSID] = Infinite
                                           ELSE Round(CurrentSID)'
    BY <2>1 DEF Renewed
  <2>2. ~Excused(Lapsing) /\ CurrentSID \in SID
    BY <2>1, <1>t DEF Excused, TypeOK
  <2>3. \A st \in {"sent", "ok", "failed"} : ~Renewing(CurrentSID, st)
    BY <2>1, <1>p DEF Renewing, UnderWay
  <2>4. CASE CurrentTimeout = 0
    BY <2>1, <2>2, <2>4 DEF IInv, Renewed, Older, Infinite
  <2>5. CASE CurrentTimeout # 0
    <3>1. SubscriberTable[CurrentSID] = 2 /\ cycle
      BY <2>1, <2>2, <2>3, <2>5 DEF IInv, Renewed, Round
    <3>2. SubscriberTable'[CurrentSID] = 1 /\ expired' = 1
      BY <2>1, <2>2, <3>1 DEF Older
    <3>3. QED
      BY <2>1, <2>5, <3>2 DEF Round
  <2>6. QED
    BY <2>4, <2>5
<1>22. CASE UNCHANGED vars
  BY <1>22, <1>u DEF vars
<1>23. QED
  BY <1>1, <1>2, <1>3, <1>4, <1>5, <1>6, <1>7, <1>8, <1>9, <1>10, <1>11, <1>13, <1>14, <1>15,
     <1>16, <1>18, <1>19, <1>20, <1>21, <1>22, <1>24, <1>26
  DEF Next, Client, Serve, Device, Renew, Subscribe, UpdateSubscribe

----------------------------------------------------------------------------
\* The count and the SID agree but for those at work who have counted, or have set the
\* count to 0 and are to subscribe anew, for a SUBSCRIBE and for the reasons.
Asked == \E r \in UnderWay : r.op = "SUBSCRIBE"

AtWork(c) ==
  \/ app[c].op \in {"subscribe", "unsubscribe", "clear"}
  \/ SubscribeCounter = 0 /\ app[c].op = "resubscribe"

Disagreeing == {"Refused", "Threw", "Late", "Forced", "Crossed", "RenewalFailed"}

Agrees ==
  (SubscribeCounter > 0) # (CurrentSID # NoSID) =>
    (\E c \in Caller : AtWork(c)) \/ Asked \/ Excused(Disagreeing)

\* The agreement lasts while no caller at work ends and no SUBSCRIBE is answered.
LEMMA AgreementKept ==
  ASSUME Agrees, UNCHANGED <<SubscribeCounter, CurrentSID>>,
         \A c \in Caller : app'[c] = app[c] \/ ~AtWork(c) \/ AtWork(c)',
         excuses \subseteq excuses', Asked => Asked'
  PROVE Agrees'
<1>1. \A c \in Caller : AtWork(c) => AtWork(c)'
  BY DEF AtWork
<1>2. QED
  BY <1>1 DEF Agrees, Excused

LEMMA AgreementInductive ==
  ASSUME IInv, Agrees, [Next]_vars PROVE Agrees'
<1> USE DEF clientVars, deviceVars
<1>t. TypeOK
  BY DEF IInv
<1>u. UNCHANGED requests => (Asked => Asked')
  BY DEF Asked, UnderWay
<1>s. ASSUME NEW q \in Request, Send(q) PROVE Asked => Asked'
  BY <1>s, <1>t, SendType DEF Asked, UnderWay, TypeOK
<1>a. ASSUME NEW r \in UnderWay, Answer(r), r.op # "SUBSCRIBE" PROVE Asked => Asked'
  BY <1>a, <1>t, AnswerType DEF Asked, UnderWay
<1>b. ASSUME NEW r \in UnderWay, r.state = "sent", NEW s \in SID \cup {NoSID}, Answered(r, s)
      PROVE Asked => Asked'
  <2>1. PICK q \in {Req(r.op, "ok", s), Req(r.op, "failed", r.sid)} :
             \A p \in Request : requests'[p] = IF p = q THEN requests[p] + 1
                                     ELSE IF p = r THEN requests[p] - 1 ELSE requests[p]
    BY <1>b, <1>t, AnsweredType
  <2>2. r \in Request /\ q \in Request /\ q.op = r.op
    BY Fields, Requests DEF UnderWay
  <2>3. requests'[q] > 0
    BY <2>1, <2>2, <1>t DEF TypeOK
  <2>4. ASSUME NEW p \in UnderWay, p.op = "SUBSCRIBE" PROVE Asked'
    <3>1. CASE p = r
      BY <2>2, <2>3, <2>4, <3>1 DEF Asked, UnderWay
    <3>2. CASE p # r
      <4>1. p \in Request /\ requests[p] \in Nat /\ requests[p] > 0
        BY <1>t DEF UnderWay, TypeOK
      <4>2. requests'[p] > 0
        BY <2>1, <3>2, <4>1
      <4>3. QED
        BY <2>4, <4>1, <4>2 DEF Asked, UnderWay
    <3>3. QED
      BY <3>1, <3>2
  <2>5. QED
    BY <2>4 DEF Asked
<1>1. ASSUME NEW c \in Caller, Count(c), app[c] = Idle \/ app[c].op = "resubscribe" PROVE Agrees'
  <2>1. CASE SubscribeCounter = 0
    <3>1. AtWork(c)'
      BY <1>1, <2>1, <1>t, CountType DEF AtWork
    <3>2. QED
      BY <3>1 DEF Agrees
  <2>2. CASE SubscribeCounter # 0
    <3>1. /\ SubscribeCounter > 0 /\ SubscribeCounter' > 0
          /\ UNCHANGED <<CurrentSID, requests, excuses>>
      BY <1>1, <2>2, <1>t DEF Count, TypeOK
    <3>2. ~AtWork(c)
      BY <1>1, <2>2 DEF AtWork, Idle, Is
    <3>3. \A d \in Caller : AtWork(d) => AtWork(d)'
      BY <3>1, <3>2, <1>1, <1>t, CountType DEF AtWork
    <3>4. QED
      BY <3>1, <3>3, <1>u DEF Agrees, Excused
  <2>3. QED
    BY <2>1, <2>2
<1>2. ASSUME NEW c \in Caller, SubscribeSend(c) PROVE Agrees'
  <2>1. Sent("SUBSCRIBE", NoSID) \in Request /\ Sent("SUBSCRIBE", NoSID).op = "SUBSCRIBE"
    BY Requests DEF Sent
  <2>2. CASE Send(Sent("SUBSCRIBE", NoSID))
    <3>1. requests'[Sent("SUBSCRIBE", NoSID)] > 0
      BY <2>2, <1>t, <2>1, SendType DEF TypeOK
    <3>2. QED
      BY <2>1, <3>1 DEF Agrees, Asked, UnderWay
  <2>3. CASE Throws(c, "Threw")
    BY <2>3 DEF Throws, Agrees, Excused, Disagreeing
  <2>4. QED
    BY <1>2, <2>2, <2>3 DEF SubscribeSend
<1>3. ASSUME NEW c \in Caller, NEW all \in BOOLEAN, UnSubscribe(c, all) PROVE Agrees'
  <2>1. CASE SubscribeCounter' = 0
    <3>1. AtWork(c)'
      BY <1>3, <2>1, <1>t, UnSubscribeType DEF AtWork
    <3>2. QED
      BY <3>1 DEF Agrees
  <2>2. CASE SubscribeCounter' # 0
    <3>1. /\ SubscribeCounter > 0 /\ SubscribeCounter' > 0
          /\ UNCHANGED <<CurrentSID, requests, excuses>> /\ app[c] = Idle
      <4>1. SubscribeCounter > 0 /\ SubscribeCounter' \in Nat
        BY <1>3, <2>2, <1>t, UnSubscribeType
      <4>2. UNCHANGED <<CurrentSID, requests, excuses>> /\ app[c] = Idle
        BY <1>3 DEF UnSubscribe, Call
      <4>3. QED
        BY <2>2, <4>1, <4>2
    <3>2. ~AtWork(c)
      BY <3>1 DEF AtWork, Idle, Is
    <3>3. \A d \in Caller : AtWork(d) => AtWork(d)'
      BY <3>1, <3>2, <1>3, <1>t, UnSubscribeType DEF AtWork
    <3>4. QED
      BY <3>1, <3>3, <1>u DEF Agrees, Excused
  <2>3. QED
    BY <2>1, <2>2
<1>4. ASSUME NEW c \in Caller, UnSubscribeRead(c) PROVE Agrees'
  <2>1. CASE app' = [app EXCEPT ![c] = Is("clear", CurrentSID, @.others)]
    <3>1. AtWork(c)'
      BY <2>1, <1>t, ReadType DEF AtWork
    <3>2. QED
      BY <3>1 DEF Agrees
  <2>2. CASE Throws(c, "Threw")
    BY <2>2 DEF Throws, Agrees, Excused, Disagreeing
  <2>3. QED
    BY <1>4, <2>1, <2>2 DEF UnSubscribeRead
<1>5. ASSUME NEW c \in Caller, UnSubscribeSend(c) PROVE Agrees'
  <2>1. CurrentSID' = NoSID /\ SubscribeCounter' = SubscribeCounter /\ Cleared(c)
    BY <1>5 DEF UnSubscribeSend
  <2>2. CASE SubscribeCounter = 0
    BY <2>1, <2>2 DEF Agrees
  <2>3. CASE SubscribeCounter # 0
    BY <2>1, <2>3 DEF Cleared, Agrees, Excused, Disagreeing
  <2>4. QED
    BY <2>2, <2>3
<1>6. ASSUME NEW c \in Caller, Update(c) PROVE Agrees'
  <2>1. /\ app[c] = Idle
        /\ UNCHANGED <<SubscribeCounter, CurrentSID, requests, excuses>>
    BY <1>6 DEF Update, Call
  <2>2. \A d \in Caller : d # c => app'[d] = app[d]
    BY <1>6, <1>t, GoesType DEF Update
  <2>3. ~AtWork(c)
    BY <2>1 DEF AtWork, Idle, Is
  <2>4. QED
    BY <2>1, <2>2, <2>3, <1>u, AgreementKept
<1>24. ASSUME NEW c \in Caller, UpdateReset(c) PROVE Agrees'
  <2>1. app'[c].op = "resubscribe" /\ SubscribeCounter' = 0
    BY <1>24, <1>t, GoesType DEF UpdateReset
  <2>2. QED
    BY <2>1 DEF AtWork, Agrees
<1>7. ASSUME NEW r \in UnderWay, HandleSubscribeResponse(r) PROVE Agrees'
  <2>1. CASE r.state = "ok"
    <3>1. CurrentSID' \in SID
      BY <1>7, <2>1, OfferedIs DEF HandleSubscribeResponse
    <3>2. UNCHANGED SubscribeCounter /\ SubscribeCounter \in Nat
          /\ excuses' = IF SubscribeCounter = 0 THEN {"Late"} ELSE {}
      BY <1>7, <2>1, <1>t DEF HandleSubscribeResponse, TypeOK
    <3>3. QED
      BY <3>1, <3>2, EventingAssumption DEF Agrees, Excused, Disagreeing
  <2>2. CASE r.state # "ok"
    BY <1>7, <2>2 DEF HandleSubscribeResponse, Agrees, Excused, Disagreeing
  <2>3. QED
    BY <2>1, <2>2
<1>8. CASE SubscribeArms
  BY <1>8, <1>u, AgreementKept DEF SubscribeArms
<1>9. ASSUME NEW r \in UnderWay, HandleUnsubscribeResponse(r) PROVE Agrees'
  BY <1>9, <1>a, AgreementKept DEF HandleUnsubscribeResponse, Because
<1>10. CASE Renew
  <2>1. Sent("RENEW", CurrentSID) \in Request
    BY <1>t, Requests DEF Sent, TypeOK
  <2>2. Asked => Asked'
    BY <1>10, <2>1, <1>s, <1>u DEF Renew
  <2>3. excuses \subseteq excuses'
    BY <1>10 DEF Renew, Because
  <2>4. QED
    BY <1>10, <2>2, <2>3, AgreementKept DEF Renew
<1>11. ASSUME NEW r \in UnderWay, RenewSink(r) PROVE Agrees'
  <2>1. CASE r.state = "ok"
    BY <1>11, <2>1, <1>a, AgreementKept DEF RenewSink
  <2>2. CASE r.state # "ok"
    BY <1>11, <2>2 DEF RenewSink, Because, Agrees, Excused, Disagreeing
  <2>3. QED
    BY <2>1, <2>2
<1>13. ASSUME NEW r \in UnderWay, SubscribeEvent(r) PROVE Agrees'
  <2>1. \E s \in SID : Answered(r, s)
    BY <1>13 DEF SubscribeEvent
  <2>2. Asked => Asked'
    BY <1>13, <2>1, <1>b DEF SubscribeEvent
  <2>3. QED
    BY <1>13, <2>2, AgreementKept DEF SubscribeEvent
<1>14. ASSUME NEW r \in UnderWay, RenewEvent(r) PROVE Agrees'
  <2>1. r.sid \in SID \cup {NoSID}
    BY Fields DEF UnderWay
  <2>2. Asked => Asked'
    BY <1>14, <2>1, <1>b DEF RenewEvent
  <2>3. QED
    BY <1>14, <2>2, AgreementKept DEF RenewEvent
<1>15. ASSUME NEW r \in UnderWay, CancelEvent(r) PROVE Agrees'
  <2>1. r.sid \in SID \cup {NoSID}
    BY Fields DEF UnderWay
  <2>2. Asked => Asked'
    BY <1>15, <2>1, <1>b DEF CancelEvent
  <2>3. QED
    BY <1>15, <2>2, AgreementKept DEF CancelEvent
<1>16. ASSUME NEW r \in UnderWay, Lose(r) PROVE Agrees'
  <2>1. r.sid \in SID \cup {NoSID}
    BY Fields DEF UnderWay
  <2>2. Asked => Asked'
    BY <1>16, <2>1, <1>b DEF Lose, Answered
  <2>3. QED
    BY <1>16, <2>2, AgreementKept DEF Lose
<1>18. CASE SendEvents
  BY <1>18, <1>u, AgreementKept DEF SendEvents
<1>19. ASSUME NEW s \in SID, SendEventsCopy(s) PROVE Agrees'
  BY <1>19, <1>u, AgreementKept DEF SendEventsCopy
<1>20. CASE SendEventsWrite
  BY <1>20, <1>u, AgreementKept DEF SendEventsWrite
<1>21. CASE Tick
  BY <1>21, <1>u, AgreementKept DEF Tick
<1>22. CASE UNCHANGED vars
  BY <1>22, <1>u, AgreementKept DEF vars
<1>23. QED
  BY <1>1, <1>2, <1>3, <1>4, <1>5, <1>6, <1>7, <1>8, <1>9, <1>10, <1>11, <1>13, <1>14, <1>15,
     <1>16, <1>18, <1>19, <1>20, <1>21, <1>22, <1>24
  DEF Next, Client, Serve, Device, Subscribe, UpdateSubscribe, Call

----------------------------------------------------------------------------
\* The inductive invariant holds in every execution.
THEOREM InvariantCorrect == Spec => []IInv
<1>1. IInv /\ [Next]_vars => IInv'
  BY TypeInductive, OfferedInductive, RenewedInductive DEF IInv
<1>2. QED
  BY InitInvariant, <1>1, PTL DEF Spec, Safety

\* The variables keep their types: SubscribeCounter never falls below zero, and no
\* request is answered that is not under way.
THEOREM TypeCorrect == Spec => []TypeOK
<1>1. IInv => TypeOK
  BY DEF IInv
<1>2. QED
  BY InvariantCorrect, <1>1, PTL

\* A subscription lapses at the device under its control point only for one of the five
\* reasons: every other order of the callers, renewals, answers, losses, events and time
\* keeps it.
THEOREM SubscriptionStays == Spec => []StaysSubscribed
<1>1. IInv => StaysSubscribed
  BY CurrentAlive DEF StaysSubscribed, Lapsing, IInv
<1>2. QED
  BY InvariantCorrect, <1>1, PTL

\* SubscribeCounter and CurrentSID agree whenever no caller is at work and no SUBSCRIBE is
\* under way, but for the six reasons that the code leaves, however many threads call.
THEOREM CounterAgrees == Spec => []CounterMeansSubscribed
<1>1. Init => Agrees
  BY DEF Init, Agrees
<1>2. IInv /\ Agrees /\ [Next]_vars => Agrees'
  BY AgreementInductive
<1>3. Agrees => CounterMeansSubscribed
  BY DEF Agrees, AtWork, Asked, Disagreeing, CounterMeansSubscribed, Idle, Is
<1>4. QED
  BY InvariantCorrect, <1>1, <1>2, <1>3, PTL DEF Spec, Safety
=============================================================================
