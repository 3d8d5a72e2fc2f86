------------------------ MODULE ILibThreadPool_proof ------------------------
(***************************************************************************)
(* Proofs about ILibThreadPool, for any finite set of workers and any      *)
(* items.  NumThreads is the number of workers inside the pool, and the    *)
(* one worker that takes it to zero posts AbortHandle: with no late thread *)
(* that happens once.                                                      *)
(***************************************************************************)
EXTENDS ILibThreadPool, FiniteSetTheorems, TLAPS

N(labels) == Cardinality(At(labels))
InPool == {"wait", "woken", "run", "check", "leave"}

\* Before Destroy nobody leaves, afterwards nothing is called any more.
Phases ==
  /\ Terminate <=> host # "serving"
  /\ ~Terminate => At({"leave", "post", "left"}) = {} /\ AbortHandle = 0
  /\ Terminate => inline = <<>> /\ At({"run"}) \subseteq counted
  /\ At({"run"}) # {} => host # "freed"

\* The workers that Destroy counted are gone when AbortHandle is posted, or going to
\* be; without a late thread it is posted once.
Aborted ==
  /\ AbortHandle > 0 \/ At({"post"}) # {} \/ (host = "freed" /\ counted # {})
       => At(InPool) \cap counted = {}
  /\ host = "freed" => At(InPool) \cap counted = {}
  /\ Terminate /\ Late = {} =>
       /\ AbortHandle + N({"post"}) <= 1
       /\ AbortHandle + N({"post"}) = 1 \/ host = "freed" => At(InPool) = {}
       /\ host = "freed" => At({"post"}) = {}
  /\ At({"out"}) \cap counted = {}

\* An item is at one place only.
Places ==
  /\ \A w \in Worker : pc[w] = "run" <=> wi[w] # NoItem
  /\ \A w, u \in At({"run"}) : wi[w] = wi[u] => w = u
  /\ \A j, k \in DOMAIN WorkItemQueue : WorkItemQueue[j] = WorkItemQueue[k] => j = k
  /\ \A j, k \in DOMAIN inline : inline[j] = inline[k] => j = k
  /\ \A w \in At({"run"}), k \in DOMAIN inline : wi[w] # inline[k]
  /\ Accepted \cap Started = {}
  /\ (Accepted \cup Started) \cap (finished \cup dropped) = {}

IInv ==
  /\ TypeOK
  /\ NumThreads = N(InPool)
  /\ PostPerItem /\ Phases /\ Aborted /\ Places

\* How many workers are at the places L: none, or one, or more.
LEMMA CountBasics ==
  ASSUME NEW L
  PROVE /\ IsFiniteSet(At(L)) /\ N(L) \in Nat
        /\ N(L) = 0 <=> At(L) = {}
        /\ N(L) <= 1 => \A t, u \in At(L) : t = u
<1>1. At(L) \subseteq Worker
  BY DEF At
<1>2. IsFiniteSet(At(L)) /\ N(L) \in Nat
  BY <1>1, FS_Subset, FS_CardinalityType, PoolAssumption DEF N
<1>3. N(L) = 0 <=> At(L) = {}
  BY <1>2, FS_EmptySet DEF N
<1>4. ASSUME N(L) <= 1, NEW t \in At(L), NEW u \in At(L) PROVE t = u
  <2>1. Cardinality(At(L)) = 1
    BY <1>2, <1>3, <1>4 DEF N
  <2>2. QED
    BY <2>1, <1>2, FS_Singleton
<1>5. QED
  BY <1>2, <1>3, <1>4

LEMMA CountMove ==
  ASSUME TypeOK, NEW w \in Worker, NEW from, NEW to, Goto(w, from, to), NEW L
  PROVE /\ N(L) \in Nat /\ N(L)' \in Nat
        /\ from \in L /\ to \in L => At(L)' = At(L) /\ N(L)' = N(L)
        /\ from \notin L /\ to \notin L => At(L)' = At(L) /\ N(L)' = N(L)
        /\ from \in L /\ to \notin L =>
             At(L)' = At(L) \ {w} /\ w \in At(L) /\ N(L) >= 1 /\ N(L)' = N(L) - 1
        /\ from \notin L /\ to \in L =>
             At(L)' = At(L) \cup {w} /\ N(L)' = N(L) + 1
<1>0. /\ pc[w] = from /\ pc' = [pc EXCEPT ![w] = to]
      /\ pc \in [Worker -> {"out", "wait", "woken", "run", "check", "leave", "post", "left"}]
  BY DEF Goto, TypeOK
<1>1. IsFiniteSet(At(L)) /\ N(L) \in Nat
  BY CountBasics
<1>2. CASE (from \in L) = (to \in L)
  <2>1. At(L)' = At(L)
    BY <1>0, <1>2 DEF At
  <2>2. QED
    BY <2>1, <1>1, <1>2 DEF N
<1>3. CASE from \in L /\ to \notin L
  <2>1. At(L)' = At(L) \ {w} /\ w \in At(L)
    BY <1>0, <1>3 DEF At
  <2>2. N(L)' = N(L) - 1
    BY <2>1, <1>1, FS_RemoveElement DEF N
  <2>3. N(L) # 0
    BY <2>1, CountBasics
  <2>4. QED
    BY <2>1, <2>2, <2>3, <1>1, <1>3
<1>4. CASE from \notin L /\ to \in L
  <2>1. At(L)' = At(L) \cup {w} /\ w \notin At(L)
    BY <1>0, <1>4 DEF At
  <2>2. QED
    BY <2>1, <1>1, <1>4, FS_AddElement DEF N
<1>5. QED
  BY <1>2, <1>3, <1>4

\* The same when no worker moves.
LEMMA CountStays ==
  ASSUME UNCHANGED pc, NEW L
  PROVE At(L)' = At(L) /\ N(L)' = N(L)
BY DEF At, N

----------------------------------------------------------------------------
LEMMA InitInvariant == Init => IInv
<1> SUFFICES ASSUME Init PROVE IInv
  OBVIOUS
<1>1. TypeOK
  <2>1. WorkItemQueue \in Seq(Item) /\ inline \in Seq(Item)
    BY DEF Init
  <2>2. QED
    BY <2>1 DEF Init, TypeOK
<1>2. ASSUME NEW L, "out" \notin L PROVE At(L) = {} /\ N(L) = 0
  BY <1>2, FS_EmptySet DEF Init, At, N
<1>3. NumThreads = N(InPool)
  BY <1>2 DEF Init, InPool
<1>4. PostPerItem
  BY <1>2 DEF Init, PostPerItem, N
<1>5. Phases
  BY <1>2 DEF Init, Phases
<1>6. Aborted
  BY <1>2 DEF Init, Aborted
<1>7. Places
  BY <1>2 DEF Init, Places, Accepted, Started, At
<1>8. QED
  BY <1>1, <1>3, <1>4, <1>5, <1>6, <1>7 DEF IInv

LEMMA TypeInductive == ASSUME IInv, [Next]_vars PROVE TypeOK'
<1> USE DEF TypeOK, IInv
<1>1. ASSUME NEW w \in Worker, Join(w) PROVE TypeOK'
  BY <1>1 DEF Join, Goto, destroying
<1>2. ASSUME NEW w \in Worker, SemWait(w) PROVE TypeOK'
  BY <1>2 DEF SemWait, Goto, destroying
<1>3. ASSUME NEW w \in Worker, DeQueue(w) PROVE TypeOK'
  <2>1. CASE WorkItemQueue = <<>>
    BY <1>3, <2>1 DEF DeQueue, Goto, destroying
  <2>2. CASE WorkItemQueue # <<>>
    <3>1. Head(WorkItemQueue) \in Item /\ Tail(WorkItemQueue) \in Seq(Item)
      BY <2>2
    <3>2. QED
      BY <1>3, <2>2, <3>1 DEF DeQueue, Goto, destroying
  <2>3. QED
    BY <2>1, <2>2
<1>4. ASSUME NEW w \in Worker, Return(w) PROVE TypeOK'
  <2>1. wi[w] \in Item
    BY <1>4 DEF Return, Goto, Places
  <2>2. QED
    BY <1>4, <2>1 DEF Return, Goto, destroying
<1>5. ASSUME NEW w \in Worker, Check(w) PROVE TypeOK'
  BY <1>5 DEF Check, Goto, destroying
<1>6. ASSUME NEW w \in Worker, Leave(w) PROVE TypeOK'
  <2>1. At(InPool) # {}
    BY <1>6 DEF Leave, Goto, At, InPool
  <2>2. NumThreads # 0
    BY <2>1, CountBasics
  <2>3. QED
    BY <1>6, <2>2 DEF Leave, Goto, destroying
<1>7. ASSUME NEW w \in Worker, PostAbort(w) PROVE TypeOK'
  BY <1>7 DEF PostAbort, Goto, destroying
<1>8. ASSUME NEW i \in Item, QueueUserWorkItem(i) PROVE TypeOK'
  <2>1. Append(WorkItemQueue, i) \in Seq(Item) /\ Append(inline, i) \in Seq(Item)
    OBVIOUS
  <2>2. CASE Enqueue(i)
    BY <1>8, <2>1, <2>2 DEF QueueUserWorkItem, Enqueue, destroying
  <2>3. CASE CallFromHere(i)
    BY <1>8, <2>1, <2>3 DEF QueueUserWorkItem, CallFromHere, destroying
  <2>4. QED
    BY <1>8, <2>2, <2>3 DEF QueueUserWorkItem
<1>9. CASE ReturnHere
  <2>1. inline[Len(inline)] \in Item /\ SubSeq(inline, 1, Len(inline) - 1) \in Seq(Item)
    BY <1>9 DEF ReturnHere
  <2>2. QED
    BY <1>9, <2>1 DEF ReturnHere, destroying
<1>10. CASE Destroy
  BY <1>10 DEF Destroy, At
<1>11. CASE DestroyPost
  BY <1>11 DEF DestroyPost
<1>12. CASE DestroyFree
  BY <1>12, CountBasics DEF DestroyFree
<1>13. CASE UNCHANGED vars
  BY <1>13 DEF vars, destroying
<1>14. QED
  BY <1>1, <1>2, <1>3, <1>4, <1>5, <1>6, <1>7, <1>8, <1>9, <1>10, <1>11, <1>12, <1>13
  DEF Next, Work, Serve

\* The two counts: threads in the pool, and posts for the queue.
LEMMA CountsInductive ==
  ASSUME IInv, [Next]_vars PROVE (NumThreads = N(InPool))' /\ PostPerItem'
<1>0. /\ TypeOK /\ NumThreads = N(InPool) /\ Phases
      /\ ~Terminate => SyncHandle + N({"woken"}) = Len(WorkItemQueue)
      /\ N(InPool) \in Nat /\ N({"woken"}) \in Nat
  BY CountBasics DEF IInv, PostPerItem, N
<1> SUFFICES /\ (NumThreads = N(InPool))'
             /\ ~Terminate' => SyncHandle' + N({"woken"})' = Len(WorkItemQueue')
  BY DEF PostPerItem, N
<1> USE DEF InPool
<1>1. ASSUME NEW w \in Worker, Join(w)
      PROVE N(InPool)' = N(InPool) + 1 /\ N({"woken"})' = N({"woken"})
  BY <1>0, <1>1, CountMove DEF Join
<1>2. ASSUME NEW w \in Worker, SemWait(w)
      PROVE N(InPool)' = N(InPool) /\ N({"woken"})' = N({"woken"}) + 1
  BY <1>0, <1>2, CountMove DEF SemWait
<1>3. ASSUME NEW w \in Worker, DeQueue(w)
      PROVE /\ N(InPool)' = N(InPool)
            /\ N({"woken"}) >= 1 /\ N({"woken"})' = N({"woken"}) - 1
  <2>1. PICK to \in {"check", "run"} : Goto(w, "woken", to)
    BY <1>3 DEF DeQueue
  <2>2. QED
    BY <1>0, <2>1, CountMove
<1>4. ASSUME NEW w \in Worker, Return(w) \/ Check(w)
      PROVE N(InPool)' = N(InPool) /\ N({"woken"})' = N({"woken"})
  <2>1. PICK from \in {"run", "check"}, to \in {"check", "leave", "wait"} : Goto(w, from, to)
    BY <1>4 DEF Return, Check
  <2>2. QED
    BY <1>0, <2>1, CountMove
<1>5. ASSUME NEW w \in Worker, Leave(w)
      PROVE N(InPool)' = N(InPool) - 1 /\ N({"woken"})' = N({"woken"})
  <2>1. PICK to \in {"post", "left"} : Goto(w, "leave", to)
    BY <1>5 DEF Leave
  <2>2. QED
    BY <1>0, <2>1, CountMove
<1>6. ASSUME NEW w \in Worker, PostAbort(w)
      PROVE N(InPool)' = N(InPool) /\ N({"woken"})' = N({"woken"})
  BY <1>0, <1>6, CountMove DEF PostAbort
<1>7. ASSUME UNCHANGED pc
      PROVE N(InPool)' = N(InPool) /\ N({"woken"})' = N({"woken"})
  BY <1>7, CountStays
<1>8. CASE \E w \in Worker : Join(w) \/ Work(w)
  <2> PICK w \in Worker : Join(w) \/ Work(w)
    BY <1>8
  <2>1. CASE Join(w)
    BY <1>0, <1>1, <2>1 DEF Join, TypeOK
  <2>2. CASE SemWait(w)
    BY <1>0, <1>2, <2>2 DEF SemWait, TypeOK
  <2>3. CASE DeQueue(w)
    <3>1. ~Terminate => Len(WorkItemQueue') = Len(WorkItemQueue) - 1
      BY <1>0, <1>3, <2>3 DEF DeQueue, TypeOK
    <3>2. QED
      BY <1>0, <1>3, <2>3, <3>1 DEF DeQueue, TypeOK
  <2>4. CASE Return(w)
    BY <1>0, <1>4, <2>4 DEF Return, TypeOK
  <2>5. CASE Check(w)
    BY <1>0, <1>4, <2>5 DEF Check, TypeOK
  <2>6. CASE Leave(w)
    <3>1. Terminate
      BY <1>0, <2>6 DEF Leave, Goto, Phases, At
    <3>2. QED
      BY <1>0, <1>5, <2>6, <3>1 DEF Leave, TypeOK
  <2>7. CASE PostAbort(w)
    BY <1>0, <1>6, <2>7 DEF PostAbort, TypeOK
  <2>8. QED
    BY <2>1, <2>2, <2>3, <2>4, <2>5, <2>6, <2>7 DEF Work
<1>9. ASSUME NEW i \in Item, QueueUserWorkItem(i)
      PROVE NumThreads' = NumThreads /\ (~Terminate' => SyncHandle' + N({"woken"})' = Len(WorkItemQueue'))
  <2>1. CASE Enqueue(i)
    <3>1. Len(WorkItemQueue') = Len(WorkItemQueue) + 1
      BY <1>0, <2>1 DEF Enqueue, TypeOK
    <3>2. N({"woken"})' = N({"woken"}) /\ Terminate' = Terminate /\ NumThreads' = NumThreads
      BY <1>7, <1>9 DEF QueueUserWorkItem
    <3>3. SyncHandle' = SyncHandle + 1
      BY <2>1 DEF Enqueue
    <3>4. SyncHandle \in Nat /\ Len(WorkItemQueue) \in Nat
      BY <1>0 DEF TypeOK
    <3>5. QED
      BY <1>0, <3>1, <3>2, <3>3, <3>4
  <2>2. CASE CallFromHere(i)
    BY <1>0, <1>7, <1>9, <2>2 DEF QueueUserWorkItem, CallFromHere
  <2>3. QED
    BY <1>9, <2>1, <2>2 DEF QueueUserWorkItem
<1>10. CASE \E i \in Item : QueueUserWorkItem(i)
  BY <1>0, <1>7, <1>9, <1>10 DEF QueueUserWorkItem
<1>11. CASE Destroy
  BY <1>0, <1>7, <1>11 DEF Destroy
<1>12. CASE ReturnHere
  BY <1>0, <1>7, <1>12 DEF ReturnHere
<1>13. CASE DestroyPost
  BY <1>0, <1>7, <1>13 DEF DestroyPost, Phases
<1>14. CASE DestroyFree
  BY <1>0, <1>7, <1>14 DEF DestroyFree, Phases
<1>15. CASE UNCHANGED vars
  BY <1>0, <1>7, <1>15 DEF vars
<1>16. QED
  BY <1>8, <1>10, <1>11, <1>12, <1>13, <1>14, <1>15 DEF Next, Serve

\* In a pool without threads nobody runs an item.
LEMMA NobodyRuns == ASSUME NumThreads = N(InPool), NumThreads = 0 PROVE At({"run"}) = {}
<1>1. At(InPool) = {}
  BY CountBasics
<1>2. QED
  BY <1>1 DEF At, InPool

LEMMA PhasesInductive == ASSUME IInv, [Next]_vars PROVE Phases'
<1>0. TypeOK /\ Phases /\ Aborted /\ NumThreads = N(InPool)
  BY DEF IInv
<1> USE <1>0 DEF Phases, At
<1>1. ASSUME NEW w \in Worker, Join(w) PROVE Phases'
  BY <1>1 DEF Join, Goto, TypeOK, destroying
<1>2. ASSUME NEW w \in Worker, SemWait(w) PROVE Phases'
  BY <1>2 DEF SemWait, Goto, TypeOK, destroying
<1>3. ASSUME NEW w \in Worker, DeQueue(w) PROVE Phases'
  BY <1>3 DEF DeQueue, Goto, TypeOK, destroying
<1>4. ASSUME NEW w \in Worker, Return(w) PROVE Phases'
  BY <1>4 DEF Return, Goto, TypeOK, destroying
<1>5. ASSUME NEW w \in Worker, Check(w) PROVE Phases'
  BY <1>5 DEF Check, Goto, TypeOK, destroying
<1>6. ASSUME NEW w \in Worker, Leave(w) PROVE Phases'
  BY <1>6 DEF Leave, Goto, TypeOK, destroying
<1>7. ASSUME NEW w \in Worker, PostAbort(w) PROVE Phases'
  BY <1>7 DEF PostAbort, Goto, TypeOK, destroying
<1>8. ASSUME NEW i \in Item, QueueUserWorkItem(i) PROVE Phases'
  <2>1. CASE Enqueue(i)
    BY <1>8, <2>1 DEF QueueUserWorkItem, Enqueue, destroying
  <2>2. CASE CallFromHere(i)
    <3>1. At({"run"}) = {}
      BY <2>2, NobodyRuns DEF CallFromHere
    <3>2. QED
      BY <1>8, <2>2, <3>1 DEF QueueUserWorkItem, CallFromHere, destroying
  <2>3. QED
    BY <1>8, <2>1, <2>2 DEF QueueUserWorkItem
<1>9. CASE ReturnHere
  BY <1>9 DEF ReturnHere, destroying
<1>10. CASE Destroy
  BY <1>10 DEF Destroy
<1>11. CASE DestroyPost
  BY <1>11 DEF DestroyPost
<1>12. CASE DestroyFree
  <2>1. At({"run"}) = {}
    BY <1>12 DEF DestroyFree, Aborted, InPool, TypeOK
  <2>2. QED
    BY <1>12, <2>1 DEF DestroyFree
<1>13. CASE UNCHANGED vars
  BY <1>13 DEF vars, destroying
<1>14. QED
  BY <1>1, <1>2, <1>3, <1>4, <1>5, <1>6, <1>7, <1>8, <1>9, <1>10, <1>11, <1>12, <1>13
  DEF Next, Work, Serve

\* A worker that moves without touching the phase leaves Aborted as it is, if it
\* neither joins nor leaves.
LEMMA AbortedKept ==
  ASSUME IInv, NEW w \in Worker, NEW from \in InPool, NEW to \in InPool, Goto(w, from, to),
         UNCHANGED <<Terminate, host, counted, AbortHandle>>
  PROVE Aborted'
<1>1. /\ At(InPool)' = At(InPool) /\ N({"post"})' = N({"post"})
      /\ At({"post"})' = At({"post"}) /\ At({"out"})' = At({"out"})
  BY CountMove DEF IInv, InPool
<1>2. Late' = Late
  BY <1>1 DEF Late
<1>3. QED
  BY <1>1, <1>2 DEF IInv, Aborted

\* The same for steps in which no worker moves.
LEMMA AbortedStays ==
  ASSUME IInv, UNCHANGED <<pc, Terminate, host, counted, AbortHandle>> PROVE Aborted'
<1>1. \A L : At(L)' = At(L) /\ N(L)' = N(L)
  BY CountStays
<1>2. Late' = Late
  BY <1>1 DEF Late
<1>3. QED
  BY <1>1, <1>2 DEF IInv, Aborted

LEMMA AbortedInductive == ASSUME IInv, [Next]_vars PROVE Aborted'
<1>0. TypeOK /\ Phases /\ Aborted /\ NumThreads = N(InPool)
  BY DEF IInv
<1>1. ASSUME NEW w \in Worker, Join(w) PROVE Aborted'
  <2>1. /\ At(InPool)' = At(InPool) \cup {w} /\ N({"post"})' = N({"post"})
        /\ At({"post"})' = At({"post"}) /\ At({"out"})' = At({"out"}) \ {w} /\ w \in At({"out"})
    BY <1>0, <1>1, CountMove DEF Join, InPool
  <2>2. UNCHANGED <<Terminate, host, counted, AbortHandle>> /\ host # "freed"
    BY <1>1 DEF Join, Goto, destroying
  <2>3. w \notin counted
    BY <1>0, <2>1 DEF Aborted
  <2>4. Terminate' => Late' # {}
    BY <2>1, <2>2, <2>3 DEF Late
  <2>5. QED
    BY <1>0, <2>1, <2>2, <2>3, <2>4 DEF Aborted
<1>2. ASSUME NEW w \in Worker, SemWait(w) PROVE Aborted'
  BY <1>2, AbortedKept DEF SemWait, destroying, InPool
<1>3. ASSUME NEW w \in Worker, DeQueue(w) PROVE Aborted'
  <2>1. PICK to \in {"check", "run"} : Goto(w, "woken", to)
    BY <1>3 DEF DeQueue
  <2>2. QED
    BY <1>3, <2>1, AbortedKept DEF DeQueue, destroying, InPool
<1>4. ASSUME NEW w \in Worker, Return(w) PROVE Aborted'
  BY <1>4, AbortedKept DEF Return, destroying, InPool
<1>5. ASSUME NEW w \in Worker, Check(w) PROVE Aborted'
  <2>1. PICK to \in {"leave", "wait"} : Goto(w, "check", to)
    BY <1>5 DEF Check
  <2>2. QED
    BY <1>5, <2>1, AbortedKept DEF Check, destroying, InPool
<1>6. ASSUME NEW w \in Worker, Leave(w) PROVE Aborted'
  <2>1. PICK to \in {"post", "left"} : Goto(w, "leave", to) /\ (to = "post" <=> NumThreads = 1)
    BY <1>6 DEF Leave
  <2>2. /\ At(InPool)' = At(InPool) \ {w} /\ w \in At(InPool)
        /\ At({"out"})' = At({"out"})
        /\ N(InPool)' = N(InPool) - 1
    BY <1>0, <2>1, CountMove DEF InPool
  <2>3. UNCHANGED <<Terminate, host, counted, AbortHandle>> /\ host # "freed"
    BY <1>6 DEF Leave, Goto, destroying
  <2>4. Late' = Late
    BY <2>2, <2>3 DEF Late
  <2>5. CASE to = "left"
    <3>1. At({"post"})' = At({"post"}) /\ N({"post"})' = N({"post"})
      BY <1>0, <2>1, <2>5, CountMove
    <3>2. QED
      BY <1>0, <2>2, <2>3, <2>4, <3>1 DEF Aborted
  <2>6. CASE to = "post"
    <3>1. N({"post"})' = N({"post"}) + 1 /\ N({"post"}) \in Nat
      BY <1>0, <2>1, <2>6, CountMove
    <3>2. At(InPool)' = {}
      <4>1. N(InPool)' = 0
        BY <1>0, <2>1, <2>2, <2>6
      <4>2. \A t, u \in At(InPool) : t = u
        BY <1>0, <2>1, <2>6, CountBasics
      <4>3. QED
        BY <4>2, <2>2
    <3>3. Terminate /\ Late = {} => AbortHandle + N({"post"}) = 0
      BY <1>0, <2>2, <3>1 DEF Aborted, TypeOK
    <3>4. QED
      BY <1>0, <2>2, <2>3, <2>4, <3>1, <3>2, <3>3 DEF Aborted, TypeOK
  <2>7. QED
    BY <2>1, <2>5, <2>6
<1>7. ASSUME NEW w \in Worker, PostAbort(w) PROVE Aborted'
  <2>1. /\ At(InPool)' = At(InPool) /\ At({"out"})' = At({"out"})
        /\ N({"post"})' = N({"post"}) - 1 /\ N({"post"}) \in Nat
        /\ w \in At({"post"}) /\ At({"post"})' \subseteq At({"post"})
    BY <1>0, <1>7, CountMove DEF PostAbort, InPool
  <2>2. UNCHANGED <<Terminate, host, counted>> /\ host # "freed" /\ AbortHandle' = AbortHandle + 1
    BY <1>7 DEF PostAbort, Goto, destroying
  <2>3. Late' = Late
    BY <2>1, <2>2 DEF Late
  <2>4. QED
    BY <1>0, <2>1, <2>2, <2>3 DEF Aborted, TypeOK
<1>8. ASSUME NEW i \in Item, QueueUserWorkItem(i) PROVE Aborted'
  BY <1>8, AbortedStays DEF QueueUserWorkItem, destroying
<1>9. CASE ReturnHere
  BY <1>9, AbortedStays DEF ReturnHere, destroying
<1>10. CASE Destroy
  <2>1. /\ ~Terminate /\ Terminate' /\ host' = "destroying" /\ AbortHandle' = 0
        /\ counted' = At({"wait", "woken", "run", "check"})
    BY <1>0, <1>10 DEF Destroy, Phases
  <2>2. \A L : At(L)' = At(L) /\ N(L)' = N(L)
    BY <1>10, CountStays DEF Destroy
  <2>3. At({"post"}) = {} /\ N({"post"}) = 0
    <3>1. At({"post"}) = {}
      BY <1>0, <2>1 DEF Phases, At
    <3>2. QED
      BY <3>1, CountBasics
  <2>4. At({"out"}) \cap counted' = {}
    BY <2>1 DEF At
  <2>5. QED
    BY <2>1, <2>2, <2>3, <2>4 DEF Aborted
<1>11. CASE DestroyPost
  BY <1>11, AbortedStays DEF DestroyPost
<1>12. CASE DestroyFree
  <2>1. /\ host = "destroying" /\ host' = "freed" /\ UNCHANGED <<pc, Terminate, counted>>
        /\ counted # {} => AbortHandle > 0 /\ AbortHandle' = AbortHandle - 1
        /\ counted = {} => AbortHandle' = AbortHandle
    BY <1>12 DEF DestroyFree
  <2>2. \A L : At(L)' = At(L) /\ N(L)' = N(L)
    BY <2>1, CountStays
  <2>3. Terminate /\ Late' = Late
    BY <1>0, <2>1, <2>2 DEF Late, Phases
  <2>4. At(InPool) \cap counted = {}
    BY <1>0, <2>1 DEF Aborted
  <2>5. N({"post"}) \in Nat /\ (N({"post"}) = 0 <=> At({"post"}) = {})
    BY CountBasics
  <2>6. CASE counted = {}
    <3>1. Late = {} => At(InPool) = {} /\ At({"post"}) = {}
      BY <2>3, <2>6 DEF Late, At, InPool
    <3>2. QED
      BY <1>0, <2>1, <2>2, <2>3, <2>4, <2>5, <2>6, <3>1 DEF Aborted, TypeOK
  <2>7. CASE counted # {}
    <3>1. Late = {} => AbortHandle = 1 /\ N({"post"}) = 0
      BY <1>0, <2>1, <2>3, <2>5, <2>7 DEF Aborted, TypeOK
    <3>2. Late = {} => At(InPool) = {}
      BY <1>0, <2>3, <3>1 DEF Aborted
    <3>3. QED
      BY <1>0, <2>1, <2>2, <2>3, <2>4, <2>5, <2>7, <3>1, <3>2 DEF Aborted, TypeOK
  <2>8. QED
    BY <2>6, <2>7
<1>13. CASE UNCHANGED vars
  BY <1>13, AbortedStays DEF vars, destroying
<1>14. QED
  BY <1>1, <1>2, <1>3, <1>4, <1>5, <1>6, <1>7, <1>8, <1>9, <1>10, <1>11, <1>12, <1>13
  DEF Next, Work, Serve

----------------------------------------------------------------------------
(* The items and where they are.                                           *)

Members(q) == {q[k] : k \in DOMAIN q}
Distinct(q) == \A j, k \in DOMAIN q : q[j] = q[k] => j = k

LEMMA AppendMembers ==
  ASSUME NEW q \in Seq(Item), NEW i \in Item, Distinct(q), i \notin Members(q)
  PROVE Members(Append(q, i)) = Members(q) \cup {i} /\ Distinct(Append(q, i))
<1>1. /\ DOMAIN q = 1..Len(q) /\ DOMAIN Append(q, i) = 1..(Len(q) + 1) /\ Len(q) \in Nat
      /\ \A k \in 1..Len(q) : Append(q, i)[k] = q[k]
      /\ Append(q, i)[Len(q) + 1] = i
  OBVIOUS
<1>2. 1..(Len(q) + 1) = (1..Len(q)) \cup {Len(q) + 1}
  BY <1>1
<1>3. QED
  BY <1>1, <1>2 DEF Members, Distinct

LEMMA TailMembers ==
  ASSUME NEW q \in Seq(Item), Distinct(q), q # <<>>
  PROVE /\ Head(q) \in Members(q)
        /\ Members(Tail(q)) = Members(q) \ {Head(q)} /\ Distinct(Tail(q))
<1>1. /\ DOMAIN q = 1..Len(q) /\ Len(q) \in Nat \ {0} /\ Head(q) = q[1]
      /\ DOMAIN Tail(q) = 1..(Len(q) - 1)
      /\ \A k \in 1..(Len(q) - 1) : Tail(q)[k] = q[k + 1]
  OBVIOUS
<1>2. \A k \in 1..Len(q) : k = 1 \/ (k - 1 \in 1..(Len(q) - 1) /\ Tail(q)[k - 1] = q[k])
  BY <1>1
<1>3. Distinct(Tail(q))
  BY <1>1 DEF Distinct
<1>4. \A k \in 1..(Len(q) - 1) : k + 1 \in 1..Len(q) /\ k + 1 # 1
  BY <1>1
<1>5. Members(Tail(q)) \subseteq Members(q) \ {Head(q)}
  BY <1>1, <1>4 DEF Members, Distinct
<1>6. ASSUME NEW i \in Members(q), i # Head(q) PROVE i \in Members(Tail(q))
  <2>1. PICK k \in 1..Len(q) : q[k] = i
    BY <1>1 DEF Members
  <2>2. k - 1 \in DOMAIN Tail(q) /\ Tail(q)[k - 1] = i
    BY <1>1, <1>2, <1>6, <2>1
  <2>3. QED
    BY <2>2 DEF Members
<1>7. Head(q) \in Members(q)
  <2>1. 1 \in 1..Len(q)
    BY <1>1
  <2>2. QED
    BY <1>1, <2>1 DEF Members
<1>8. QED
  BY <1>3, <1>5, <1>6, <1>7

LEMMA FrontMembers ==
  ASSUME NEW q \in Seq(Item), Distinct(q), q # <<>>
  PROVE LET f == SubSeq(q, 1, Len(q) - 1)
        IN  /\ q[Len(q)] \in Members(q)
            /\ Members(f) = Members(q) \ {q[Len(q)]} /\ Distinct(f)
<1> DEFINE f == SubSeq(q, 1, Len(q) - 1)
<1>1. /\ DOMAIN q = 1..Len(q) /\ Len(q) \in Nat \ {0}
      /\ DOMAIN f = 1..(Len(q) - 1)
      /\ \A k \in 1..(Len(q) - 1) : f[k] = q[k]
  OBVIOUS
<1> HIDE DEF f
<1>2. 1..Len(q) = (1..(Len(q) - 1)) \cup {Len(q)} /\ Len(q) \notin 1..(Len(q) - 1)
  BY <1>1
<1>3. Distinct(f)
  BY <1>1, <1>2 DEF Distinct
<1>4. Members(f) = Members(q) \ {q[Len(q)]}
  BY <1>1, <1>2 DEF Members, Distinct
<1>5. q[Len(q)] \in Members(q)
  BY <1>1 DEF Members
<1>6. QED
  BY <1>3, <1>4, <1>5 DEF f

\* The items that workers run.
Run == {wi[w] : w \in At({"run"})}

\* Places in terms of these.
Placed ==
  /\ \A w \in Worker : pc[w] = "run" <=> wi[w] # NoItem
  /\ \A w, u \in At({"run"}) : wi[w] = wi[u] => w = u
  /\ Distinct(WorkItemQueue) /\ Distinct(inline)
  /\ Run \cap Members(inline) = {}
  /\ Members(WorkItemQueue) \cap (Run \cup Members(inline)) = {}
  /\ (Members(WorkItemQueue) \cup Run \cup Members(inline)) \cap (finished \cup dropped) = {}

LEMMA PlacesSets ==
  /\ Places <=> Placed
  /\ Places' <=> Placed'
  /\ Accepted = Members(WorkItemQueue) /\ Started = Run \cup Members(inline)
  /\ Accepted' = Members(WorkItemQueue') /\ Started' = Run' \cup Members(inline')
BY DEF Places, Placed, Distinct, Run, Members, Accepted, Started

\* A step that moves no item.
LEMMA NoItemMoves ==
  ASSUME IInv, UNCHANGED <<wi, WorkItemQueue, inline, finished, dropped>>,
         \A w \in Worker : pc'[w] = "run" <=> pc[w] = "run"
  PROVE Places' /\ UNCHANGED <<Accepted, Started, finished, dropped>>
<1>1. At({"run"})' = At({"run"})
  BY DEF At
<1>2. Run' = Run
  BY <1>1 DEF Run
<1>3. UNCHANGED <<Accepted, Started>>
  BY <1>1 DEF Accepted, Started
<1>4. Places'
  BY <1>1, <1>3 DEF IInv, Places
<1>5. QED
  BY <1>3, <1>4

\* What one step of a worker or the host does with an item.
Step ==
  Places' /\ [Executor!Next]_Executor!vars

LEMMA PlacesInductive == ASSUME IInv, [Next]_vars PROVE Step
<1>0. TypeOK /\ Phases /\ Aborted /\ Places /\ NumThreads = N(InPool)
  BY DEF IInv
<1> USE DEF Step, Executor!Next, Executor!vars
<1>1. ASSUME NEW w \in Worker, Join(w) \/ SemWait(w) \/ Check(w) \/ Leave(w) \/ PostAbort(w)
      PROVE Step
  <2>1. /\ UNCHANGED <<wi, WorkItemQueue, inline, finished, dropped, Terminate, host>>
        /\ \A u \in Worker : pc'[u] = "run" <=> pc[u] = "run"
    BY <1>0, <1>1 DEF Join, SemWait, Check, Leave, PostAbort, Goto, TypeOK, destroying
  <2>2. QED
    BY <2>1, NoItemMoves
<1>2. ASSUME NEW w \in Worker, DeQueue(w) PROVE Step
  <2>1. CASE WorkItemQueue = <<>>
    <3>1. /\ UNCHANGED <<wi, WorkItemQueue, inline, finished, dropped, Terminate, host>>
          /\ \A u \in Worker : pc'[u] = "run" <=> pc[u] = "run"
      BY <1>0, <1>2, <2>1 DEF DeQueue, Goto, TypeOK, destroying
    <3>2. QED
      BY <3>1, NoItemMoves
  <2>2. CASE WorkItemQueue # <<>>
    <3> DEFINE i == Head(WorkItemQueue)
    <3>1. /\ i \in Members(WorkItemQueue) /\ Distinct(Tail(WorkItemQueue)) /\ i \in Item
          /\ Members(Tail(WorkItemQueue)) = Members(WorkItemQueue) \ {i}
      BY <1>0, <2>2, TailMembers, PlacesSets DEF TypeOK, Placed
    <3>2. /\ WorkItemQueue' = Tail(WorkItemQueue)
          /\ UNCHANGED <<inline, finished, host, Terminate>> /\ host # "freed"
          /\ pc[w] = "woken"
      BY <1>2, <2>2 DEF DeQueue, Goto, destroying
    <3> HIDE DEF i
    <3>3. CASE Terminate
      <4>1. /\ dropped' = dropped \cup {i} /\ wi' = wi
            /\ \A u \in Worker : pc'[u] = "run" <=> pc[u] = "run"
        BY <1>0, <1>2, <2>2, <3>3 DEF DeQueue, Goto, TypeOK, i
      <4>2. At({"run"})' = At({"run"}) /\ Run' = Run
        BY <4>1 DEF At, Run
      <4>3. Places'
        BY <1>0, <3>1, <3>2, <4>1, <4>2, PlacesSets DEF Placed
      <4>4. Executor!Drop
        BY <3>1, <3>2, <3>3, <4>1, <4>2, PlacesSets DEF Executor!Drop
      <4>5. QED
        BY <4>3, <4>4, <3>2
    <3>4. CASE ~Terminate
      <4>1. /\ dropped' = dropped /\ wi' = [wi EXCEPT ![w] = i]
            /\ pc' = [pc EXCEPT ![w] = "run"]
        BY <1>0, <1>2, <2>2, <3>4 DEF DeQueue, Goto, TypeOK, i
      <4>2. At({"run"})' = At({"run"}) \cup {w} /\ w \notin At({"run"})
        BY <1>0, <3>2, <4>1 DEF At, TypeOK
      <4>3. Run' = Run \cup {i}
        BY <1>0, <4>1, <4>2 DEF Run, TypeOK, At
      <4>4. /\ i \notin Run /\ i # NoItem
            /\ \A u \in Worker : pc'[u] = "run" <=> wi'[u] # NoItem
            /\ \A u, v \in At({"run"})' : wi'[u] = wi'[v] => u = v
        BY <1>0, <3>1, <4>1, <4>2, PlacesSets, PoolAssumption DEF Placed, Run, At, TypeOK
      <4>5. Places'
        BY <1>0, <3>1, <3>2, <4>1, <4>3, <4>4, PlacesSets DEF Placed
      <4>6. Executor!Start
        BY <3>1, <3>2, <3>4, <4>1, <4>3, PlacesSets DEF Executor!Start
      <4>7. QED
        BY <4>5, <4>6, <3>2
    <3>5. QED
      BY <3>3, <3>4
  <2>3. QED
    BY <2>1, <2>2
<1>3. ASSUME NEW w \in Worker, Return(w) PROVE Step
  <2> DEFINE i == wi[w]
  <2>1. /\ pc[w] = "run" /\ host # "freed" /\ pc' = [pc EXCEPT ![w] = "check"]
        /\ UNCHANGED <<WorkItemQueue, inline, dropped, host, Terminate>>
        /\ finished' = finished \cup {i} /\ wi' = [wi EXCEPT ![w] = NoItem]
    BY <1>3 DEF Return, Goto, destroying
  <2>2. w \in At({"run"}) /\ At({"run"})' = At({"run"}) \ {w} /\ i \in Run
    BY <1>0, <2>1 DEF At, Run, TypeOK
  <2>3. \A u \in At({"run"})' : wi'[u] = wi[u] /\ wi[u] # i
    BY <1>0, <2>1, <2>2, PlacesSets DEF Placed, TypeOK, At
  <2> HIDE DEF i
  <2>4. Run' = Run \ {i}
    BY <1>0, <2>2, <2>3 DEF Run, i
  <2>5. /\ \A u \in Worker : pc'[u] = "run" <=> wi'[u] # NoItem
        /\ \A u, v \in At({"run"})' : wi'[u] = wi'[v] => u = v
    BY <1>0, <2>1, <2>2, <2>3, PlacesSets DEF Placed, TypeOK
  <2>6. Places'
    BY <1>0, <2>1, <2>2, <2>4, <2>5, PlacesSets DEF Placed
  <2>7. Executor!Finish
    BY <1>0, <2>1, <2>2, <2>4, PlacesSets DEF Executor!Finish, Placed
  <2>8. QED
    BY <2>1, <2>6, <2>7
<1>4. ASSUME NEW i \in Item, QueueUserWorkItem(i) PROVE Step
  <2>1. /\ i \notin Members(WorkItemQueue) \cup Run \cup Members(inline) \cup finished \cup dropped
        /\ UNCHANGED <<pc, wi, finished, dropped, host, Terminate>> /\ host # "freed"
        /\ i \in Executor!Fresh
    BY <1>4, PlacesSets DEF QueueUserWorkItem, Fresh, Executor!Fresh, destroying
  <2>2. At({"run"})' = At({"run"}) /\ Run' = Run
    BY <2>1 DEF At, Run
  <2>3. CASE Enqueue(i)
    <3>1. /\ Distinct(WorkItemQueue') /\ inline' = inline
          /\ Members(WorkItemQueue') = Members(WorkItemQueue) \cup {i}
      BY <1>0, <2>1, <2>3, AppendMembers, PlacesSets DEF Enqueue, Placed, TypeOK
    <3>2. Places'
      BY <1>0, <2>1, <2>2, <3>1, PlacesSets DEF Placed
    <3>3. Executor!Accept
      BY <2>1, <2>2, <3>1, PlacesSets DEF Executor!Accept
    <3>4. QED
      BY <2>1, <3>2, <3>3
  <2>4. CASE CallFromHere(i)
    <3>1. /\ Distinct(inline') /\ WorkItemQueue' = WorkItemQueue
          /\ Members(inline') = Members(inline) \cup {i}
      BY <1>0, <2>1, <2>4, AppendMembers, PlacesSets DEF CallFromHere, Placed, TypeOK
    <3>2. ~Terminate
      BY <1>0, <1>4, <2>4, NobodyRuns DEF QueueUserWorkItem, CallFromHere, Phases
    <3>3. Places'
      BY <1>0, <2>1, <2>2, <3>1, PlacesSets DEF Placed
    <3>4. Executor!Start
      BY <2>1, <2>2, <3>1, <3>2, PlacesSets DEF Executor!Start
    <3>5. QED
      BY <2>1, <3>3, <3>4
  <2>5. QED
    BY <1>4, <2>3, <2>4 DEF QueueUserWorkItem
<1>5. CASE ReturnHere
  <2> DEFINE i == inline[Len(inline)]
  <2>1. /\ UNCHANGED <<pc, wi, WorkItemQueue, dropped, host, Terminate>>
        /\ inline # <<>> /\ finished' = finished \cup {i}
        /\ inline' = SubSeq(inline, 1, Len(inline) - 1)
    BY <1>5 DEF ReturnHere, destroying
  <2>2. i \in Members(inline) /\ Members(inline') = Members(inline) \ {i} /\ Distinct(inline')
    BY <1>0, <2>1, FrontMembers, PlacesSets DEF Placed, TypeOK
  <2> HIDE DEF i
  <2>3. At({"run"})' = At({"run"}) /\ Run' = Run
    BY <2>1 DEF At, Run
  <2>4. host # "freed"
    BY <1>0, <2>1 DEF Phases
  <2>5. Places'
    BY <1>0, <2>1, <2>2, <2>3, PlacesSets DEF Placed
  <2>6. Executor!Finish
    BY <1>0, <2>1, <2>2, <2>3, PlacesSets DEF Executor!Finish, Placed
  <2>7. QED
    BY <2>4, <2>5, <2>6
<1>6. ASSUME Destroy \/ DestroyPost \/ DestroyFree \/ UNCHANGED vars
      PROVE Places' /\ UNCHANGED <<Accepted, Started, finished, dropped>>
  BY <1>6, NoItemMoves DEF Destroy, DestroyPost, DestroyFree, vars
<1>7. CASE Destroy
  <2>1. Executor!Close /\ host # "freed"
    BY <1>0, <1>6, <1>7 DEF Destroy, Executor!Close, Phases
  <2>2. QED
    BY <1>6, <1>7, <2>1
<1>8. CASE DestroyPost \/ UNCHANGED vars
  BY <1>6, <1>8 DEF DestroyPost, vars, destroying
<1>9. CASE DestroyFree
  <2>1. Terminate /\ inline = <<>> /\ At({"run"}) \subseteq counted
    BY <1>0, <1>9 DEF DestroyFree, Phases
  <2>2. At({"run"}) = {}
    BY <1>0, <1>9, <2>1 DEF DestroyFree, Aborted, At, InPool, TypeOK
  <2>3. Started = {}
    BY <2>1, <2>2 DEF Started
  <2>4. Executor!Free /\ host # "freed"
    BY <1>6, <1>9, <2>1, <2>3 DEF DestroyFree, Executor!Free
  <2>5. QED
    BY <1>6, <1>9, <2>4
<1>10. QED
  BY <1>1, <1>2, <1>3, <1>4, <1>5, <1>7, <1>8, <1>9 DEF Next, Work, Serve

----------------------------------------------------------------------------
\* The inductive invariant holds of every behaviour.
THEOREM InvariantCorrect == Spec => []IInv
<1>1. IInv /\ [Next]_vars => IInv'
  BY TypeInductive, CountsInductive, PhasesInductive, AbortedInductive, PlacesInductive
  DEF IInv, Step
<1>2. QED
  BY InitInvariant, <1>1, PTL DEF Spec, Safety

\* The variables keep their types: NumThreads, the semaphores and the posts that
\* Destroy has to make never fall below zero.
THEOREM TypeCorrect == Spec => []TypeOK
<1>1. IInv => TypeOK
  BY DEF IInv
<1>2. QED
  BY InvariantCorrect, <1>1, PTL

\* Until the pool terminates there is exactly one post, or one woken worker, for
\* every queued item.
THEOREM PostForEveryItem == Spec => []PostPerItem
<1>1. IInv => PostPerItem
  BY DEF IInv
<1>2. QED
  BY InvariantCorrect, <1>1, PTL

\* When Destroy frees the pool, no thread that it counted will touch it again, but
\* for the second post that a late thread may bring about.
THEOREM CountedHaveAlwaysLeft == Spec => []CountedHaveLeft
<1>1. IInv => CountedHaveLeft
  <2> SUFFICES ASSUME IInv, host = "freed", NEW w \in counted
               PROVE pc[w] = "left" \/ (pc[w] = "post" /\ Late # {})
    BY DEF CountedHaveLeft
  <2>1. w \in Worker /\ w \notin At(InPool) /\ w \notin At({"out"})
    BY DEF IInv, TypeOK, Aborted
  <2>2. pc[w] \in {"post", "left"}
    BY <2>1 DEF IInv, TypeOK, At, InPool
  <2>3. Late = {} => At({"post"}) = {}
    BY DEF IInv, Aborted, Phases
  <2>4. QED
    BY <2>1, <2>2, <2>3 DEF At
<1>2. QED
  BY InvariantCorrect, <1>1, PTL

\* The pool implements the executor: an item is called at most once, none is called
\* after Terminate, and none is running when the pool is freed.
THEOREM ExecutorImplemented == Spec => ImplementsExecutor
<1>1. Init => Executor!Init
  BY DEF Init, Executor!Init, Accepted, Started, At
<1>2. IInv /\ [Next]_vars => [Executor!Next]_Executor!vars
  BY PlacesInductive DEF Step
<1>3. QED
  BY InvariantCorrect, <1>1, <1>2, PTL DEF Spec, Safety, ImplementsExecutor, Executor!Spec
=============================================================================
