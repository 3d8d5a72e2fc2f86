--------------------------- MODULE ILibThreadPool ---------------------------
(***************************************************************************)
(* The thread pool of the C microstack (ILibThreadPool.c) as its           *)
(* applications use it (Main.c): threads that give themselves to the pool  *)
(* whenever they come to run, and a host thread that queues work and in    *)
(* the end destroys the pool.  A work item may queue further items.        *)
(*                                                                         *)
(* A section under the lock of the queue is one action, and so is every    *)
(* sem_wait and sem_post outside of one.  Behaviours are followed up to    *)
(* the free at the end of Destroy.                                         *)
(***************************************************************************)
EXTENDS Naturals, Sequences, FiniteSets

CONSTANTS Worker, Item, NoItem

ASSUME PoolAssumption == IsFiniteSet(Worker) /\ NoItem \notin Item

VARIABLES
  NumThreads, Terminate, WorkItemQueue, SyncHandle, AbortHandle,
  pc,        \* where each worker is
  wi,        \* the item it took from the queue
  host,      \* where the host thread is
  inline,    \* the items whose callbacks the host itself is in, innermost last
  posts,     \* the posts Destroy still has to make
  counted,   \* the workers that Destroy found in the pool
  finished,  \* the items whose callback has returned
  dropped    \* the items freed without a call

destroying == <<host, posts, counted>>
vars == <<NumThreads, Terminate, WorkItemQueue, SyncHandle, AbortHandle, pc, wi, inline,
          destroying, finished, dropped>>

TypeOK ==
  /\ NumThreads \in Nat /\ Terminate \in BOOLEAN
  /\ WorkItemQueue \in Seq(Item)
  /\ SyncHandle \in Nat /\ AbortHandle \in Nat
  /\ pc \in [Worker -> {"out", "wait", "woken", "run", "check", "leave", "post", "left"}]
  /\ wi \in [Worker -> Item \cup {NoItem}]
  /\ host \in {"serving", "destroying", "freed"}
  /\ inline \in Seq(Item)
  /\ posts \in Nat /\ counted \in SUBSET Worker
  /\ finished \in SUBSET Item /\ dropped \in SUBSET Item

\* ILibThreadPool_Create.
Init ==
  /\ NumThreads = 0 /\ Terminate = FALSE
  /\ WorkItemQueue = <<>>
  /\ SyncHandle = 0 /\ AbortHandle = 0
  /\ pc = [w \in Worker |-> "out"]
  /\ wi = [w \in Worker |-> NoItem]
  /\ host = "serving" /\ inline = <<>> /\ posts = 0 /\ counted = {}
  /\ finished = {} /\ dropped = {}

At(labels) == {w \in Worker : pc[w] \in labels}

Accepted == {WorkItemQueue[k] : k \in DOMAIN WorkItemQueue}
Started == {wi[w] : w \in At({"run"})} \cup {inline[k] : k \in DOMAIN inline}
Fresh == Item \ (Accepted \cup Started \cup finished \cup dropped)

----------------------------------------------------------------------------
Goto(w, from, to) ==
  /\ pc[w] = from
  /\ host # "freed"
  /\ pc' = [pc EXCEPT ![w] = to]

\* AddThread, up to its loop.
Join(w) ==
  /\ Goto(w, "out", "wait")
  /\ NumThreads' = NumThreads + 1
  /\ UNCHANGED <<Terminate, WorkItemQueue, SyncHandle, AbortHandle, wi, inline, destroying,
                 finished, dropped>>

SemWait(w) ==
  /\ Goto(w, "wait", "woken")
  /\ SyncHandle > 0
  /\ SyncHandle' = SyncHandle - 1
  /\ UNCHANGED <<NumThreads, Terminate, WorkItemQueue, AbortHandle, wi, inline, destroying,
                 finished, dropped>>

\* Mutated form of DeQueue: Terminate is not asked for before the call.
DeQueueRuns(w) ==
  /\ IF WorkItemQueue = <<>>
       THEN Goto(w, "woken", "check") /\ UNCHANGED <<WorkItemQueue, wi>>
       ELSE /\ WorkItemQueue' = Tail(WorkItemQueue)
            /\ Goto(w, "woken", "run")
            /\ wi' = [wi EXCEPT ![w] = Head(WorkItemQueue)]
  /\ UNCHANGED <<NumThreads, Terminate, SyncHandle, AbortHandle, inline, destroying, finished,
                 dropped>>

\* The item at the head of the queue is called, or freed when the pool terminates.
DeQueue(w) ==
  /\ IF WorkItemQueue = <<>>
       THEN Goto(w, "woken", "check") /\ UNCHANGED <<WorkItemQueue, wi, dropped>>
       ELSE /\ WorkItemQueue' = Tail(WorkItemQueue)
            /\ IF Terminate
                 THEN /\ Goto(w, "woken", "check")
                      /\ dropped' = dropped \cup {Head(WorkItemQueue)}
                      /\ UNCHANGED wi
                 ELSE /\ Goto(w, "woken", "run")
                      /\ wi' = [wi EXCEPT ![w] = Head(WorkItemQueue)]
                      /\ UNCHANGED dropped
  /\ UNCHANGED <<NumThreads, Terminate, SyncHandle, AbortHandle, inline, destroying, finished>>

\* The callback returns.
Return(w) ==
  /\ Goto(w, "run", "check")
  /\ finished' = finished \cup {wi[w]}
  /\ wi' = [wi EXCEPT ![w] = NoItem]
  /\ UNCHANGED <<NumThreads, Terminate, WorkItemQueue, SyncHandle, AbortHandle, inline,
                 destroying, dropped>>

\* The second look at Terminate, at the end of the loop.
Check(w) ==
  /\ Goto(w, "check", IF Terminate THEN "leave" ELSE "wait")
  /\ UNCHANGED <<NumThreads, Terminate, WorkItemQueue, SyncHandle, AbortHandle, wi, inline,
                 destroying, finished, dropped>>

\* The last thread out has AbortHandle to post.
Leave(w) ==
  /\ Goto(w, "leave", IF NumThreads = 1 THEN "post" ELSE "left")
  /\ NumThreads' = NumThreads - 1
  /\ UNCHANGED <<Terminate, WorkItemQueue, SyncHandle, AbortHandle, wi, inline, destroying,
                 finished, dropped>>

PostAbort(w) ==
  /\ Goto(w, "post", "left")
  /\ AbortHandle' = AbortHandle + 1
  /\ UNCHANGED <<NumThreads, Terminate, WorkItemQueue, SyncHandle, wi, inline, destroying,
                 finished, dropped>>

----------------------------------------------------------------------------
\* Mutated form of Enqueue: a post for the first item of the queue only.
EnqueuePostsOnce(i) ==
  /\ NumThreads # 0
  /\ WorkItemQueue' = Append(WorkItemQueue, i)
  /\ SyncHandle' = IF WorkItemQueue = <<>> THEN SyncHandle + 1 ELSE SyncHandle
  /\ UNCHANGED inline

\* Mutated form of Enqueue: no post while an item is being run.
EnqueueLeavesToRunning(i) ==
  /\ NumThreads # 0
  /\ WorkItemQueue' = Append(WorkItemQueue, i)
  /\ SyncHandle' = IF At({"run"}) = {} THEN SyncHandle + 1 ELSE SyncHandle
  /\ UNCHANGED inline

\* The two ways of QueueUserWorkItem: the queue, and a call "from here".
Enqueue(i) ==
  /\ NumThreads # 0
  /\ WorkItemQueue' = Append(WorkItemQueue, i)
  /\ SyncHandle' = SyncHandle + 1
  /\ UNCHANGED inline

CallFromHere(i) ==
  /\ NumThreads = 0
  /\ inline' = Append(inline, i)
  /\ UNCHANGED <<WorkItemQueue, SyncHandle>>

\* It is called by the host, also inside of callbacks, and by the callbacks that
\* the workers run; these never find the pool without threads.
QueueUserWorkItem(i) ==
  /\ i \in Fresh
  /\ host = "serving" \/ (host = "destroying" /\ At({"run"}) # {})
  /\ Enqueue(i) \/ CallFromHere(i)
  /\ UNCHANGED <<NumThreads, Terminate, AbortHandle, pc, wi, destroying, finished, dropped>>

\* The innermost callback of the host returns.
ReturnHere ==
  /\ inline # <<>>
  /\ finished' = finished \cup {inline[Len(inline)]}
  /\ inline' = SubSeq(inline, 1, Len(inline) - 1)
  /\ UNCHANGED <<NumThreads, Terminate, WorkItemQueue, SyncHandle, AbortHandle, pc, wi,
                 destroying, dropped>>

----------------------------------------------------------------------------
\* Mutated form of Destroy: one post is made, whatever the count.
DestroyPostsOnce ==
  /\ host = "serving" /\ inline = <<>>
  /\ host' = "destroying"
  /\ Terminate' = TRUE
  /\ posts' = IF NumThreads = 0 THEN 0 ELSE 1
  /\ counted' = At({"wait", "woken", "run", "check"})
  /\ UNCHANGED <<NumThreads, WorkItemQueue, SyncHandle, AbortHandle, pc, wi, inline, finished,
                 dropped>>

\* Destroy, its section.
Destroy ==
  /\ host = "serving" /\ inline = <<>>
  /\ host' = "destroying"
  /\ Terminate' = TRUE
  /\ posts' = NumThreads
  /\ counted' = At({"wait", "woken", "run", "check"})
  /\ UNCHANGED <<NumThreads, WorkItemQueue, SyncHandle, AbortHandle, pc, wi, inline, finished,
                 dropped>>

DestroyPost ==
  /\ host = "destroying" /\ posts > 0
  /\ SyncHandle' = SyncHandle + 1
  /\ posts' = posts - 1
  /\ UNCHANGED <<NumThreads, Terminate, WorkItemQueue, AbortHandle, pc, wi, inline, host,
                 counted, finished, dropped>>

\* Mutated form of DestroyFree: it does not wait for the threads.
DestroyFreeAtOnce ==
  /\ host = "destroying" /\ posts = 0
  /\ host' = "freed"
  /\ UNCHANGED <<NumThreads, Terminate, WorkItemQueue, SyncHandle, AbortHandle, pc, wi, inline,
                 posts, counted, finished, dropped>>

\* The wait for AbortHandle, when there were threads, and the free.
DestroyFree ==
  /\ host = "destroying" /\ posts = 0
  /\ counted # {} => AbortHandle > 0
  /\ host' = "freed"
  /\ AbortHandle' = IF counted = {} THEN AbortHandle ELSE AbortHandle - 1
  /\ UNCHANGED <<NumThreads, Terminate, WorkItemQueue, SyncHandle, pc, wi, inline, posts,
                 counted, finished, dropped>>

----------------------------------------------------------------------------
Work(w) ==
  \/ SemWait(w) \/ DeQueue(w) \/ Return(w) \/ Check(w) \/ Leave(w) \/ PostAbort(w)

Serve == ReturnHere \/ DestroyPost \/ DestroyFree

Next ==
  \/ \E w \in Worker : Join(w) \/ Work(w)
  \/ \E i \in Item : QueueUserWorkItem(i)
  \/ Destroy \/ Serve

Safety == Init /\ [][Next]_vars

\* A thread that can go on does, and callbacks return.  Nobody has to join, to queue
\* or to destroy.
Spec == Safety /\ WF_vars(Serve) /\ \A w \in Worker : WF_vars(Work(w))

----------------------------------------------------------------------------
\* An item is called at most once and never once Terminate is set, and Destroy frees
\* the pool only when no callback of it is running: also the callbacks that a worker
\* took from the queue just before.
Executor == INSTANCE WorkExecutor WITH
  accepted <- Accepted, started <- Started, closed <- Terminate, freed <- (host = "freed")

ImplementsExecutor == Executor!Spec

\* Until the pool terminates there is a post of SyncHandle, or a worker it woke, for
\* every queued item and no more: no item waits for a worker that sleeps, and no
\* worker wakes up to an empty queue.
PostPerItem ==
  ~Terminate => SyncHandle + Cardinality(At({"woken"})) = Len(WorkItemQueue)

\* The threads that joined the pool after Destroy had counted its threads.
Late == IF Terminate THEN Worker \ (counted \cup At({"out"})) ELSE {}

\* When the pool is freed, none of the threads Destroy counted will touch it again:
\* each of them found a post to wake up to.  (With a late thread AbortHandle may be
\* posted a second time; the thread that is still to make that post touches it.)
CountedHaveLeft ==
  host = "freed" => \A w \in counted : pc[w] = "left" \/ (pc[w] = "post" /\ Late # {})

\* A queued item is taken from the queue, unless the pool terminates first.
QueuedIsTaken == \A i \in Item : i \in Accepted ~> i \notin Accepted \/ Terminate

\* Destroy comes to its end, as long as no thread joins the pool behind its back.
DestroyReturns ==
  host = "destroying" ~> host = "freed" \/ Late # {}
=============================================================================
