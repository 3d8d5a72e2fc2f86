--------------------- MODULE ILibReaderWriterLock_proof ---------------------
(***************************************************************************)
(* Proofs about ILibReaderWriterLock, for any finite set of threads.  The  *)
(* counters of the code are compared with the number of threads at certain *)
(* places: CountMove says how one step of one thread changes such a        *)
(* number.                                                                 *)
(***************************************************************************)
EXTENDS ILibReaderWriterLock, FiniteSetTheorems, TLAPS

N(labels) == Cardinality(At(labels))

\* The places of the threads that hold what IInv counts.
BlockedR == {"read_blocked"}
ActiveR == {"read_woken", "read_granted", "reading"}
PendingW == {"write_blocked", "write_woken", "write_granted", "writing"}
BatonW == {"write_woken", "write_granted", "writing", "read_signal", "write_signal"}
Owing == {"reading", "writing", "read_signal", "write_signal", "release", "leaving"}

\* Finitely many threads are at any places; one that is there makes it at least one,
\* and two of them at least two.
LEMMA CountBasics ==
  ASSUME NEW L
  PROVE /\ IsFiniteSet(At(L)) /\ N(L) \in Nat
        /\ N(L) = 0 => At(L) = {}
        /\ \A t \in At(L) : N(L) >= 1
        /\ N(L) <= 1 => \A t, u \in At(L) : t = u
<1>1. At(L) \subseteq Thread
  BY DEF At
<1>2. IsFiniteSet(At(L)) /\ N(L) \in Nat
  BY <1>1, FS_Subset, FS_CardinalityType, LockAssumption DEF N
<1>3. N(L) = 0 <=> At(L) = {}
  BY <1>2, FS_EmptySet DEF N
<1>4. \A t \in At(L) : N(L) >= 1
  BY <1>2, <1>3
<1>5. ASSUME N(L) <= 1, NEW t \in At(L), NEW u \in At(L) PROVE t = u
  <2>1. Cardinality(At(L)) = 1
    BY <1>2, <1>4, <1>5 DEF N
  <2>2. QED
    BY <2>1, <1>2, FS_Singleton
<1>6. QED
  BY <1>2, <1>3, <1>4, <1>5

\* A thread that goes from one place to another changes the number of threads at
\* the places L by one if exactly one of the two is in L.
LEMMA CountMove ==
  ASSUME TypeOK, NEW t \in Thread, NEW from, NEW to, Goto(t, from, to), NEW L
  PROVE /\ N(L) \in Nat /\ N(L)' \in Nat
        /\ from \in L /\ to \in L => N(L)' = N(L)
        /\ from \notin L /\ to \notin L => N(L)' = N(L)
        /\ from \in L /\ to \notin L => N(L) >= 1 /\ N(L)' = N(L) - 1
        /\ from \notin L /\ to \in L => N(L)' = N(L) + 1
<1>0. /\ pc[t] = from /\ pc' = [pc EXCEPT ![t] = to] /\ pc \in [Thread -> Label]
  BY DEF Goto, TypeOK
<1>1. IsFiniteSet(At(L)) /\ N(L) \in Nat
  BY CountBasics
<1>2. CASE (from \in L) = (to \in L)
  <2>1. At(L)' = At(L)
    BY <1>0, <1>2 DEF At
  <2>2. QED
    BY <2>1, <1>1, <1>2 DEF N
<1>3. CASE from \in L /\ to \notin L
  <2>1. At(L)' = At(L) \ {t} /\ t \in At(L)
    BY <1>0, <1>3 DEF At
  <2>2. N(L)' = N(L) - 1
    BY <2>1, <1>1, FS_RemoveElement DEF N
  <2>3. N(L) >= 1
    BY <2>1, CountBasics
  <2>4. QED
    BY <2>2, <2>3, <1>1, <1>3
<1>4. CASE from \notin L /\ to \in L
  <2>1. At(L)' = At(L) \cup {t} /\ t \notin At(L)
    BY <1>0, <1>4 DEF At
  <2>2. QED
    BY <2>1, <1>1, <1>4, FS_AddElement DEF N
<1>5. QED
  BY <1>2, <1>3, <1>4

\* The same when no thread moves.
LEMMA CountStays ==
  ASSUME UNCHANGED pc, NEW L
  PROVE At(L)' = At(L) /\ N(L)' = N(L)
BY DEF At, N

----------------------------------------------------------------------------
LEMMA InitInvariant == Init => IInv
<1> SUFFICES ASSUME Init PROVE IInv
  OBVIOUS
<1>1. TypeOK
  BY DEF Init, TypeOK, Label
<1>2. ASSUME NEW L, "idle" \notin L PROVE At(L) = {}
  BY <1>2 DEF Init, At
<1>3. /\ At({"release"}) = {} /\ At(BlockedR) = {} /\ At(ActiveR) = {} /\ At(PendingW) = {}
      /\ At(BatonW) = {} /\ At(Owing) = {} /\ Readers = {} /\ Writers = {}
  BY <1>2 DEF BlockedR, ActiveR, PendingW, BatonW, Owing, Readers, Writers
<1>4. Cardinality({}) = 0
  BY FS_EmptySet
<1>5. BlockedReadersCounted
  BY <1>3, <1>4 DEF Init, BlockedReadersCounted, BlockedR
<1>6. MutualExclusion
  BY <1>3 DEF MutualExclusion
<1>7. OneBaton /\ ExitLockStable
  BY <1>3, <1>4 DEF Init, OneBaton, ExitLockStable, BatonW, Owing
<1>8. PendingCounted
  BY <1>3, <1>4 DEF Init, PendingCounted, PendingW, BlockedR, ActiveR
<1>9. Places
  BY <1>2 DEF Init, Places
<1>10. QED
  BY <1>1, <1>5, <1>6, <1>7, <1>8, <1>9 DEF IInv

\* IInv in terms of the counts, while the lock is not being destroyed.
LEMMA Counted ==
  ASSUME IInv, ~Exit
  PROVE /\ N(BatonW) + WriteLock = IF ActiveReaders = 0 /\ PendingWriters > 0 THEN 1 ELSE 0
        /\ ExitLock = N(Owing)
        /\ PendingWriters = N(PendingW)
        /\ ActiveReaders + WaitingReaders = N(BlockedR) + N(ActiveR)
        /\ WaitingReaders > 0 => PendingWriters > 0
        /\ At({"release"}) = {} => N(BlockedR) = ReadLock + WaitingReaders
        /\ \A t \in At({"release"}) : N(BlockedR) = ReadLock + WaitingReaders + signals[t]
        /\ N(BlockedR) >= ReadLock + WaitingReaders
        /\ \A t \in Thread : signals[t] > 0 <=> pc[t] = "release"
        /\ \A t, u \in At({"release"}) : t = u
<1>1. /\ N(BatonW) + WriteLock = IF ActiveReaders = 0 /\ PendingWriters > 0 THEN 1 ELSE 0
      /\ ExitLock = N(Owing)
  BY DEF IInv, OneBaton, ExitLockStable, N, BatonW, Owing
<1>2. /\ PendingWriters = N(PendingW)
      /\ ActiveReaders + WaitingReaders = N(BlockedR) + N(ActiveR)
      /\ WaitingReaders > 0 => PendingWriters > 0
  BY DEF IInv, PendingCounted, N, PendingW, BlockedR, ActiveR
<1>3. /\ At({"release"}) = {} => N(BlockedR) = ReadLock + WaitingReaders
      /\ \A t \in At({"release"}) : N(BlockedR) = ReadLock + WaitingReaders + signals[t]
      /\ \A t \in Thread : signals[t] > 0 <=> pc[t] = "release"
      /\ \A t, u \in At({"release"}) : t = u
  BY DEF IInv, BlockedReadersCounted, Places, N, BlockedR
<1>4. N(BlockedR) >= ReadLock + WaitingReaders
  <2>1. At({"release"}) \subseteq Thread
    BY DEF At
  <2>2. \A t \in Thread : signals[t] \in Nat
    BY DEF IInv, TypeOK
  <2>3. ReadLock \in Nat /\ WaitingReaders \in Nat /\ N(BlockedR) \in Nat
    BY CountBasics DEF IInv, TypeOK
  <2>4. QED
    BY <1>3, <2>1, <2>2, <2>3
<1>5. QED
  BY <1>1, <1>2, <1>3, <1>4

\* While the lock is not being destroyed, a thread that was let in as a writer is alone
\* with the baton, and no reader is active.
LEMMA BatonHolder ==
  ASSUME IInv, ~Exit, NEW t \in At(BatonW)
  PROVE /\ ActiveReaders = 0 /\ PendingWriters > 0 /\ WriteLock = 0 /\ N(BatonW) = 1
        /\ \A u \in At(BatonW) : u = t
        /\ At(ActiveR) = {} /\ At({"release"}) = {} /\ ReadLock = 0
        /\ N(BlockedR) = WaitingReaders
<1>0. /\ ActiveReaders \in Nat /\ WaitingReaders \in Nat /\ PendingWriters \in Nat
      /\ ReadLock \in Nat /\ WriteLock \in Nat /\ signals \in [Thread -> Nat]
  BY DEF IInv, TypeOK
<1>1. N(BatonW) \in Nat /\ N(BatonW) >= 1 /\ N(BlockedR) \in Nat /\ N(ActiveR) \in Nat
  BY CountBasics
<1>2. ActiveReaders = 0 /\ PendingWriters > 0 /\ WriteLock = 0 /\ N(BatonW) = 1
  BY Counted, <1>0, <1>1
<1>3. \A u \in At(BatonW) : u = t
  BY <1>2, CountBasics
<1>4. N(ActiveR) = 0 /\ N(BlockedR) = WaitingReaders /\ ReadLock = 0
  BY Counted, <1>0, <1>1, <1>2
<1>5. ASSUME NEW u \in At({"release"}) PROVE FALSE
  <2>1. u \in Thread /\ signals[u] > 0
    BY Counted DEF At
  <2>2. N(BlockedR) = ReadLock + WaitingReaders + signals[u]
    BY Counted
  <2>3. QED
    BY <2>1, <2>2, <1>0, <1>4
<1>6. At(ActiveR) = {}
  BY <1>4, CountBasics
<1>7. QED
  BY <1>2, <1>3, <1>4, <1>5, <1>6

----------------------------------------------------------------------------
\* The parts of IInv that count, in terms of N.
Counts ==
  /\ N(BatonW) + WriteLock = IF ActiveReaders = 0 /\ PendingWriters > 0 THEN 1 ELSE 0
  /\ ExitLock = N(Owing)
  /\ PendingWriters = N(PendingW)
  /\ ActiveReaders + WaitingReaders = N(BlockedR) + N(ActiveR)
  /\ WaitingReaders > 0 => PendingWriters > 0

LEMMA IInvByParts ==
  IInv <=> TypeOK /\ MutualExclusion /\ Places /\ BlockedReadersCounted /\ (~Exit => Counts)
BY DEF IInv, OneBaton, ExitLockStable, PendingCounted, Counts, N, BlockedR, ActiveR, PendingW,
       BatonW, Owing

\* A step between two places outside of the release of readers keeps what is said of
\* blocked readers, if it keeps the balance of their number and their posts.
LEMMA ReleaseKept ==
  ASSUME IInv, ~Exit, NEW t \in Thread, NEW from, NEW to, Goto(t, from, to),
         from # "release", to # "release", UNCHANGED signals,
         ReadLock' \in Nat, WaitingReaders' \in Nat,
         N(BlockedR)' - ReadLock' - WaitingReaders' = N(BlockedR) - ReadLock - WaitingReaders
  PROVE BlockedReadersCounted'
<1>1. At({"release"})' = At({"release"})
  BY DEF IInv, TypeOK, Goto, At
<1>2. N(BlockedR) \in Nat /\ N(BlockedR)' \in Nat
  BY CountMove DEF IInv
<1>3. ReadLock \in Nat /\ WaitingReaders \in Nat /\ signals \in [Thread -> Nat]
  BY DEF IInv, TypeOK
<1>4. At({"release"}) = {} => N(BlockedR)' = ReadLock' + WaitingReaders'
  BY <1>2, <1>3, Counted
<1>5. \A u \in At({"release"}) : N(BlockedR)' = ReadLock' + WaitingReaders' + signals[u]
  <2>1. TAKE u \in At({"release"})
  <2>2. u \in Thread
    BY DEF At
  <2>3. N(BlockedR) = ReadLock + WaitingReaders + signals[u]
    BY Counted
  <2>4. signals[u] \in Nat
    BY <2>2, <1>3
  <2>5. QED
    BY <2>3, <2>4, <1>2, <1>3
<1>6. \A u, v \in At({"release"}) : u = v
  BY Counted
<1>7. QED
  BY <1>1, <1>4, <1>5, <1>6 DEF BlockedReadersCounted, N, BlockedR

\* What the actions of a thread leave alone.
LEMMA ThreadLeaves ==
  ASSUME NEW t \in Thread, Lock(t) \/ Inside(t)
  PROVE UNCHANGED <<Exit, destroyer, waits>>
BY DEF Lock, Inside, ReadLockCall, WriteLockCall, ReadLockWake, WriteLockWake, Result, Return,
       UnLockAborts, ReadUnLock, WriteUnLock, SignalWriter, SignalReader, Leave

\* While the lock is not being destroyed, a thread that reads is counted as active,
\* one that writes as pending, and one that will wait for ExitLock has its post.
LEMMA CountedInside ==
  ASSUME IInv, ~Exit, NEW t \in Thread
  PROVE /\ pc[t] \in ActiveR => ActiveReaders > 0
        /\ pc[t] \in PendingW => PendingWriters > 0
        /\ pc[t] \in Owing => ExitLock > 0
<1>1. /\ N(ActiveR) \in Nat /\ N(PendingW) \in Nat /\ N(Owing) \in Nat /\ N(BlockedR) \in Nat
      /\ ActiveReaders \in Nat /\ WaitingReaders \in Nat /\ ReadLock \in Nat
  BY CountBasics DEF IInv, TypeOK
<1>2. ASSUME NEW L, pc[t] \in L PROVE N(L) >= 1
  BY <1>2, CountBasics DEF At
<1>3. ASSUME pc[t] \in ActiveR PROVE ActiveReaders > 0
  <2>1. N(ActiveR) >= 1
    BY <1>2, <1>3
  <2>2. QED
    BY <2>1, <1>1, Counted
<1>4. ASSUME pc[t] \in PendingW PROVE PendingWriters > 0
  <2>1. N(PendingW) >= 1
    BY <1>2, <1>4
  <2>2. QED
    BY <2>1, <1>1, Counted
<1>5. ASSUME pc[t] \in Owing PROVE ExitLock > 0
  <2>1. N(Owing) >= 1
    BY <1>2, <1>5
  <2>2. QED
    BY <2>1, <1>1, Counted
<1>6. QED
  BY <1>3, <1>4, <1>5

\* The types, action by action.
LEMMA TypeStep == ASSUME IInv, [Next]_vars PROVE TypeOK'
<1>0. TypeOK
  BY DEF IInv
<1>1. ASSUME NEW t \in Thread, Lock(t) PROVE TypeOK'
  BY <1>0, <1>1 DEF TypeOK, Lock, ReadLockCall, WriteLockCall, Goto, Label
<1>2. ASSUME NEW t \in Thread, ReadLockWake(t) \/ WriteLockWake(t) PROVE TypeOK'
  BY <1>0, <1>2 DEF TypeOK, ReadLockWake, WriteLockWake, Goto, Label, counters
<1>3. ASSUME NEW t \in Thread, Result(t) \/ Return(t) \/ UnLockAborts(t) PROVE TypeOK'
  BY <1>0, <1>3 DEF TypeOK, Result, Return, UnLockAborts, Goto, Label, counters
<1>4. ASSUME NEW t \in Thread, ReadUnLock(t) PROVE TypeOK'
  <2>1. ActiveReaders > 0
    BY <1>4, CountedInside DEF ReadUnLock, Goto, ActiveR
  <2>2. ActiveReaders - 1 \in Nat
    BY <2>1, <1>0 DEF TypeOK
  <2>3. QED
    BY <2>2, <1>0, <1>4 DEF TypeOK, ReadUnLock, Goto, Label
<1>5. ASSUME NEW t \in Thread, WriteUnLock(t) PROVE TypeOK'
  <2>1. PendingWriters > 0
    BY <1>5, CountedInside DEF WriteUnLock, Goto, PendingW
  <2>2. PendingWriters - 1 \in Nat
    BY <2>1, <1>0 DEF TypeOK
  <2>3. QED
    BY <2>2, <1>0, <1>5 DEF TypeOK, WriteUnLock, Goto, Label
<1>6. ASSUME NEW t \in Thread, SignalWriter(t) \/ Leave(t) PROVE TypeOK'
  BY <1>0, <1>6 DEF TypeOK, SignalWriter, Leave, Goto, Label, counters
<1>7. ASSUME NEW t \in Thread, SignalReader(t) PROVE TypeOK'
  <2>1. signals[t] > 0 /\ signals[t] \in Nat
    BY <1>7 DEF IInv, Places, TypeOK, SignalReader, Goto
  <2>2. signals[t] - 1 \in Nat
    BY <2>1
  <2>3. QED
    BY <2>2, <1>0, <1>7 DEF TypeOK, SignalReader, Goto, Label, counters
<1>8. CASE Destroy2
  <2>1. /\ PendingWriters > 1 => PendingWriters - 1 \in Nat /\ PendingWriters - (PendingWriters - 1) \in Nat
        /\ PendingWriters - 0 \in Nat
    BY <1>0 DEF TypeOK
  <2>2. QED
    BY <2>1, <1>0, <1>8 DEF TypeOK, Destroy2
<1>9. CASE Destroy2Wait
  BY <1>0, <1>9 DEF TypeOK, Destroy2Wait, counters
<1>10. CASE UNCHANGED vars
  BY <1>0, <1>10 DEF TypeOK, vars, counters
<1>11. QED
  BY <1>1, <1>2, <1>3, <1>4, <1>5, <1>6, <1>7, <1>8, <1>9, <1>10 DEF Next, Inside

\* Who still has readers to signal, and that nobody is denied before Exit.
LEMMA PlacesStep == ASSUME IInv, [Next]_vars PROVE Places'
<1>0. TypeOK /\ Places
  BY DEF IInv
<1>1. ASSUME NEW t \in Thread, Lock(t) \/ ReadLockWake(t) \/ WriteLockWake(t) \/ Result(t)
               \/ Return(t) \/ UnLockAborts(t) \/ ReadUnLock(t) \/ SignalWriter(t) \/ Leave(t)
      PROVE Places'
  <2>1. PICK from, to : /\ Goto(t, from, to) /\ from # "release" /\ to # "release"
                        /\ ~Exit => to # "denied"
                        /\ UNCHANGED <<signals, Exit, destroyer>>
    BY <1>1 DEF Lock, ReadLockCall, WriteLockCall, ReadLockWake, WriteLockWake, Result, Return,
                UnLockAborts, ReadUnLock, SignalWriter, Leave
  <2>2. QED
    BY <2>1, <1>0 DEF Places, TypeOK, Goto, At
<1>2. ASSUME NEW t \in Thread, WriteUnLock(t) PROVE Places'
  BY <1>0, <1>2 DEF Places, TypeOK, Goto, At, WriteUnLock
<1>3. ASSUME NEW t \in Thread, SignalReader(t) PROVE Places'
  BY <1>0, <1>3 DEF Places, TypeOK, Goto, At, SignalReader
<1>4. CASE Destroy2 \/ Destroy2Wait
  BY <1>0, <1>4 DEF Places, At, Destroy2, Destroy2Wait
<1>5. CASE UNCHANGED vars
  BY <1>0, <1>5 DEF Places, At, vars
<1>6. QED
  BY <1>1, <1>2, <1>3, <1>4, <1>5 DEF Next, Inside

\* Only Result lets a thread in, and only while the lock is not being destroyed: as
\* a reader when a reader is active, as a writer when it has the baton.
LEMMA ExclusionStep == ASSUME IInv, [Next]_vars PROVE MutualExclusion'
<1>0. TypeOK /\ MutualExclusion
  BY DEF IInv
<1>1. ASSUME NEW t \in Thread, Lock(t) \/ ReadLockWake(t) \/ WriteLockWake(t) \/ Return(t)
               \/ UnLockAborts(t) \/ ReadUnLock(t) \/ WriteUnLock(t) \/ SignalWriter(t)
               \/ SignalReader(t) \/ Leave(t)
      PROVE MutualExclusion'
  <2>1. PICK from, to :
          /\ Goto(t, from, to)
          /\ to \in {"read_granted", "reading"} => from \in {"read_granted", "reading"}
          /\ to \in {"write_granted", "writing"} => from \in {"write_granted", "writing"}
    BY <1>1 DEF Lock, ReadLockCall, WriteLockCall, ReadLockWake, WriteLockWake, Return,
                UnLockAborts, ReadUnLock, WriteUnLock, SignalWriter, SignalReader, Leave
  <2>2. Readers' \subseteq Readers /\ Writers' \subseteq Writers
    BY <2>1, <1>0 DEF TypeOK, Goto, Readers, Writers, At
  <2>3. QED
    BY <2>2, <1>0 DEF MutualExclusion
<1>2. ASSUME NEW t \in Thread, Result(t), ~Exit PROVE MutualExclusion'
  <2>1. CASE Goto(t, "read_woken", "read_granted")
    <3>1. t \in At(ActiveR)
      BY <2>1 DEF Goto, At, ActiveR
    <3>2. At(BatonW) = {}
      BY <3>1, <1>2, BatonHolder
    <3>3. Writers' = {}
      BY <3>2, <2>1, <1>0 DEF Writers, At, BatonW, Goto, TypeOK
    <3>4. QED
      BY <3>3 DEF MutualExclusion
  <2>2. CASE Goto(t, "write_woken", "write_granted")
    <3>1. t \in At(BatonW)
      BY <2>2 DEF Goto, At, BatonW
    <3>2. At(ActiveR) = {} /\ \A u \in At(BatonW) : u = t
      BY <3>1, <1>2, BatonHolder
    <3>3. Readers' = {}
      BY <3>2, <2>2, <1>0 DEF Readers, At, ActiveR, Goto, TypeOK
    <3>4. \A u \in Writers' : u = t
      BY <3>2, <2>2, <1>0 DEF Writers, At, BatonW, Goto, TypeOK
    <3>5. QED
      BY <3>3, <3>4 DEF MutualExclusion
  <2>3. QED
    BY <2>1, <2>2, <1>2 DEF Result
<1>3. ASSUME NEW t \in Thread, Result(t), Exit PROVE MutualExclusion'
  BY <1>0, <1>3 DEF Result, Goto, TypeOK, MutualExclusion, Readers, Writers, At
<1>4. CASE Destroy2 \/ Destroy2Wait \/ UNCHANGED vars
  BY <1>0, <1>4 DEF Destroy2, Destroy2Wait, vars, MutualExclusion, Readers, Writers, At
<1>5. QED
  BY <1>1, <1>2, <1>3, <1>4 DEF Next, Inside





\* While the lock is not being destroyed, every step of a thread moves it from one
\* place to another and changes the counters and semaphores accordingly.
LEMMA CountStep ==
  ASSUME IInv, ~Exit, NEW t \in Thread, Lock(t) \/ Inside(t)
  PROVE BlockedReadersCounted' /\ Counts'
<1>1. TypeOK /\ Counts /\ Places
  BY IInvByParts
<1>2. /\ N(BatonW) \in Nat /\ N(PendingW) \in Nat /\ N(BlockedR) \in Nat /\ N(ActiveR) \in Nat
      /\ N(Owing) \in Nat
      /\ ReadLock \in Nat /\ WriteLock \in Nat /\ ExitLock \in Nat
      /\ ActiveReaders \in Nat /\ WaitingReaders \in Nat /\ PendingWriters \in Nat
      /\ ReadLock' \in Nat /\ WriteLock' \in Nat /\ ExitLock' \in Nat
      /\ ActiveReaders' \in Nat /\ WaitingReaders' \in Nat /\ PendingWriters' \in Nat
  <2>1. [Next]_vars
    BY DEF Next
  <2>2. TypeOK'
    BY <2>1, TypeStep
  <2>3. QED
    BY <1>1, <2>2, CountBasics DEF TypeOK
<1>3. pc[t] \in ActiveR => ActiveReaders > 0
  BY CountedInside
<1>4. ASSUME ReadLockCall(t), PendingWriters > 0 PROVE BlockedReadersCounted' /\ Counts'
  <2>1. /\ Goto(t, "idle", "read_blocked")
        /\ WaitingReaders' = WaitingReaders + 1 /\ PendingWriters > 0
        /\ UNCHANGED <<ActiveReaders, PendingWriters, ReadLock, WriteLock, ExitLock, signals>>
    BY <1>4, <1>1 DEF ReadLockCall, Goto, TypeOK
  <2>2. /\ N(BatonW)' = N(BatonW) /\ N(PendingW)' = N(PendingW)
        /\ N(BlockedR)' = N(BlockedR) + 1 /\ N(ActiveR)' = N(ActiveR)
        /\ N(Owing)' = N(Owing)
    BY <2>1, <1>1, CountMove DEF BatonW, PendingW, BlockedR, ActiveR, Owing
  <2>3. Counts'
    <3>1. N(BatonW)' + WriteLock' = IF ActiveReaders' = 0 /\ PendingWriters' > 0 THEN 1 ELSE 0
      BY <2>1, <2>2, <1>1, <1>2, <1>3 DEF Counts
    <3>2. ExitLock' = N(Owing)' /\ PendingWriters' = N(PendingW)'
      BY <2>1, <2>2, <1>1, <1>2 DEF Counts
    <3>3. ActiveReaders' + WaitingReaders' = N(BlockedR)' + N(ActiveR)'
      <4>1. ActiveReaders + WaitingReaders = N(BlockedR) + N(ActiveR)
        BY <1>1 DEF Counts
      <4>2. QED
        BY <4>1, <2>1, <2>2, <1>2
    <3>4. WaitingReaders' > 0 => PendingWriters' > 0
      BY <2>1, <1>1, <1>2 DEF Counts
    <3>5. QED
      BY <3>1, <3>2, <3>3, <3>4 DEF Counts
  <2>4. BlockedReadersCounted'
    BY <2>1, <2>2, <1>1, <1>2, ReleaseKept
  <2>5. QED
    BY <2>3, <2>4
<1>5. ASSUME ReadLockCall(t), ~(PendingWriters > 0) PROVE BlockedReadersCounted' /\ Counts'
  <2>1. /\ Goto(t, "idle", "read_woken")
        /\ ActiveReaders' = ActiveReaders + 1 /\ ~(PendingWriters > 0)
        /\ UNCHANGED <<WaitingReaders, PendingWriters, ReadLock, WriteLock, ExitLock, signals>>
    BY <1>5, <1>1 DEF ReadLockCall, Goto, TypeOK
  <2>2. /\ N(BatonW)' = N(BatonW) /\ N(PendingW)' = N(PendingW)
        /\ N(BlockedR)' = N(BlockedR) /\ N(ActiveR)' = N(ActiveR) + 1
        /\ N(Owing)' = N(Owing)
    BY <2>1, <1>1, CountMove DEF BatonW, PendingW, BlockedR, ActiveR, Owing
  <2>3. Counts'
    <3>1. N(BatonW)' + WriteLock' = IF ActiveReaders' = 0 /\ PendingWriters' > 0 THEN 1 ELSE 0
      BY <2>1, <2>2, <1>1, <1>2, <1>3 DEF Counts
    <3>2. ExitLock' = N(Owing)' /\ PendingWriters' = N(PendingW)'
      BY <2>1, <2>2, <1>1, <1>2 DEF Counts
    <3>3. ActiveReaders' + WaitingReaders' = N(BlockedR)' + N(ActiveR)'
      <4>1. ActiveReaders + WaitingReaders = N(BlockedR) + N(ActiveR)
        BY <1>1 DEF Counts
      <4>2. QED
        BY <4>1, <2>1, <2>2, <1>2
    <3>4. WaitingReaders' > 0 => PendingWriters' > 0
      BY <2>1, <1>1, <1>2 DEF Counts
    <3>5. QED
      BY <3>1, <3>2, <3>3, <3>4 DEF Counts
  <2>4. BlockedReadersCounted'
    BY <2>1, <2>2, <1>1, <1>2, ReleaseKept
  <2>5. QED
    BY <2>3, <2>4
<1>6. ASSUME WriteLockCall(t), ActiveReaders > 0 \/ PendingWriters > 0 PROVE BlockedReadersCounted' /\ Counts'
  <2>1. /\ Goto(t, "idle", "write_blocked")
        /\ PendingWriters' = PendingWriters + 1 /\ (ActiveReaders > 0 \/ PendingWriters > 0)
        /\ UNCHANGED <<ActiveReaders, WaitingReaders, ReadLock, WriteLock, ExitLock, signals>>
    BY <1>6, <1>1 DEF WriteLockCall, TypeOK
  <2>2. /\ N(BatonW)' = N(BatonW) /\ N(PendingW)' = N(PendingW) + 1
        /\ N(BlockedR)' = N(BlockedR) /\ N(ActiveR)' = N(ActiveR)
        /\ N(Owing)' = N(Owing)
    BY <2>1, <1>1, CountMove DEF BatonW, PendingW, BlockedR, ActiveR, Owing
  <2>3. Counts'
    <3>1. N(BatonW)' + WriteLock' = IF ActiveReaders' = 0 /\ PendingWriters' > 0 THEN 1 ELSE 0
      BY <2>1, <2>2, <1>1, <1>2, <1>3 DEF Counts
    <3>2. ExitLock' = N(Owing)' /\ PendingWriters' = N(PendingW)'
      BY <2>1, <2>2, <1>1, <1>2 DEF Counts
    <3>3. ActiveReaders' + WaitingReaders' = N(BlockedR)' + N(ActiveR)'
      <4>1. ActiveReaders + WaitingReaders = N(BlockedR) + N(ActiveR)
        BY <1>1 DEF Counts
      <4>2. QED
        BY <4>1, <2>1, <2>2, <1>2
    <3>4. WaitingReaders' > 0 => PendingWriters' > 0
      BY <2>1, <1>1, <1>2 DEF Counts
    <3>5. QED
      BY <3>1, <3>2, <3>3, <3>4 DEF Counts
  <2>4. BlockedReadersCounted'
    BY <2>1, <2>2, <1>1, <1>2, ReleaseKept
  <2>5. QED
    BY <2>3, <2>4
<1>7. ASSUME WriteLockCall(t), ~(ActiveReaders > 0 \/ PendingWriters > 0) PROVE BlockedReadersCounted' /\ Counts'
  <2>1. /\ Goto(t, "idle", "write_woken")
        /\ PendingWriters' = PendingWriters + 1 /\ ActiveReaders = 0 /\ PendingWriters = 0
        /\ UNCHANGED <<ActiveReaders, WaitingReaders, ReadLock, WriteLock, ExitLock, signals>>
    BY <1>7, <1>1 DEF WriteLockCall, TypeOK
  <2>2. /\ N(BatonW)' = N(BatonW) + 1 /\ N(PendingW)' = N(PendingW) + 1
        /\ N(BlockedR)' = N(BlockedR) /\ N(ActiveR)' = N(ActiveR)
        /\ N(Owing)' = N(Owing)
    BY <2>1, <1>1, CountMove DEF BatonW, PendingW, BlockedR, ActiveR, Owing
  <2>3. Counts'
    <3>1. N(BatonW)' + WriteLock' = IF ActiveReaders' = 0 /\ PendingWriters' > 0 THEN 1 ELSE 0
      BY <2>1, <2>2, <1>1, <1>2, <1>3 DEF Counts
    <3>2. ExitLock' = N(Owing)' /\ PendingWriters' = N(PendingW)'
      BY <2>1, <2>2, <1>1, <1>2 DEF Counts
    <3>3. ActiveReaders' + WaitingReaders' = N(BlockedR)' + N(ActiveR)'
      <4>1. ActiveReaders + WaitingReaders = N(BlockedR) + N(ActiveR)
        BY <1>1 DEF Counts
      <4>2. QED
        BY <4>1, <2>1, <2>2, <1>2
    <3>4. WaitingReaders' > 0 => PendingWriters' > 0
      BY <2>1, <1>1, <1>2 DEF Counts
    <3>5. QED
      BY <3>1, <3>2, <3>3, <3>4 DEF Counts
  <2>4. BlockedReadersCounted'
    BY <2>1, <2>2, <1>1, <1>2, ReleaseKept
  <2>5. QED
    BY <2>3, <2>4
<1>8. ASSUME ReadLockWake(t) PROVE BlockedReadersCounted' /\ Counts'
  <2>1. /\ Goto(t, "read_blocked", "read_woken")
        /\ ReadLock > 0 /\ ReadLock' = ReadLock - 1
        /\ UNCHANGED <<ActiveReaders, WaitingReaders, PendingWriters, WriteLock, ExitLock, signals>>
    BY <1>8, <1>1 DEF ReadLockWake, counters
  <2>2. /\ N(BatonW)' = N(BatonW) /\ N(PendingW)' = N(PendingW)
        /\ N(BlockedR)' = N(BlockedR) - 1 /\ N(ActiveR)' = N(ActiveR) + 1
        /\ N(Owing)' = N(Owing)
    BY <2>1, <1>1, CountMove DEF BatonW, PendingW, BlockedR, ActiveR, Owing
  <2>3. Counts'
    <3>1. N(BatonW)' + WriteLock' = IF ActiveReaders' = 0 /\ PendingWriters' > 0 THEN 1 ELSE 0
      BY <2>1, <2>2, <1>1, <1>2, <1>3 DEF Counts
    <3>2. ExitLock' = N(Owing)' /\ PendingWriters' = N(PendingW)'
      BY <2>1, <2>2, <1>1, <1>2 DEF Counts
    <3>3. ActiveReaders' + WaitingReaders' = N(BlockedR)' + N(ActiveR)'
      <4>1. ActiveReaders + WaitingReaders = N(BlockedR) + N(ActiveR)
        BY <1>1 DEF Counts
      <4>2. QED
        BY <4>1, <2>1, <2>2, <1>2
    <3>4. WaitingReaders' > 0 => PendingWriters' > 0
      BY <2>1, <1>1, <1>2 DEF Counts
    <3>5. QED
      BY <3>1, <3>2, <3>3, <3>4 DEF Counts
  <2>4. BlockedReadersCounted'
    BY <2>1, <2>2, <1>1, <1>2, ReleaseKept
  <2>5. QED
    BY <2>3, <2>4
<1>9. ASSUME WriteLockWake(t) PROVE BlockedReadersCounted' /\ Counts'
  <2>1. /\ Goto(t, "write_blocked", "write_woken")
        /\ WriteLock > 0 /\ WriteLock' = WriteLock - 1
        /\ UNCHANGED <<ActiveReaders, WaitingReaders, PendingWriters, ReadLock, ExitLock, signals>>
    BY <1>9, <1>1 DEF WriteLockWake, counters
  <2>2. /\ N(BatonW)' = N(BatonW) + 1 /\ N(PendingW)' = N(PendingW)
        /\ N(BlockedR)' = N(BlockedR) /\ N(ActiveR)' = N(ActiveR)
        /\ N(Owing)' = N(Owing)
    BY <2>1, <1>1, CountMove DEF BatonW, PendingW, BlockedR, ActiveR, Owing
  <2>3. Counts'
    <3>1. N(BatonW)' + WriteLock' = IF ActiveReaders' = 0 /\ PendingWriters' > 0 THEN 1 ELSE 0
      BY <2>1, <2>2, <1>1, <1>2, <1>3 DEF Counts
    <3>2. ExitLock' = N(Owing)' /\ PendingWriters' = N(PendingW)'
      BY <2>1, <2>2, <1>1, <1>2 DEF Counts
    <3>3. ActiveReaders' + WaitingReaders' = N(BlockedR)' + N(ActiveR)'
      <4>1. ActiveReaders + WaitingReaders = N(BlockedR) + N(ActiveR)
        BY <1>1 DEF Counts
      <4>2. QED
        BY <4>1, <2>1, <2>2, <1>2
    <3>4. WaitingReaders' > 0 => PendingWriters' > 0
      BY <2>1, <1>1, <1>2 DEF Counts
    <3>5. QED
      BY <3>1, <3>2, <3>3, <3>4 DEF Counts
  <2>4. BlockedReadersCounted'
    BY <2>1, <2>2, <1>1, <1>2, ReleaseKept
  <2>5. QED
    BY <2>3, <2>4
<1>10. ASSUME Result(t), pc[t] = "read_woken" PROVE BlockedReadersCounted' /\ Counts'
  <2>1. /\ Goto(t, "read_woken", "read_granted")
        /\ TRUE
        /\ UNCHANGED <<ActiveReaders, WaitingReaders, PendingWriters, ReadLock, WriteLock, ExitLock, signals>>
    BY <1>10, <1>1 DEF Result, Goto, counters
  <2>2. /\ N(BatonW)' = N(BatonW) /\ N(PendingW)' = N(PendingW)
        /\ N(BlockedR)' = N(BlockedR) /\ N(ActiveR)' = N(ActiveR)
        /\ N(Owing)' = N(Owing)
    BY <2>1, <1>1, CountMove DEF BatonW, PendingW, BlockedR, ActiveR, Owing
  <2>3. Counts'
    <3>1. N(BatonW)' + WriteLock' = IF ActiveReaders' = 0 /\ PendingWriters' > 0 THEN 1 ELSE 0
      BY <2>1, <2>2, <1>1, <1>2, <1>3 DEF Counts
    <3>2. ExitLock' = N(Owing)' /\ PendingWriters' = N(PendingW)'
      BY <2>1, <2>2, <1>1, <1>2 DEF Counts
    <3>3. ActiveReaders' + WaitingReaders' = N(BlockedR)' + N(ActiveR)'
      <4>1. ActiveReaders + WaitingReaders = N(BlockedR) + N(ActiveR)
        BY <1>1 DEF Counts
      <4>2. QED
        BY <4>1, <2>1, <2>2, <1>2
    <3>4. WaitingReaders' > 0 => PendingWriters' > 0
      BY <2>1, <1>1, <1>2 DEF Counts
    <3>5. QED
      BY <3>1, <3>2, <3>3, <3>4 DEF Counts
  <2>4. BlockedReadersCounted'
    BY <2>1, <2>2, <1>1, <1>2, ReleaseKept
  <2>5. QED
    BY <2>3, <2>4
<1>11. ASSUME Result(t), pc[t] = "write_woken" PROVE BlockedReadersCounted' /\ Counts'
  <2>1. /\ Goto(t, "write_woken", "write_granted")
        /\ TRUE
        /\ UNCHANGED <<ActiveReaders, WaitingReaders, PendingWriters, ReadLock, WriteLock, ExitLock, signals>>
    BY <1>11, <1>1 DEF Result, Goto, counters
  <2>2. /\ N(BatonW)' = N(BatonW) /\ N(PendingW)' = N(PendingW)
        /\ N(BlockedR)' = N(BlockedR) /\ N(ActiveR)' = N(ActiveR)
        /\ N(Owing)' = N(Owing)
    BY <2>1, <1>1, CountMove DEF BatonW, PendingW, BlockedR, ActiveR, Owing
  <2>3. Counts'
    <3>1. N(BatonW)' + WriteLock' = IF ActiveReaders' = 0 /\ PendingWriters' > 0 THEN 1 ELSE 0
      BY <2>1, <2>2, <1>1, <1>2, <1>3 DEF Counts
    <3>2. ExitLock' = N(Owing)' /\ PendingWriters' = N(PendingW)'
      BY <2>1, <2>2, <1>1, <1>2 DEF Counts
    <3>3. ActiveReaders' + WaitingReaders' = N(BlockedR)' + N(ActiveR)'
      <4>1. ActiveReaders + WaitingReaders = N(BlockedR) + N(ActiveR)
        BY <1>1 DEF Counts
      <4>2. QED
        BY <4>1, <2>1, <2>2, <1>2
    <3>4. WaitingReaders' > 0 => PendingWriters' > 0
      BY <2>1, <1>1, <1>2 DEF Counts
    <3>5. QED
      BY <3>1, <3>2, <3>3, <3>4 DEF Counts
  <2>4. BlockedReadersCounted'
    BY <2>1, <2>2, <1>1, <1>2, ReleaseKept
  <2>5. QED
    BY <2>3, <2>4
<1>12. ASSUME Return(t), pc[t] = "read_granted" PROVE BlockedReadersCounted' /\ Counts'
  <2>1. /\ Goto(t, "read_granted", "reading")
        /\ ExitLock' = ExitLock + 1
        /\ UNCHANGED <<ActiveReaders, WaitingReaders, PendingWriters, ReadLock, WriteLock, signals>>
    BY <1>12, <1>1 DEF Return, Goto, counters
  <2>2. /\ N(BatonW)' = N(BatonW) /\ N(PendingW)' = N(PendingW)
        /\ N(BlockedR)' = N(BlockedR) /\ N(ActiveR)' = N(ActiveR)
        /\ N(Owing)' = N(Owing) + 1
    BY <2>1, <1>1, CountMove DEF BatonW, PendingW, BlockedR, ActiveR, Owing
  <2>3. Counts'
    <3>1. N(BatonW)' + WriteLock' = IF ActiveReaders' = 0 /\ PendingWriters' > 0 THEN 1 ELSE 0
      BY <2>1, <2>2, <1>1, <1>2, <1>3 DEF Counts
    <3>2. ExitLock' = N(Owing)' /\ PendingWriters' = N(PendingW)'
      BY <2>1, <2>2, <1>1, <1>2 DEF Counts
    <3>3. ActiveReaders' + WaitingReaders' = N(BlockedR)' + N(ActiveR)'
      <4>1. ActiveReaders + WaitingReaders = N(BlockedR) + N(ActiveR)
        BY <1>1 DEF Counts
      <4>2. QED
        BY <4>1, <2>1, <2>2, <1>2
    <3>4. WaitingReaders' > 0 => PendingWriters' > 0
      BY <2>1, <1>1, <1>2 DEF Counts
    <3>5. QED
      BY <3>1, <3>2, <3>3, <3>4 DEF Counts
  <2>4. BlockedReadersCounted'
    BY <2>1, <2>2, <1>1, <1>2, ReleaseKept
  <2>5. QED
    BY <2>3, <2>4
<1>13. ASSUME Return(t), pc[t] = "write_granted" PROVE BlockedReadersCounted' /\ Counts'
  <2>1. /\ Goto(t, "write_granted", "writing")
        /\ ExitLock' = ExitLock + 1
        /\ UNCHANGED <<ActiveReaders, WaitingReaders, PendingWriters, ReadLock, WriteLock, signals>>
    BY <1>13, <1>1 DEF Return, Goto, counters
  <2>2. /\ N(BatonW)' = N(BatonW) /\ N(PendingW)' = N(PendingW)
        /\ N(BlockedR)' = N(BlockedR) /\ N(ActiveR)' = N(ActiveR)
        /\ N(Owing)' = N(Owing) + 1
    BY <2>1, <1>1, CountMove DEF BatonW, PendingW, BlockedR, ActiveR, Owing
  <2>3. Counts'
    <3>1. N(BatonW)' + WriteLock' = IF ActiveReaders' = 0 /\ PendingWriters' > 0 THEN 1 ELSE 0
      BY <2>1, <2>2, <1>1, <1>2, <1>3 DEF Counts
    <3>2. ExitLock' = N(Owing)' /\ PendingWriters' = N(PendingW)'
      BY <2>1, <2>2, <1>1, <1>2 DEF Counts
    <3>3. ActiveReaders' + WaitingReaders' = N(BlockedR)' + N(ActiveR)'
      <4>1. ActiveReaders + WaitingReaders = N(BlockedR) + N(ActiveR)
        BY <1>1 DEF Counts
      <4>2. QED
        BY <4>1, <2>1, <2>2, <1>2
    <3>4. WaitingReaders' > 0 => PendingWriters' > 0
      BY <2>1, <1>1, <1>2 DEF Counts
    <3>5. QED
      BY <3>1, <3>2, <3>3, <3>4 DEF Counts
  <2>4. BlockedReadersCounted'
    BY <2>1, <2>2, <1>1, <1>2, ReleaseKept
  <2>5. QED
    BY <2>3, <2>4
<1>14. ASSUME ReadUnLock(t), ActiveReaders = 1 /\ PendingWriters > 0 PROVE BlockedReadersCounted' /\ Counts'
  <2>1. /\ Goto(t, "reading", "read_signal")
        /\ ActiveReaders' = 0 /\ ActiveReaders = 1 /\ PendingWriters > 0
        /\ UNCHANGED <<WaitingReaders, PendingWriters, ReadLock, WriteLock, ExitLock, signals>>
    BY <1>14, <1>1 DEF ReadUnLock, Goto, TypeOK
  <2>2. /\ N(BatonW)' = N(BatonW) + 1 /\ N(PendingW)' = N(PendingW)
        /\ N(BlockedR)' = N(BlockedR) /\ N(ActiveR)' = N(ActiveR) - 1
        /\ N(Owing)' = N(Owing)
    BY <2>1, <1>1, CountMove DEF BatonW, PendingW, BlockedR, ActiveR, Owing
  <2>3. Counts'
    <3>1. N(BatonW)' + WriteLock' = IF ActiveReaders' = 0 /\ PendingWriters' > 0 THEN 1 ELSE 0
      BY <2>1, <2>2, <1>1, <1>2, <1>3 DEF Counts
    <3>2. ExitLock' = N(Owing)' /\ PendingWriters' = N(PendingW)'
      BY <2>1, <2>2, <1>1, <1>2 DEF Counts
    <3>3. ActiveReaders' + WaitingReaders' = N(BlockedR)' + N(ActiveR)'
      <4>1. ActiveReaders + WaitingReaders = N(BlockedR) + N(ActiveR)
        BY <1>1 DEF Counts
      <4>2. QED
        BY <4>1, <2>1, <2>2, <1>2
    <3>4. WaitingReaders' > 0 => PendingWriters' > 0
      BY <2>1, <1>1, <1>2 DEF Counts
    <3>5. QED
      BY <3>1, <3>2, <3>3, <3>4 DEF Counts
  <2>4. BlockedReadersCounted'
    BY <2>1, <2>2, <1>1, <1>2, ReleaseKept
  <2>5. QED
    BY <2>3, <2>4
<1>15. ASSUME ReadUnLock(t), ~(ActiveReaders = 1 /\ PendingWriters > 0) PROVE BlockedReadersCounted' /\ Counts'
  <2>1. /\ Goto(t, "reading", "leaving")
        /\ ActiveReaders' = ActiveReaders - 1 /\ ~(ActiveReaders = 1 /\ PendingWriters > 0)
        /\ UNCHANGED <<WaitingReaders, PendingWriters, ReadLock, WriteLock, ExitLock, signals>>
    BY <1>15, <1>1 DEF ReadUnLock, Goto, TypeOK
  <2>2. /\ N(BatonW)' = N(BatonW) /\ N(PendingW)' = N(PendingW)
        /\ N(BlockedR)' = N(BlockedR) /\ N(ActiveR)' = N(ActiveR) - 1
        /\ N(Owing)' = N(Owing)
    BY <2>1, <1>1, CountMove DEF BatonW, PendingW, BlockedR, ActiveR, Owing
  <2>3. Counts'
    <3>1. N(BatonW)' + WriteLock' = IF ActiveReaders' = 0 /\ PendingWriters' > 0 THEN 1 ELSE 0
      BY <2>1, <2>2, <1>1, <1>2, <1>3 DEF Counts
    <3>2. ExitLock' = N(Owing)' /\ PendingWriters' = N(PendingW)'
      BY <2>1, <2>2, <1>1, <1>2 DEF Counts
    <3>3. ActiveReaders' + WaitingReaders' = N(BlockedR)' + N(ActiveR)'
      <4>1. ActiveReaders + WaitingReaders = N(BlockedR) + N(ActiveR)
        BY <1>1 DEF Counts
      <4>2. QED
        BY <4>1, <2>1, <2>2, <1>2
    <3>4. WaitingReaders' > 0 => PendingWriters' > 0
      BY <2>1, <1>1, <1>2 DEF Counts
    <3>5. QED
      BY <3>1, <3>2, <3>3, <3>4 DEF Counts
  <2>4. BlockedReadersCounted'
    BY <2>1, <2>2, <1>1, <1>2, ReleaseKept
  <2>5. QED
    BY <2>3, <2>4
<1>16. ASSUME WriteUnLock(t), PendingWriters > 1 PROVE BlockedReadersCounted' /\ Counts'
  <2>1. /\ Goto(t, "writing", "write_signal")
        /\ PendingWriters' = PendingWriters - 1 /\ PendingWriters > 1
        /\ UNCHANGED <<ActiveReaders, WaitingReaders, ReadLock, WriteLock, ExitLock, signals>>
    BY <1>16, <1>1 DEF WriteUnLock, Goto, TypeOK
  <2>2. /\ N(BatonW)' = N(BatonW) /\ N(PendingW)' = N(PendingW) - 1
        /\ N(BlockedR)' = N(BlockedR) /\ N(ActiveR)' = N(ActiveR)
        /\ N(Owing)' = N(Owing)
    BY <2>1, <1>1, CountMove DEF BatonW, PendingW, BlockedR, ActiveR, Owing
  <2>3. Counts'
    <3>1. N(BatonW)' + WriteLock' = IF ActiveReaders' = 0 /\ PendingWriters' > 0 THEN 1 ELSE 0
      BY <2>1, <2>2, <1>1, <1>2, <1>3 DEF Counts
    <3>2. ExitLock' = N(Owing)' /\ PendingWriters' = N(PendingW)'
      BY <2>1, <2>2, <1>1, <1>2 DEF Counts
    <3>3. ActiveReaders' + WaitingReaders' = N(BlockedR)' + N(ActiveR)'
      <4>1. ActiveReaders + WaitingReaders = N(BlockedR) + N(ActiveR)
        BY <1>1 DEF Counts
      <4>2. QED
        BY <4>1, <2>1, <2>2, <1>2
    <3>4. WaitingReaders' > 0 => PendingWriters' > 0
      BY <2>1, <1>1, <1>2 DEF Counts
    <3>5. QED
      BY <3>1, <3>2, <3>3, <3>4 DEF Counts
  <2>4. BlockedReadersCounted'
    BY <2>1, <2>2, <1>1, <1>2, ReleaseKept
  <2>5. QED
    BY <2>3, <2>4
<1>17. ASSUME WriteUnLock(t), ~(PendingWriters > 1) PROVE BlockedReadersCounted' /\ Counts'
  <2>0. t \in At(BatonW) /\ t \in At(PendingW)
    BY <1>17 DEF WriteUnLock, Goto, At, BatonW, PendingW
  <2>1. /\ PendingWriters = 1 /\ PendingWriters' = 0
        /\ ActiveReaders = 0 /\ ActiveReaders' = WaitingReaders /\ WaitingReaders' = 0
        /\ UNCHANGED <<ReadLock, WriteLock, ExitLock>>
    BY <1>17, <1>2, <2>0, BatonHolder DEF WriteUnLock
  <2>2. Goto(t, "writing", IF WaitingReaders > 0 THEN "release" ELSE "leaving")
    BY <1>17, <1>2 DEF WriteUnLock
  <2>3. /\ N(BatonW)' = N(BatonW) - 1 /\ N(PendingW)' = N(PendingW) - 1
        /\ N(BlockedR)' = N(BlockedR) /\ N(ActiveR)' = N(ActiveR)
        /\ N(Owing)' = N(Owing)
    <3>1. CASE WaitingReaders > 0
      BY <2>2, <3>1, <1>1, CountMove DEF BatonW, PendingW, BlockedR, ActiveR, Owing
    <3>2. CASE ~(WaitingReaders > 0)
      BY <2>2, <3>2, <1>1, CountMove DEF BatonW, PendingW, BlockedR, ActiveR, Owing
    <3>3. QED
      BY <3>1, <3>2
  <2>4. Counts'
    BY <2>1, <2>3, <1>1, <1>2 DEF Counts
  <2>5. BlockedReadersCounted'
    <3>1. At({"release"}) = {} /\ ReadLock = 0 /\ N(BlockedR) = WaitingReaders
      BY <2>0, BatonHolder
    <3>2. CASE WaitingReaders > 0
      <4>1. At({"release"})' = {t} /\ signals'[t] = WaitingReaders
        BY <3>1, <3>2, <2>2, <1>17, <1>1 DEF At, Goto, TypeOK, WriteUnLock
      <4>2. QED
        BY <4>1, <3>1, <2>1, <2>3, <1>2 DEF BlockedReadersCounted, N, BlockedR
    <3>3. CASE ~(WaitingReaders > 0)
      <4>1. At({"release"})' = {}
        BY <3>1, <3>3, <2>2, <1>1 DEF At, Goto, TypeOK
      <4>2. QED
        BY <4>1, <3>1, <3>3, <2>1, <2>3, <1>2 DEF BlockedReadersCounted, N, BlockedR
    <3>4. QED
      BY <3>2, <3>3
  <2>6. QED
    BY <2>4, <2>5
<1>18. ASSUME SignalWriter(t) PROVE BlockedReadersCounted' /\ Counts'
  <2>1. PICK from \in {"read_signal", "write_signal"} : Goto(t, from, "leaving")
    BY <1>18 DEF SignalWriter
  <2>2. /\ WriteLock' = WriteLock + 1
        /\ UNCHANGED <<ActiveReaders, WaitingReaders, PendingWriters, ReadLock, ExitLock, signals>>
    BY <1>18 DEF SignalWriter, counters
  <2>3. /\ N(BatonW)' = N(BatonW) - 1 /\ N(PendingW)' = N(PendingW)
        /\ N(BlockedR)' = N(BlockedR) /\ N(ActiveR)' = N(ActiveR)
        /\ N(Owing)' = N(Owing)
    BY <2>1, <1>1, CountMove DEF BatonW, PendingW, BlockedR, ActiveR, Owing
  <2>4. Counts'
    BY <2>2, <2>3, <1>1, <1>2 DEF Counts
  <2>5. BlockedReadersCounted'
    BY <2>1, <2>2, <2>3, <1>1, <1>2, ReleaseKept
  <2>6. QED
    BY <2>4, <2>5
<1>19. ASSUME SignalReader(t) PROVE BlockedReadersCounted' /\ Counts'
  <2>0. /\ pc[t] = "release" /\ t \in At({"release"}) /\ signals[t] > 0 /\ signals[t] \in Nat
        /\ ReadLock' = ReadLock + 1 /\ signals' = [signals EXCEPT ![t] = @ - 1]
        /\ UNCHANGED <<ActiveReaders, WaitingReaders, PendingWriters, WriteLock, ExitLock>>
    BY <1>19, <1>1 DEF SignalReader, Goto, At, Places, TypeOK, counters
  <2>1. N(BlockedR) = ReadLock + WaitingReaders + signals[t] /\ \A u \in At({"release"}) : u = t
    BY <2>0, Counted
  <2>2. CASE signals[t] = 1
    <3>1. Goto(t, "release", "leaving")
      BY <1>19, <2>2 DEF SignalReader
    <3>2. /\ N(BatonW)' = N(BatonW) /\ N(PendingW)' = N(PendingW)
          /\ N(BlockedR)' = N(BlockedR) /\ N(ActiveR)' = N(ActiveR)
          /\ N(Owing)' = N(Owing)
      BY <3>1, <1>1, CountMove DEF BatonW, PendingW, BlockedR, ActiveR, Owing
    <3>3. At({"release"})' = {}
      BY <3>1, <2>1, <1>1 DEF At, Goto, TypeOK
    <3>4. N(BlockedR)' = ReadLock' + WaitingReaders'
      BY <3>2, <2>0, <2>1, <2>2, <1>2
    <3>5. BlockedReadersCounted'
      BY <3>3, <3>4 DEF BlockedReadersCounted, N, BlockedR
    <3>6. Counts'
      BY <3>2, <2>0, <1>1, <1>2 DEF Counts
    <3>7. QED
      BY <3>5, <3>6
  <2>3. CASE signals[t] # 1
    <3>1. UNCHANGED pc
      BY <1>19, <2>0, <2>3, <1>1 DEF SignalReader, Goto, TypeOK
    <3>2. /\ N(BatonW)' = N(BatonW) /\ N(PendingW)' = N(PendingW)
          /\ N(BlockedR)' = N(BlockedR) /\ N(ActiveR)' = N(ActiveR)
          /\ N(Owing)' = N(Owing) /\ At({"release"})' = At({"release"})
      BY <3>1, CountStays
    <3>3. signals'[t] = signals[t] - 1
      BY <2>0, <1>1 DEF TypeOK
    <3>4. N(BlockedR)' = ReadLock' + WaitingReaders' + signals'[t]
      BY <3>2, <3>3, <2>0, <2>1, <1>2
    <3>5. BlockedReadersCounted'
      BY <3>2, <3>4, <2>0, <2>1 DEF BlockedReadersCounted, N, BlockedR
    <3>6. Counts'
      BY <3>2, <2>0, <1>1, <1>2 DEF Counts
    <3>7. QED
      BY <3>5, <3>6
  <2>4. QED
    BY <2>2, <2>3
<1>20. ASSUME Leave(t) PROVE BlockedReadersCounted' /\ Counts'
  <2>1. /\ Goto(t, "leaving", "idle")
        /\ ExitLock > 0 /\ ExitLock' = ExitLock - 1
        /\ UNCHANGED <<ActiveReaders, WaitingReaders, PendingWriters, ReadLock, WriteLock, signals>>
    BY <1>20 DEF Leave, counters
  <2>2. /\ N(BatonW)' = N(BatonW) /\ N(PendingW)' = N(PendingW)
        /\ N(BlockedR)' = N(BlockedR) /\ N(ActiveR)' = N(ActiveR)
        /\ N(Owing)' = N(Owing) - 1
    BY <2>1, <1>1, CountMove DEF BatonW, PendingW, BlockedR, ActiveR, Owing
  <2>3. Counts'
    BY <2>1, <2>2, <1>1, <1>2 DEF Counts
  <2>4. BlockedReadersCounted'
    BY <2>1, <2>2, <1>1, <1>2, ReleaseKept
  <2>5. QED
    BY <2>3, <2>4
<1>21. ~UnLockAborts(t) /\ pc[t] # "denied"
  BY <1>1 DEF Places, UnLockAborts, At
<1>22. QED
  <2>1. CASE Lock(t)
    BY <2>1, <1>4, <1>5, <1>6, <1>7 DEF Lock
  <2>2. CASE Inside(t)
    BY <2>2, <1>8, <1>9, <1>10, <1>11, <1>12, <1>13, <1>14, <1>15, <1>16, <1>17, <1>18,
       <1>19, <1>20, <1>21 DEF Inside, Result, Return, Goto
  <2>3. QED
    BY <2>1, <2>2

LEMMA InvariantStep == IInv /\ [Next]_vars => IInv'
<1> SUFFICES ASSUME IInv, [Next]_vars PROVE IInv'
  OBVIOUS
<1>1. TypeOK' /\ Places' /\ MutualExclusion'
  BY TypeStep, PlacesStep, ExclusionStep
<1>2. ASSUME ~Exit' PROVE BlockedReadersCounted' /\ Counts'
  <2>1. CASE \E t \in Thread : Lock(t) \/ Inside(t)
    BY <1>2, <2>1, ThreadLeaves, CountStep
  <2>2. ~Destroy2 /\ ~Destroy2Wait
    BY <1>2 DEF Destroy2, Destroy2Wait, IInv, Places
  <2>3. CASE UNCHANGED vars
    <3>1. Counts /\ BlockedReadersCounted /\ UNCHANGED pc /\ ~Exit
      BY <1>2, <2>3, IInvByParts DEF vars
    <3>2. Counts'
      BY <3>1, <2>3, CountStays DEF Counts, vars, counters
    <3>3. BlockedReadersCounted'
      BY <3>1, <2>3 DEF BlockedReadersCounted, At, vars, counters
    <3>4. QED
      BY <3>2, <3>3
  <2>4. QED
    BY <2>1, <2>2, <2>3 DEF Next
<1>3. Exit' => BlockedReadersCounted'
  BY DEF BlockedReadersCounted
<1>4. QED
  BY <1>1, <1>2, <1>3, IInvByParts, PTL

----------------------------------------------------------------------------
\* Every step lets one thread in, lets one out, closes the lock, or changes nothing
\* that its users see.
LEMMA UsersStep == ASSUME IInv, [Next]_vars PROVE [LockUsers!Next]_LockUsers!vars
<1>0. TypeOK
  BY DEF IInv
<1>1. ASSUME NEW t \in Thread, Result(t), ~Exit PROVE LockUsers!Next
  <2>0. Exit' = Exit
    BY <1>1 DEF Result
  <2>1. CASE Goto(t, "read_woken", "read_granted")
    <3>1. t \in At(ActiveR)
      BY <2>1 DEF Goto, At, ActiveR
    <3>2. At(BatonW) = {}
      BY <3>1, <1>1, BatonHolder
    <3>3. Writers = {} /\ Writers' = {}
      BY <3>2, <2>1, <1>0 DEF Writers, At, BatonW, Goto, TypeOK
    <3>4. t \notin Readers /\ Readers' = Readers \cup {t}
      BY <2>1, <1>0 DEF Readers, At, Goto, TypeOK
    <3>5. QED
      BY <3>3, <3>4, <2>0, <1>1 DEF LockUsers!Next, LockUsers!EnterReader
  <2>2. CASE Goto(t, "write_woken", "write_granted")
    <3>1. t \in At(BatonW)
      BY <2>2 DEF Goto, At, BatonW
    <3>2. At(ActiveR) = {} /\ \A u \in At(BatonW) : u = t
      BY <3>1, <1>1, BatonHolder
    <3>3. Readers = {} /\ Readers' = {}
      BY <3>2, <2>2, <1>0 DEF Readers, At, ActiveR, Goto, TypeOK
    <3>4. Writers = {} /\ Writers' = {t}
      BY <3>2, <2>2, <1>0 DEF Writers, At, BatonW, Goto, TypeOK
    <3>5. QED
      BY <3>3, <3>4, <2>0, <1>1 DEF LockUsers!Next, LockUsers!EnterWriter
  <2>3. QED
    BY <2>1, <2>2, <1>1 DEF Result
<1>2. ASSUME NEW t \in Thread, Lock(t) \/ ReadLockWake(t) \/ WriteLockWake(t) \/ Return(t)
               \/ SignalWriter(t) \/ SignalReader(t) \/ Leave(t) \/ (Result(t) /\ Exit)
      PROVE UNCHANGED LockUsers!vars
  <2>1. PICK from, to :
          /\ Goto(t, from, to)
          /\ to \in {"read_granted", "reading"} <=> from \in {"read_granted", "reading"}
          /\ to \in {"write_granted", "writing"} <=> from \in {"write_granted", "writing"}
    BY <1>2 DEF Lock, ReadLockCall, WriteLockCall, ReadLockWake, WriteLockWake, Result, Return,
                SignalWriter, SignalReader, Leave
  <2>2. Readers' = Readers /\ Writers' = Writers
    BY <2>1, <1>0 DEF TypeOK, Goto, Readers, Writers, At
  <2>3. Exit' = Exit
    BY <1>2, ThreadLeaves DEF Inside
  <2>4. QED
    BY <2>2, <2>3 DEF LockUsers!vars
<1>3. ASSUME NEW t \in Thread, UnLockAborts(t) \/ ReadUnLock(t) \/ WriteUnLock(t)
      PROVE LockUsers!Next
  <2>1. PICK from \in {"reading", "writing"}, to \in {"idle", "leaving", "release", "read_signal", "write_signal"} :
          Goto(t, from, to)
    BY <1>3 DEF UnLockAborts, ReadUnLock, WriteUnLock
  <2>2. /\ t \in Readers \cup Writers
        /\ Readers' = Readers \ {t} /\ Writers' = Writers \ {t}
    BY <2>1, <1>0 DEF TypeOK, Goto, Readers, Writers, At
  <2>3. Exit' = Exit
    BY <1>3, ThreadLeaves DEF Inside
  <2>4. QED
    BY <2>2, <2>3 DEF LockUsers!Next, LockUsers!Leave
<1>4. CASE Destroy2
  BY <1>4 DEF Destroy2, IInv, Places, Readers, Writers, At, LockUsers!Next, LockUsers!Close
<1>5. CASE Destroy2Wait \/ UNCHANGED vars
  BY <1>5 DEF Destroy2Wait, vars, Readers, Writers, At, LockUsers!vars
<1>6. QED
  BY <1>1, <1>2, <1>3, <1>4, <1>5 DEF Next, Inside

----------------------------------------------------------------------------
\* The inductive invariant.
THEOREM InvariantCorrect == Safety => []IInv
BY InitInvariant, InvariantStep, PTL DEF Safety

\* The variables keep their types: no counter of the lock goes below zero.
THEOREM TypeCorrect == Safety => []TypeOK
BY InvariantCorrect, PTL DEF IInv

\* Writers exclude each other and all readers, with any number of threads.
THEOREM Exclusive == Safety => []MutualExclusion
BY InvariantCorrect, PTL DEF IInv

\* The right to write is neither doubled nor lost while the lock is in use.
THEOREM BatonNeverDoubled == Safety => []OneBaton
BY InvariantCorrect, PTL DEF IInv

\* ExitLock has a post for each thread that will take one, while the lock is in use.
THEOREM ExitLockAlwaysStable == Safety => []ExitLockStable
BY InvariantCorrect, PTL DEF IInv

\* The lock implements the reader-writer lock its users see, destruction included.
THEOREM ReaderWriterImplemented == Safety => ImplementsReaderWriter
<1>1. Init => LockUsers!Init
  BY DEF Init, LockUsers!Init, Readers, Writers, At
<1>2. IInv /\ [Next]_vars => [LockUsers!Next]_LockUsers!vars
  BY UsersStep
<1>3. QED
  BY <1>1, <1>2, InvariantCorrect, PTL DEF Safety, ImplementsReaderWriter, LockUsers!Spec
=============================================================================
