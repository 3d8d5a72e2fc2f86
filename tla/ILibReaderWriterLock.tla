------------------------ MODULE ILibReaderWriterLock ------------------------
(***************************************************************************)
(* The reader-writer lock of the C microstack (ILibParsers.c): three       *)
(* counters under a semaphore, and three more semaphores on which blocked  *)
(* readers, blocked writers and the destroying thread wait.                *)
(*                                                                         *)
(* A section under CounterLock is one action; every sem_wait, sem_post and *)
(* every read of Exit outside of a section is an action of its own.        *)
(* Behaviours are followed up to the end of Destroy2, after which the      *)
(* semaphores are no more.                                                 *)
(***************************************************************************)
EXTENDS Naturals, FiniteSets

CONSTANT Thread

ASSUME LockAssumption == IsFiniteSet(Thread)

VARIABLES
  pc,               \* where each thread is
  ActiveReaders, WaitingReaders, PendingWriters, Exit,
  ReadLock, WriteLock, ExitLock,    \* the values of the semaphores
  signals,          \* by thread: the blocked readers it still has to signal
  destroyer,        \* where the destroying thread is
  waits             \* how often it still has to wait for ExitLock

counters == <<ActiveReaders, WaitingReaders, PendingWriters>>
vars == <<pc, counters, Exit, ReadLock, WriteLock, ExitLock, signals, destroyer, waits>>

Label == {"idle", "read_blocked", "read_woken", "read_granted", "reading", "read_signal",
          "write_blocked", "write_woken", "write_granted", "writing", "write_signal",
          "release", "denied", "leaving"}

TypeOK ==
  /\ pc \in [Thread -> Label]
  /\ ActiveReaders \in Nat /\ WaitingReaders \in Nat /\ PendingWriters \in Nat
  /\ Exit \in BOOLEAN
  /\ ReadLock \in Nat /\ WriteLock \in Nat /\ ExitLock \in Nat
  /\ signals \in [Thread -> Nat]
  /\ destroyer \in {"none", "waiting", "done"}
  /\ waits \in Nat

Init ==
  /\ pc = [t \in Thread |-> "idle"]
  /\ ActiveReaders = 0 /\ WaitingReaders = 0 /\ PendingWriters = 0 /\ Exit = FALSE
  /\ ReadLock = 0 /\ WriteLock = 0 /\ ExitLock = 0
  /\ signals = [t \in Thread |-> 0]
  /\ destroyer = "none" /\ waits = 0

----------------------------------------------------------------------------
Goto(t, from, to) ==
  /\ pc[t] = from
  /\ destroyer # "done"
  /\ pc' = [pc EXCEPT ![t] = to]

At(labels) == {t \in Thread : pc[t] \in labels}

\* ReadLock, its section.  A call that finds Exit set returns at once.
ReadLockCall(t) ==
  /\ ~Exit
  /\ IF PendingWriters > 0
       THEN /\ Goto(t, "idle", "read_blocked")
            /\ WaitingReaders' = WaitingReaders + 1
            /\ UNCHANGED ActiveReaders
       ELSE /\ Goto(t, "idle", "read_woken")
            /\ ActiveReaders' = ActiveReaders + 1
            /\ UNCHANGED WaitingReaders
  /\ UNCHANGED <<PendingWriters, Exit, ReadLock, WriteLock, ExitLock, signals, destroyer, waits>>

\* Its sem_wait.
ReadLockWake(t) ==
  /\ Goto(t, "read_blocked", "read_woken")
  /\ ReadLock > 0
  /\ ReadLock' = ReadLock - 1
  /\ UNCHANGED <<counters, Exit, WriteLock, ExitLock, signals, destroyer, waits>>

\* WriteLock, its section.
WriteLockCall(t) ==
  /\ ~Exit
  /\ PendingWriters' = PendingWriters + 1
  /\ Goto(t, "idle", IF ActiveReaders > 0 \/ PendingWriters' > 1
                       THEN "write_blocked" ELSE "write_woken")
  /\ UNCHANGED <<ActiveReaders, WaitingReaders, Exit, ReadLock, WriteLock, ExitLock, signals,
                 destroyer, waits>>

WriteLockWake(t) ==
  /\ Goto(t, "write_blocked", "write_woken")
  /\ WriteLock > 0
  /\ WriteLock' = WriteLock - 1
  /\ UNCHANGED <<counters, Exit, ReadLock, ExitLock, signals, destroyer, waits>>

\* Mutated form of Result: whoever is through has the lock.
ResultGrants(t) ==
  /\ Goto(t, "read_woken", "read_granted") \/ Goto(t, "write_woken", "write_granted")
  /\ UNCHANGED <<counters, Exit, ReadLock, WriteLock, ExitLock, signals, destroyer, waits>>

\* "We made it through!": the result is Exit as it is now.
Result(t) ==
  /\ \/ Goto(t, "read_woken", IF Exit THEN "denied" ELSE "read_granted")
     \/ Goto(t, "write_woken", IF Exit THEN "denied" ELSE "write_granted")
  /\ UNCHANGED <<counters, Exit, ReadLock, WriteLock, ExitLock, signals, destroyer, waits>>

\* The post to ExitLock before either function returns.
Return(t) ==
  /\ \/ Goto(t, "read_granted", "reading")
     \/ Goto(t, "write_granted", "writing")
     \/ Goto(t, "denied", "idle")
  /\ ExitLock' = ExitLock + 1
  /\ UNCHANGED <<counters, Exit, ReadLock, WriteLock, signals, destroyer, waits>>

----------------------------------------------------------------------------
\* An unlock that finds Exit set: "Unlock, and just abort".
UnLockAborts(t) ==
  /\ Exit
  /\ Goto(t, "reading", "idle") \/ Goto(t, "writing", "idle")
  /\ UNCHANGED <<counters, Exit, ReadLock, WriteLock, ExitLock, signals, destroyer, waits>>

\* Mutated form of ReadUnLock: it is the second pending writer that is signalled.
ReadUnLockOffByOne(t) ==
  /\ ~Exit
  /\ ActiveReaders' = ActiveReaders - 1
  /\ Goto(t, "reading", IF ActiveReaders = 1 /\ PendingWriters > 1
                          THEN "read_signal" ELSE "leaving")
  /\ UNCHANGED <<WaitingReaders, PendingWriters, Exit, ReadLock, WriteLock, ExitLock, signals,
                 destroyer, waits>>

\* Mutated form of ReadUnLock: any leaving reader signals the writer.
ReadUnLockSignalsEarly(t) ==
  /\ ~Exit
  /\ ActiveReaders' = ActiveReaders - 1
  /\ Goto(t, "reading", IF PendingWriters > 0 THEN "read_signal" ELSE "leaving")
  /\ UNCHANGED <<WaitingReaders, PendingWriters, Exit, ReadLock, WriteLock, ExitLock, signals,
                 destroyer, waits>>

\* ReadUnLock, its section: the last reader has a pending writer to signal.
ReadUnLock(t) ==
  /\ ~Exit
  /\ ActiveReaders' = ActiveReaders - 1
  /\ Goto(t, "reading", IF ActiveReaders = 1 /\ PendingWriters > 0
                          THEN "read_signal" ELSE "leaving")
  /\ UNCHANGED <<WaitingReaders, PendingWriters, Exit, ReadLock, WriteLock, ExitLock, signals,
                 destroyer, waits>>

\* WriteUnLock, its section: the next writer is to be signalled, or all readers.
WriteUnLock(t) ==
  /\ ~Exit
  /\ PendingWriters' = PendingWriters - 1
  /\ IF PendingWriters > 1
       THEN /\ Goto(t, "writing", "write_signal")
            /\ UNCHANGED <<ActiveReaders, WaitingReaders, signals>>
       ELSE /\ Goto(t, "writing", IF WaitingReaders > 0 THEN "release" ELSE "leaving")
            /\ WaitingReaders' = 0
            /\ ActiveReaders' = ActiveReaders + WaitingReaders
            /\ signals' = [signals EXCEPT ![t] = WaitingReaders]
  /\ UNCHANGED <<Exit, ReadLock, WriteLock, ExitLock, destroyer, waits>>

\* The post for a writer, and one of those for the readers.
SignalWriter(t) ==
  /\ Goto(t, "read_signal", "leaving") \/ Goto(t, "write_signal", "leaving")
  /\ WriteLock' = WriteLock + 1
  /\ UNCHANGED <<counters, Exit, ReadLock, ExitLock, signals, destroyer, waits>>

SignalReader(t) ==
  /\ Goto(t, "release", IF signals[t] = 1 THEN "leaving" ELSE "release")
  /\ ReadLock' = ReadLock + 1
  /\ signals' = [signals EXCEPT ![t] = @ - 1]
  /\ UNCHANGED <<counters, Exit, WriteLock, ExitLock, destroyer, waits>>

\* Mutated form of Leave: the semaphore is left alone.
LeaveKeeps(t) ==
  /\ Goto(t, "leaving", "idle")
  /\ UNCHANGED <<counters, Exit, ReadLock, WriteLock, ExitLock, signals, destroyer, waits>>

\* The wait for ExitLock at the end of either unlock.
Leave(t) ==
  /\ Goto(t, "leaving", "idle")
  /\ ExitLock > 0
  /\ ExitLock' = ExitLock - 1
  /\ UNCHANGED <<counters, Exit, ReadLock, WriteLock, signals, destroyer, waits>>

----------------------------------------------------------------------------
\* Destroy2, its section: the blocked threads it counts are signalled.
Destroy2 ==
  /\ destroyer = "none"
  /\ destroyer' = "waiting"
  /\ Exit' = TRUE
  /\ LET writers == IF PendingWriters > 1 THEN PendingWriters - 1 ELSE 0
     IN  /\ waits' = WaitingReaders + writers
         /\ ReadLock' = ReadLock + WaitingReaders
         /\ WriteLock' = WriteLock + writers
         /\ PendingWriters' = PendingWriters - writers
  /\ WaitingReaders' = 0
  /\ UNCHANGED <<pc, ActiveReaders, ExitLock, signals>>

\* Its wait for those threads, and the end of the semaphores.
Destroy2Wait ==
  /\ destroyer = "waiting"
  /\ IF waits = 0
       THEN destroyer' = "done" /\ UNCHANGED <<ExitLock, waits>>
       ELSE /\ ExitLock > 0
            /\ ExitLock' = ExitLock - 1
            /\ waits' = waits - 1
            /\ UNCHANGED destroyer
  /\ UNCHANGED <<pc, counters, Exit, ReadLock, WriteLock, signals>>

----------------------------------------------------------------------------
Lock(t) == ReadLockCall(t) \/ WriteLockCall(t)

Inside(t) ==
  \/ ReadLockWake(t) \/ WriteLockWake(t) \/ Result(t) \/ Return(t)
  \/ UnLockAborts(t) \/ ReadUnLock(t) \/ WriteUnLock(t)
  \/ SignalWriter(t) \/ SignalReader(t) \/ Leave(t)

Next == (\E t \in Thread : Lock(t) \/ Inside(t)) \/ Destroy2 \/ Destroy2Wait

Safety == Init /\ [][Next]_vars

\* A thread with the lock gives it back, and a thread inside the functions goes on
\* when its semaphore lets it.  Nobody has to lock or destroy it.
Spec == Safety /\ \A t \in Thread : WF_vars(Inside(t))

----------------------------------------------------------------------------
Readers == At({"read_granted", "reading"})
Writers == At({"write_granted", "writing"})

\* No thread writes while another reads or writes, also while the lock is being
\* destroyed around them.
MutualExclusion ==
  /\ Writers = {} \/ Readers = {}
  /\ \A t, u \in Writers : t = u

LockUsers == INSTANCE ReaderWriter WITH readers <- Readers, writers <- Writers, closed <- Exit

\* Seen through the results of its functions the lock is a reader-writer lock: also
\* a thread that was blocked when the lock was destroyed is told so and not let in.
ImplementsReaderWriter == LockUsers!Spec

\* The right to write passes from hand to hand: while no reader is active and a
\* writer is pending, exactly one writer has it, or one post for a blocked writer,
\* made or about to be made - two would let two writers in, none would block all.
OneBaton ==
  ~Exit =>
    Cardinality(At({"write_woken", "write_granted", "writing", "read_signal", "write_signal"}))
      + WriteLock = IF ActiveReaders = 0 /\ PendingWriters > 0 THEN 1 ELSE 0

\* Every blocked reader waits for the end of the pending writers or has a post, made
\* or still to be made by the one thread that releases them: none is forgotten, and
\* no post is left over that would let a later reader in beside a writer.
BlockedReadersCounted ==
  ~Exit =>
    /\ \A t, u \in At({"release"}) : t = u
    /\ IF At({"release"}) = {}
         THEN Cardinality(At({"read_blocked"})) = ReadLock + WaitingReaders
         ELSE \A t \in At({"release"}) :
                Cardinality(At({"read_blocked"})) = ReadLock + WaitingReaders + signals[t]

\* "This won't block": while the lock is not being destroyed, ExitLock has as many
\* posts as there are threads that will still take one.
ExitLockStable ==
  ~Exit =>
    ExitLock = Cardinality(At({"reading", "writing", "read_signal", "write_signal",
                               "release", "leaving"}))

\* "This won't block. We're just keeping the semaphore value stable."
UnLockWontBlock == \A t \in Thread : pc[t] = "leaving" => ExitLock > 0

\* Blocked threads get in: a writer whatever the readers do, a reader if the writers
\* pause again and again.  (Which of the blocked ones, the semaphores do not say.)
BlockedServed ==
  /\ At({"write_blocked"}) # {} ~> Writers # {} \/ Exit
  /\ []<>(PendingWriters = 0) => (At({"read_blocked"}) # {} ~> Readers # {} \/ Exit)

\* The rest of the inductive invariant.
PendingCounted ==
  ~Exit =>
    /\ PendingWriters =
         Cardinality(At({"write_blocked", "write_woken", "write_granted", "writing"}))
    /\ ActiveReaders + WaitingReaders =
         Cardinality(At({"read_blocked"}))
           + Cardinality(At({"read_woken", "read_granted", "reading"}))
    /\ WaitingReaders > 0 => PendingWriters > 0

Places ==
  /\ \A t \in Thread : signals[t] > 0 <=> pc[t] = "release"
  /\ ~Exit => At({"denied"}) = {}
  /\ destroyer = "none" <=> ~Exit

IInv ==
  /\ TypeOK /\ MutualExclusion /\ Places
  /\ OneBaton /\ BlockedReadersCounted /\ ExitLockStable /\ PendingCounted
=============================================================================
