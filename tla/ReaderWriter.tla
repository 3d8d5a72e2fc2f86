---------------------------- MODULE ReaderWriter ----------------------------
(***************************************************************************)
(* What a reader-writer lock promises its users: any number of readers or  *)
(* one writer, until it is closed.  A closed lock lets nobody in; those    *)
(* inside may still leave.                                                 *)
(***************************************************************************)
CONSTANT Thread

VARIABLES
  readers,    \* the threads that read
  writers,    \* the threads that write
  closed

vars == <<readers, writers, closed>>

Init == readers = {} /\ writers = {} /\ closed = FALSE

EnterReader(t) ==
  /\ ~closed /\ writers = {} /\ t \notin readers
  /\ readers' = readers \cup {t}
  /\ UNCHANGED <<writers, closed>>

EnterWriter(t) ==
  /\ ~closed /\ writers = {} /\ readers = {}
  /\ writers' = {t}
  /\ UNCHANGED <<readers, closed>>

Leave(t) ==
  /\ t \in readers \cup writers
  /\ readers' = readers \ {t}
  /\ writers' = writers \ {t}
  /\ UNCHANGED closed

Close == ~closed /\ closed' = TRUE /\ UNCHANGED <<readers, writers>>

Next == Close \/ \E t \in Thread : EnterReader(t) \/ EnterWriter(t) \/ Leave(t)

Spec == Init /\ [][Next]_vars
=============================================================================
