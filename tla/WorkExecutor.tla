---------------------------- MODULE WorkExecutor ----------------------------
(***************************************************************************)
(* What a thread pool promises to those who give it work: an item is run   *)
(* at most once; once the pool is closed no item is started any more, only *)
(* dropped; and the pool is freed when nothing is running any more.        *)
(***************************************************************************)
CONSTANT Item

VARIABLES accepted, started, finished, dropped, closed, freed

vars == <<accepted, started, finished, dropped, closed, freed>>

Init ==
  /\ accepted = {} /\ started = {} /\ finished = {} /\ dropped = {}
  /\ closed = FALSE /\ freed = FALSE

Fresh == Item \ (accepted \cup started \cup finished \cup dropped)

Accept ==
  /\ \E i \in Fresh : accepted' = accepted \cup {i}
  /\ UNCHANGED <<started, finished, dropped, closed, freed>>

\* An accepted item, or one that is run by its caller.
Start ==
  /\ ~closed
  /\ \E i \in accepted \cup Fresh :
       accepted' = accepted \ {i} /\ started' = started \cup {i}
  /\ UNCHANGED <<finished, dropped, closed, freed>>

Finish ==
  /\ \E i \in started : started' = started \ {i} /\ finished' = finished \cup {i}
  /\ UNCHANGED <<accepted, dropped, closed, freed>>

Drop ==
  /\ closed
  /\ \E i \in accepted : accepted' = accepted \ {i} /\ dropped' = dropped \cup {i}
  /\ UNCHANGED <<started, finished, closed, freed>>

Close == ~closed /\ closed' = TRUE /\ UNCHANGED <<accepted, started, finished, dropped, freed>>

Free ==
  /\ closed /\ started = {}
  /\ freed' = TRUE
  /\ UNCHANGED <<accepted, started, finished, dropped, closed>>

Next == ~freed /\ (Accept \/ Start \/ Finish \/ Drop \/ Close \/ Free)

Spec == Init /\ [][Next]_vars
=============================================================================
