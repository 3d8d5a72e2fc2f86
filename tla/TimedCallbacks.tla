--------------------------- MODULE TimedCallbacks ---------------------------
(***************************************************************************)
(* What the users of a lifetime monitor rely on.  Of each callback they    *)
(* register they learn once what became of it: it is called, at its time   *)
(* at the earliest, or it is destroyed.  When the monitor is closed they   *)
(* have learnt it of every one.                                            *)
(***************************************************************************)
EXTENDS Naturals, Sequences

VARIABLES
  now,
  expires,    \* by entry, in the order of their registration: its time
  fired, destroyed, closed

vars == <<now, expires, fired, destroyed, closed>>

Init ==
  /\ now \in Nat
  /\ expires = <<>>
  /\ fired = {} /\ destroyed = {} /\ closed = FALSE

Pending == DOMAIN expires \ (fired \cup destroyed)

Tick == now' = now + 1 /\ UNCHANGED <<expires, fired, destroyed, closed>>

\* The next entry, with a time that has come or is to come.
Register ==
  /\ Len(expires') = Len(expires) + 1
  /\ SubSeq(expires', 1, Len(expires)) = expires
  /\ expires'[Len(expires')] >= now
  /\ UNCHANGED <<now, fired, destroyed, closed>>

Fire ==
  /\ \E e \in Pending : expires[e] <= now /\ fired' = fired \cup {e}
  /\ UNCHANGED <<now, expires, destroyed, closed>>

\* Some are destroyed, and when nothing is pending then the monitor may be closed.
Destroy ==
  /\ \E some \in SUBSET Pending : destroyed' = destroyed \cup some
  /\ closed' = TRUE => Pending \subseteq destroyed'
  /\ closed' \in BOOLEAN
  /\ UNCHANGED <<now, expires, fired>>

Next == ~closed /\ (Tick \/ Register \/ Fire \/ Destroy)

Spec == Init /\ [][Next]_vars
=============================================================================
