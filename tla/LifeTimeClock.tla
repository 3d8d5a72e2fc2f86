--------------------------- MODULE LifeTimeClock ---------------------------
(***************************************************************************)
(* What a LifeTimeMonitor promises the objects that use it.  Their calls    *)
(* put keys on the clock and take keys off it.  A key that is left there   *)
(* expires once, by leaving the clock and then having its callback run; it *)
(* leaves in no other way.  A key can be put back on the clock or taken    *)
(* off it while a callback for its earlier stay is still to come.  This is *)
(* the clock that UPnPInternalSmartControlPoint is modelled with.          *)
(***************************************************************************)
EXTENDS Naturals

CONSTANT Key

VARIABLES
  call,       \* the last call of a user: its number, what it did, to which keys
  clock,      \* the keys that have a time set
  expired     \* by key: expiries whose callback still has to run

vars == <<call, clock, expired>>

Init ==
  /\ call = [n |-> 0, op |-> "none", keys |-> {}]
  /\ clock = {} /\ expired = [k \in Key |-> 0]

\* A call that puts k on the clock, or starts its time again.
Put(k) ==
  /\ call' = [n |-> call.n + 1, op |-> "put", keys |-> {k}]
  /\ clock' = clock \cup {k}
  /\ UNCHANGED expired

\* A call that takes the keys K off the clock: one key, or all.
TakeOff(K) ==
  /\ call' = [n |-> call.n + 1, op |-> "off", keys |-> K]
  /\ clock' = clock \ K
  /\ UNCHANGED expired

\* Keys whose time has come leave the clock together.
Expire(S) ==
  /\ S \subseteq clock
  /\ clock' = clock \ S
  /\ expired' = [k \in Key |-> IF k \in S THEN expired[k] + 1 ELSE expired[k]]
  /\ UNCHANGED call

\* The callback of one expiry runs.
Callback(k) ==
  /\ expired[k] > 0
  /\ expired' = [expired EXCEPT ![k] = @ - 1]
  /\ UNCHANGED <<call, clock>>

Next ==
  \/ \E k \in Key : Put(k) \/ TakeOff({k})
  \/ TakeOff(Key)
  \/ \E S \in SUBSET Key : Expire(S)
  \/ \E k \in Key : Callback(k)

Fairness ==
  \A k \in Key : /\ WF_vars(\E S \in SUBSET Key : k \in S /\ Expire(S))
                 /\ WF_vars(Callback(k))

Spec == Init /\ [][Next]_vars /\ Fairness
=============================================================================
