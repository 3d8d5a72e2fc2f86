-------------------------- MODULE DeviceDirectory --------------------------
(***************************************************************************)
(* What the smart control point promises the applications that listen to   *)
(* OnAddedDevice, OnRemovedDevice and OnDeviceExpired and that ask for     *)
(* GetCurrentDevices: a device object enters the directory at most once    *)
(* and leaves it at most once; entering owes exactly one "added" notice,   *)
(* and a "removed" or "expired" notice is owed only for an object that has *)
(* just left, at most one per object.  Notices are delivered by the        *)
(* threads that caused them, outside the lock, hence in any order.         *)
(***************************************************************************)
CONSTANT Device          \* the device objects that may ever be created

VARIABLES
  listed,     \* the directory: what GetCurrentDevices returns
  retired,    \* the objects that have been in the directory and have left it
  owed,       \* notices whose handler still has to run
  told        \* notices that have been delivered

vars == <<listed, retired, owed, told>>

Notice == {"added", "removed", "expired"} \X Device

TypeOK ==
  /\ listed \subseteq Device /\ retired \subseteq Device
  /\ owed \subseteq Notice /\ told \subseteq Notice

Init == listed = {} /\ retired = {} /\ owed = {} /\ told = {}

Enter(c) ==
  /\ c \notin listed \cup retired
  /\ listed' = listed \cup {c}
  /\ owed' = owed \cup {<<"added", c>>}
  /\ UNCHANGED <<retired, told>>

\* Some objects leave together; N are those whose listeners will be told.
Leave(S, N, kind) ==
  /\ listed' = listed \ S
  /\ retired' = retired \cup S
  /\ owed' = owed \cup ({kind} \X N)
  /\ UNCHANGED told

Tell(n) ==
  /\ n \in owed
  /\ owed' = owed \ {n}
  /\ told' = told \cup {n}
  /\ UNCHANGED <<listed, retired>>

Next ==
  \/ \E c \in Device : Enter(c)
  \/ \E S \in SUBSET listed : \E N \in SUBSET S, kind \in {"removed", "expired"} :
        S # {} /\ Leave(S, N, kind)
  \/ \E n \in owed : Tell(n)

Spec == Init /\ [][Next]_vars
=============================================================================
