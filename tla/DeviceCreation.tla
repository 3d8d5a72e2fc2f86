--------------------------- MODULE DeviceCreation ---------------------------
(***************************************************************************)
(* What one call of UPnPDeviceFactory.CreateDevice promises its caller,    *)
(* UPnPInternalSmartControlPoint: either the device is delivered, once, or *)
(* the failure callback runs, possibly several times; never both.  The     *)
(* factory may also stay silent: nothing here says that an answer comes.   *)
(*                                                                         *)
(* UPnPDeviceFactory is shown to implement this module;                    *)
(* UPnPInternalSmartControlPoint uses one such creation per record.        *)
(***************************************************************************)

VARIABLE outcome    \* what the caller has been told so far

TypeOK == outcome \in {"pending", "created", "failed"}

Init == outcome = "pending"

\* OnDevice: the one and only delivery, and only if nothing was reported yet.
Create ==
  /\ outcome = "pending"
  /\ outcome' = "created"

\* OnFailed: any number of times, but never after a delivery.
Fail ==
  /\ outcome \in {"pending", "failed"}
  /\ outcome' = "failed"

Next == Create \/ Fail

Spec == Init /\ [][Next]_outcome
=============================================================================
