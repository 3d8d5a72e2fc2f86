---------------------- MODULE MCUPnPSmartControlPoint ----------------------
(***************************************************************************)
(* A root device d1 with an embedded device e1, a second root device d2,   *)
(* and services: one of d1, two of e1.  The device filter fits e1, the     *)
(* service filter all services; d2 passes as a root device only.           *)
(***************************************************************************)
EXTENDS UPnPSmartControlPoint

CONSTANTS d1, d2, e1, s1, s2, s3, DeviceFilter, ServiceFilter

MCDevice == {d1, d2}
MCUnit == {d1, d2, e1}
MCService == {s1, s2, s3}
MCFilter == {RootFilter, DeviceFilter, ServiceFilter}
MCEmbedded == [u \in MCUnit |-> IF u = d1 THEN {e1} ELSE {}]
MCServices == [u \in MCUnit |-> CASE u = d1 -> {s1} [] u = e1 -> {s2, s3} [] OTHER -> {}]
MCPasses ==
  [x \in MCUnit \cup MCService |->
     IF x = e1 THEN {DeviceFilter} ELSE IF x \in MCService THEN {ServiceFilter} ELSE {}]
MCFilterChoices == {{RootFilter}, {ServiceFilter}, {DeviceFilter, ServiceFilter}}
MCAttachable == {"OnRemovedDevice", "OnRemovedService"}

\* Matching is what the recursion over embedded devices finds.
ASSUME MatchingIsTheRecursion ==
  \A f \in Filter, d \in Unit : Matching[f][d] = CheckDeviceAgainstFilter(f)[d]
=============================================================================
