------------------ MODULE MCUPnPInternalSmartControlPoint ------------------
EXTENDS UPnPInternalSmartControlPoint, TLC

(* For the safety properties alone, on larger instances. *)
Symmetry == Permutations(Creation) \cup Permutations(Url \ Refused) \cup Permutations(UDN)
=============================================================================
