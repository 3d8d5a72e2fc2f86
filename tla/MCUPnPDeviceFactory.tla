------------------------ MODULE MCUPnPDeviceFactory ------------------------
(* A root device with three services and an embedded device with one: the   *)
(* smallest tree on which a removal before, at and behind the walk's index  *)
(* and the step to the next device all occur.                               *)
EXTENDS UPnPDeviceFactory

CONSTANTS s1, s2, s3, s4

MCTree == << <<s1, s2, s3>>, <<s4>> >>
=============================================================================
