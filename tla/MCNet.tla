-------------------------------- MODULE MCNet -------------------------------
(* Few pbufs and messages; the frames that arrive are not counted.         *)
EXTENDS Net
=============================================================================
