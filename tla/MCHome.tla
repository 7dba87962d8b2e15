------------------------------- MODULE MCHome -------------------------------
(* Home has no constants: the house as it is, with every thread.           *)
EXTENDS Home
=============================================================================
