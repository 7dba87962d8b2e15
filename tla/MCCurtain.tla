------------------------------ MODULE MCCurtain -----------------------------
(* A mailbox of two instead of four mails.                                 *)
EXTENDS Curtain
=============================================================================
