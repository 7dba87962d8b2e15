------------------------------- MODULE MCGsm --------------------------------
(* Two short messages: one is read and obeyed, the other makes the reader    *)
(* delete all of them.  One alarm, and a mailbox that holds a single mail,   *)
(* so that mails are dropped.  One block: no two threads have one at a time, *)
(* so a pointer that outlives its block points to the other thread's.  The   *)
(* semaphore counts to 2 and wraps, as the 16-bit one does.                  *)
EXTENDS Gsm
=============================================================================
