---------------------------- MODULE MCRtMailbox -----------------------------
(* RtMailbox with three threads, two mails and a ring of two: one thread can *)
(* sleep, one can be woken for a mail and the third can steal it.            *)
EXTENDS RtMailbox, TLC

CONSTANTS t1, t2, t3, m1, m2

MCThreads == {t1, t2, t3}
MCMails   == {m1, m2}
=============================================================================
