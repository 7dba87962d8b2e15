------------------------------ MODULE MailFifo ------------------------------
(***************************************************************************)
(* What a mailbox of the kernel promises the threads that share it: a      *)
(* bounded first-in first-out queue of mails.  A send puts its mail at the *)
(* tail when there is room, a receive takes the mail at the head when      *)
(* there is one, and nothing else touches the mails.  The ring buffer of   *)
(* RtMailbox implements it; Gsm uses it for the mailbox GSM_mq_send.       *)
(***************************************************************************)
EXTENDS Naturals, Sequences

CONSTANTS Threads,  \* the threads that call the mailbox
          Mails,    \* the values that are sent
          Size,     \* how many mails the mailbox holds
          NoMail    \* what *value holds before anything was received

VARIABLES queue,    \* the mails sent and not yet received
          inbox     \* per thread, the mail its last receive returned

fvars == <<queue, inbox>>

Init ==
  /\ queue = <<>>
  /\ inbox = [t \in Threads |-> NoMail]

Send(m) ==
  /\ Len(queue) < Size
  /\ queue' = Append(queue, m)
  /\ UNCHANGED inbox

Recv(t) ==
  /\ queue # <<>>
  /\ inbox' = [inbox EXCEPT ![t] = Head(queue)]
  /\ queue' = Tail(queue)

Next ==
  \/ \E m \in Mails : Send(m)
  \/ \E t \in Threads : Recv(t)

Spec == Init /\ [][Next]_fvars
=============================================================================
