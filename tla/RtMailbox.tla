----------------------------- MODULE RtMailbox ------------------------------
(***************************************************************************)
(* The RT-Thread mailbox (rt-thread/src/ipc.c): a ring of Size words with  *)
(* two lists of suspended threads, the receivers that found it empty and   *)
(* the senders that found it full.  GSM_mq_send and IRDA_NRF2401_send of   *)
(* applications/main.c are two of these, created with RT_IPC_FLAG_FIFO.    *)
(*                                                                         *)
(* A call runs with interrupts disabled from its first test to the point   *)
(* where it returns or suspends, so that stretch is one step.  A thread    *)
(* that another call has resumed does not run at once: it is "woken", and  *)
(* whatever runs before it may take the mail or the slot it was woken for, *)
(* which is why both loops test again.                                     *)
(***************************************************************************)
EXTENDS Naturals, Sequences, FiniteSets

CONSTANTS Threads, Mails, Size, NoMail

ASSUME SizeAssumption == Size \in Nat \ {0}
ASSUME ThreadsAssumption == IsFiniteSet(Threads)
ASSUME MailsAssumption == NoMail \notin Mails

\* The timeout argument: 0, a positive number of ticks, RT_WAITING_FOREVER.
Timeouts == {"nowait", "timed", "forever"}

VARIABLES
  msg_pool, entry, in_offset, out_offset,  \* struct rt_mailbox
  suspend_thread,        \* suspended receivers, the next to resume first
  suspend_sender_thread, \* suspended senders
  woken,                 \* threads taken off a list that have not run yet
  call,                  \* per thread, the call it is in
  inbox                  \* per thread, *value of its last receive

ring == <<msg_pool, entry, in_offset, out_offset>>
vars == <<ring, suspend_thread, suspend_sender_thread, woken, call, inbox>>

Calls  == [op : {"none", "recv", "send"}, timeout : Timeouts,
           mail : Mails \cup {NoMail}]
NoCall == [op |-> "none", timeout |-> "nowait", mail |-> NoMail]

Slots == 0 .. Size - 1

\* Faulty variants: wrap one slot too late, and one too early.
AdvanceLate(offset)  == IF offset + 1 > Size THEN 0 ELSE offset + 1
AdvanceEarly(offset) == IF offset + 2 >= Size THEN 0 ELSE offset + 1

Advance(offset) == IF offset + 1 >= Size THEN 0 ELSE offset + 1

\* rt_mb_init: the pool is not written, so it holds no mail yet.
rt_mb_init ==
  /\ msg_pool   = [i \in Slots |-> NoMail]
  /\ entry      = 0
  /\ in_offset  = 0
  /\ out_offset = 0
  /\ suspend_thread = <<>>
  /\ suspend_sender_thread = <<>>

Init ==
  /\ rt_mb_init
  /\ woken = {}
  /\ call  = [t \in Threads |-> NoCall]
  /\ inbox = [t \in Threads |-> NoMail]

-----------------------------------------------------------------------------
(* The pieces of the two calls.  In each of them t is the caller.          *)

Return(t) == call' = [call EXCEPT ![t] = NoCall]

\* rt_ipc_list_resume: the first thread of the list, if there is one.
Resume(list, t) == IF list = <<>> THEN woken \ {t}
                                  ELSE (woken \ {t}) \cup {Head(list)}
Rest(list) == IF list = <<>> THEN <<>> ELSE Tail(list)

\* Faulty variant: resume a receiver only for a mail into an empty ring.
PutMailWakesWhenEmpty(t, m) ==
  /\ entry # Size
  /\ msg_pool'  = [msg_pool EXCEPT ![in_offset] = m]
  /\ in_offset' = Advance(in_offset)
  /\ entry'     = entry + 1
  /\ IF entry = 0
       THEN woken' = Resume(suspend_thread, t) /\ suspend_thread' = Rest(suspend_thread)
       ELSE woken' = woken \ {t} /\ UNCHANGED suspend_thread
  /\ Return(t)
  /\ UNCHANGED <<out_offset, suspend_sender_thread, inbox>>

\* There is room: store the mail, resume a receiver, return RT_EOK.
PutMail(t, m) ==
  /\ entry # Size
  /\ msg_pool'  = [msg_pool EXCEPT ![in_offset] = m]
  /\ in_offset' = Advance(in_offset)
  /\ entry'     = entry + 1
  /\ woken'     = Resume(suspend_thread, t)
  /\ suspend_thread' = Rest(suspend_thread)
  /\ Return(t)
  /\ UNCHANGED <<out_offset, suspend_sender_thread, inbox>>

\* There is mail: hand it out, resume a sender, return RT_EOK.
GetMail(t) ==
  /\ entry # 0
  /\ inbox'      = [inbox EXCEPT ![t] = msg_pool[out_offset]]
  /\ out_offset' = Advance(out_offset)
  /\ entry'      = entry - 1
  /\ woken'      = Resume(suspend_sender_thread, t)
  /\ suspend_sender_thread' = Rest(suspend_sender_thread)
  /\ Return(t)
  /\ UNCHANGED <<msg_pool, in_offset, suspend_thread>>

\* Give up with -RT_EFULL or -RT_ETIMEOUT.
GiveUp(t) ==
  /\ woken' = woken \ {t}
  /\ Return(t)
  /\ UNCHANGED <<ring, suspend_thread, suspend_sender_thread, inbox>>

\* rt_ipc_list_suspend with RT_IPC_FLAG_FIFO, on the senders' list ...
SuspendSender(t, c) ==
  /\ suspend_sender_thread' = Append(suspend_sender_thread, t)
  /\ woken' = woken \ {t}
  /\ call'  = [call EXCEPT ![t] = c]
  /\ UNCHANGED <<ring, suspend_thread, inbox>>

\* ... and on the receivers'.
SuspendReceiver(t, c) ==
  /\ suspend_thread' = Append(suspend_thread, t)
  /\ woken' = woken \ {t}
  /\ call'  = [call EXCEPT ![t] = c]
  /\ UNCHANGED <<ring, suspend_sender_thread, inbox>>

\* One pass of the loop of rt_mb_send_wait.
SendPass(t, c) ==
  \/ PutMail(t, c.mail)
  \/ entry = Size /\ c.timeout = "nowait" /\ GiveUp(t)
  \/ entry = Size /\ c.timeout # "nowait" /\ SuspendSender(t, c)

\* One pass of the loop of rt_mb_recv.
RecvPass(t, c) ==
  \/ GetMail(t)
  \/ entry = 0 /\ c.timeout = "nowait" /\ GiveUp(t)
  \/ entry = 0 /\ c.timeout # "nowait" /\ SuspendReceiver(t, c)

-----------------------------------------------------------------------------

\* rt_mb_send is rt_mb_send_wait with timeout 0.
rt_mb_send_wait(t, m, timeout) ==
  /\ call[t] = NoCall
  /\ SendPass(t, [op |-> "send", timeout |-> timeout, mail |-> m])

rt_mb_recv(t, timeout) ==
  /\ call[t] = NoCall
  /\ RecvPass(t, [op |-> "recv", timeout |-> timeout, mail |-> NoMail])

\* What is left of a timeout when its thread wakes may be nothing.
Remaining(c) ==
  IF c.timeout = "timed" THEN {c, [c EXCEPT !.timeout = "nowait"]} ELSE {c}

\* A resumed sender or receiver runs and tests again.
SenderRuns(t) ==
  /\ t \in woken
  /\ call[t].op = "send"
  /\ \E c \in Remaining(call[t]) : SendPass(t, c)

ReceiverRuns(t) ==
  /\ t \in woken
  /\ call[t].op = "recv"
  /\ \E c \in Remaining(call[t]) : RecvPass(t, c)

Cut(list, i) == SubSeq(list, 1, i - 1) \o SubSeq(list, i + 1, Len(list))

\* rt_thread_timeout: the timer of a suspended thread expires, the thread
\* leaves its list with error -RT_ETIMEOUT and its call returns that.
rt_thread_timeout(t) ==
  /\ call[t] # NoCall
  /\ call[t].timeout = "timed"
  /\ \/ \E i \in DOMAIN suspend_thread :
          /\ suspend_thread[i] = t
          /\ suspend_thread' = Cut(suspend_thread, i)
          /\ UNCHANGED suspend_sender_thread
     \/ \E i \in DOMAIN suspend_sender_thread :
          /\ suspend_sender_thread[i] = t
          /\ suspend_sender_thread' = Cut(suspend_sender_thread, i)
          /\ UNCHANGED suspend_thread
  /\ Return(t)
  /\ UNCHANGED <<ring, woken, inbox>>

Step(t) ==
  \/ \E m \in Mails, w \in Timeouts : rt_mb_send_wait(t, m, w)
  \/ \E w \in Timeouts : rt_mb_recv(t, w)
  \/ SenderRuns(t)
  \/ ReceiverRuns(t)
  \/ rt_thread_timeout(t)

Next == \E t \in Threads : Step(t)

Spec == Init /\ [][Next]_vars

-----------------------------------------------------------------------------

\* A thread that was resumed runs at last: the scheduler never leaves a ready
\* thread out for ever once the threads above it block.
Fairness == \A t \in Threads : WF_vars(SenderRuns(t) \/ ReceiverRuns(t))

FairSpec == Spec /\ Fairness

-----------------------------------------------------------------------------
(* Properties.                                                             *)

\* Threads of woken that were resumed for a mail, and for a free slot.
WokenReceivers == {t \in woken : call[t].op = "recv"}
WokenSenders   == {t \in woken : call[t].op = "send"}

\* Type invariant of struct rt_mailbox and of the callers' bookkeeping.
TypeOK ==
  /\ msg_pool \in [Slots -> Mails \cup {NoMail}]
  /\ entry \in 0 .. Size
  /\ in_offset \in Slots
  /\ out_offset \in Slots
  /\ suspend_thread \in Seq(Threads)
  /\ suspend_sender_thread \in Seq(Threads)
  /\ woken \subseteq Threads
  /\ call \in [Threads -> Calls]
  /\ inbox \in [Threads -> Mails \cup {NoMail}]

\* No wake-up is lost (ipc.c 1541, 1690): while a receiver sleeps, every mail in
\* the box is covered by a receiver that has been resumed and still has to run;
\* while a sender sleeps, every free slot is covered by a resumed sender.  One
\* resume per mail is enough although a third thread may steal the mail.
NoLostWakeup ==
  /\ suspend_thread # <<>> => entry <= Cardinality(WokenReceivers)
  /\ suspend_sender_thread # <<>> => Size - entry <= Cardinality(WokenSenders)

\* The mails in the ring, oldest first.
Slot(i) == IF out_offset + i - 1 >= Size THEN out_offset + i - 1 - Size
                                         ELSE out_offset + i - 1
Contents == [i \in 1 .. entry |-> msg_pool[Slot(i)]]

\* The ring with its two wrapping offsets behaves as a bounded first-in
\* first-out queue: no mail is lost, duplicated or overtaken, whatever the
\* order in which callers run, wake and time out.
Fifo == INSTANCE MailFifo WITH queue <- Contents
RefinesFifo == Fifo!Spec

\* A thread that waits for ever on a mailbox that holds mail does not wait in
\* vain: the mail is taken, or the thread leaves the list.
MailMoves ==
  \A t \in Threads :
    (suspend_thread # <<>> /\ Head(suspend_thread) = t /\ entry > 0)
      ~> (entry = 0 \/ suspend_thread = <<>> \/ Head(suspend_thread) # t)
=============================================================================
