-------------------------------- MODULE Gsm ---------------------------------
(***************************************************************************)
(* The GSM subsystem: the four threads that talk to the SIM800C modem over *)
(* USART2 (applications/main.c, applications/bsp_gsm.c).  main configures  *)
(* the modem and starts the others.  GSM_thread ("poll") looks at the flag *)
(* of a received frame every 10 ms and releases GSM_sem_read.              *)
(* GSM_read_thread ("read") takes it, fetches a short message and obeys    *)
(* it.  GSM_send_thread ("send") takes a mail from GSM_mq_send and sends   *)
(* it as a short message with the scheduler locked.  All of them share one *)
(* receive buffer and one flag: only the priorities and that lock keep a   *)
(* thread from eating the answer another one is waiting for.               *)
(*                                                                         *)
(* The channel is FrameChannel (rx and text), which Usart2 implements; the *)
(* mailbox is the bounded queue of MailFifo, which RtMailbox implements.   *)
(* A step is a stretch of code in which nothing but an interrupt can come  *)
(* between, and in which none makes a difference.                          *)
(***************************************************************************)
EXTENDS Naturals, Sequences

CONSTANTS
  Sms,       \* the places in the SIM where a short message may be stored
  Alarms,    \* the alarms that security_thread may raise
  MailSize,  \* mails that GSM_mq_send holds
  SemRange,  \* values of the semaphore's 16-bit counter
  Blocks,    \* 256-byte blocks of the heap
  NULL,
  MaxAir     \* bound: frames the modem has not finished sending

\* Short messages, by the command that GSM_read_thread finds first: "mode" is
\* an order to set the mode, "home" or "out".
Bodies == {"report status", "mode", "other"}
Mails  == {"report_status", "set_ok", "tips", "Invaiding", "MQ_LEAKING", "On_Fire"}

ASSUME SmsAssumption    == Sms \subseteq Nat \ {0}
ASSUME AlarmsAssumption == Alarms \subseteq {"Invaiding", "MQ_LEAKING", "On_Fire"}
ASSUME BoundsAssumption ==
  /\ MailSize \in Nat \ {0}
  /\ SemRange \in Nat \ {0}
  /\ MaxAir \in Nat \ {0}
  /\ NULL \notin Blocks

\* What the modem sends, as far as the outcome of a search of the buffer makes
\* a difference.  A "cmti" frame announces the message stored at place n, an
\* "sms" frame contains its text.  An answer of ERROR is one that arrives
\* without being found: FrameChannel has it with the torn ones.
Frame(k, i) == [kind |-> k, n |-> i]
OK      == Frame("OK", 0)
PROMPT  == Frame("> ", 0)
CMTI(i) == Frame("cmti", i)
SMS(i)  == Frame("sms", i)
Frames == {OK, PROMPT} \cup {CMTI(i) : i \in Sms} \cup {SMS(i) : i \in Sms}

VARIABLES
  rx, text,     \* the receive channel, see FrameChannel
  first,        \* the place announced at the start of the buffer, or 0
  air,          \* frames the modem is going to send
  sim,          \* the places of the SIM in which a message was stored
  pc,           \* per thread, where it is
  lock,         \* the thread that locked the scheduler, or "none"
  naps,         \* threads in rt_thread_mdelay(10), the first to wake first
  sem,          \* value of GSM_sem_read
  queue,        \* GSM_mq_send
  val,          \* the mail being sent, or "none"
  step,         \* the command of the script whose answer main or send awaits
  asked,        \* the place GSM_read_thread is reading (GSM_buffer), or 0
  pending,      \* places announced in the buffer, by the modem's doing, and not
                \* yet asked for (history, since the threads run)
  alloc, point, prt_backup  \* blocks in use, and the two threads' pointers

buffer == <<text, first>>
chan   == <<rx, buffer>>
ipc    == <<lock, naps, sem, queue>>
locals == <<val, step, asked>>
heap   == <<alloc, point, prt_backup>>
vars   == <<chan, air, sim, pending, pc, ipc, locals, heap>>

Chan == INSTANCE FrameChannel

-----------------------------------------------------------------------------
(* Threads and their scheduling.                                           *)

\* Faulty variant: the reader is less urgent than GSM_thread.
PriorityReadLate ==
  [read |-> 15, main |-> 10, poll |-> 14, send |-> 16, security |-> 19]

\* THREAD_PRIORITY + offset of Smart_IOT_Center; main has the default 10.
\* A smaller number runs first.
Priority == [read |-> 8, main |-> 10, poll |-> 14, send |-> 16, security |-> 19]
Threads  == {"main", "poll", "read", "send", "security"}

Suspended == {"off", "nap", "sleep", "sem", "mail", "dead"}
Ready(t) == pc[t] \notin Suspended

\* rt_schedule runs the most urgent ready thread, and none but the running
\* one while rt_enter_critical is in force.
CanRun(t) ==
  /\ Ready(t)
  /\ lock \in {"none", t}
  /\ lock = "none" => \A u \in Threads : Ready(u) => Priority[t] <= Priority[u]

Goto(t, l) == pc' = [pc EXCEPT ![t] = l]

\* rt_thread_mdelay(10) at the end of a pass.
Nap(t) == Goto(t, "nap") /\ naps' = Append(naps, t)

\* Threads that sleep for the same 10 ms wake in the order they fell asleep.
WakeNap ==
  /\ naps # <<>>
  /\ Goto(Head(naps), "top")
  /\ naps' = Tail(naps)
  /\ UNCHANGED <<chan, air, sim, pending, lock, sem, queue, locals, heap>>

\* The end of the rt_thread_mdelay(200) of GSM_send_thread.
WakeSend ==
  /\ pc["send"] = "sleep"
  /\ Goto("send", "top")
  /\ UNCHANGED <<chan, air, sim, pending, ipc, locals, heap>>

-----------------------------------------------------------------------------
(* The modem (external).                                                   *)

\* rt_strcmp(digits of i, "99") >= 0: the digits begin with 99.
StrcmpAtLeast99(i) == i = 99 \/ i \div 10 = 99

Answer(c) == IF c \in {"CMGS", "text"} THEN PROMPT ELSE OK

\* usart2_senddata: the modem will give this answer, or none.
usart2_senddata(answer) ==
  \/ air' = air
  \/ Len(air) < MaxAir /\ air' = Append(air, answer)

\* A message arrives in the SIM and the modem announces it.  Each place is
\* used once.
ModemStores(i) ==
  /\ i \notin sim
  /\ Len(air) < MaxAir
  /\ sim' = sim \cup {i}
  /\ air' = Append(air, CMTI(i))
  /\ UNCHANGED <<chan, pending, pc, ipc, locals, heap>>

\* A frame that is not received behind another one starts at the start of the
\* buffer: it is never so short that it would spare the "+CMTI:" there.
Overwrites(f) == CMTI(first) \in text' => f = CMTI(first)

\* The next frame comes in.
ModemSends ==
  /\ air # <<>>
  /\ Chan!Byte(Head(air))
  /\ air' = Tail(air)
  /\ IF rx = "receiving"
       THEN UNCHANGED first
       ELSE /\ Overwrites(Head(air))
            /\ first' = IF Head(air).kind = "cmti" /\ Head(air) \in text'
                          THEN Head(air).n ELSE 0
  /\ pending' = {i \in Sms : CMTI(i) \in text' /\ (i \in pending \/ Head(air) = CMTI(i))}
  /\ UNCHANGED <<sim, pc, ipc, locals, heap>>

LineSilent ==
  /\ Chan!Silence
  /\ UNCHANGED <<first, air, sim, pending, pc, ipc, locals, heap>>

Flagged == rx = "complete"

\* A thread clears the buffer with memset.
Clear == Chan!Clear /\ first' = 0

\* rt_strstr on the buffer.
Found(k) == \E f \in text : f.kind = k

-----------------------------------------------------------------------------
(* The kernel's services.                                                  *)

\* rt_sem_release: hand the token to the suspended reader, or count it.
rt_sem_release ==
  IF pc["read"] = "sem"
    THEN /\ pc' = [pc EXCEPT !["poll"] = "rest", !["read"] = "malloc"]
         /\ UNCHANGED sem
    ELSE /\ Goto("poll", "rest")
         /\ sem' = IF sem + 1 = SemRange THEN 0 ELSE sem + 1

\* Faulty variants: one mail too many, and a sender that is not resumed.
rt_mb_send_overfills(t, m, l) ==
  IF Len(queue) <= MailSize
    THEN /\ queue' = Append(queue, m)
         /\ pc' = [pc EXCEPT ![t] = l,
                             !["send"] = IF @ = "mail" THEN "top" ELSE @]
    ELSE Goto(t, l) /\ UNCHANGED queue

rt_mb_send_unheard(t, m, l) ==
  /\ queue' = IF Len(queue) < MailSize THEN Append(queue, m) ELSE queue
  /\ Goto(t, l)

\* rt_mb_send by thread t, which goes on at l.  A full mailbox drops the mail
\* and nobody looks at the result.
rt_mb_send(t, m, l) ==
  IF Len(queue) < MailSize
    THEN /\ queue' = Append(queue, m)
         /\ pc' = [pc EXCEPT ![t] = l,
                             !["send"] = IF @ = "mail" THEN "top" ELSE @]
    ELSE Goto(t, l) /\ UNCHANGED queue

\* rt_malloc may fail at any time: the heap has other users.  It is first-fit,
\* so the same free blocks give the same block.
CanAllocate == Blocks \ alloc # {}
FirstFit == CHOOSE b \in Blocks : b \notin alloc
rt_free(b) == alloc' = alloc \ {b}

-----------------------------------------------------------------------------
(* main: scm800c_init, then Smart_IOT_Center starts the threads.           *)

Init ==
  /\ Chan!Init
  /\ first = 0
  /\ air = <<>>
  /\ sim = {}
  /\ pc = [t \in Threads |-> IF t = "main" THEN "boot" ELSE "off"]
  /\ lock = "none"
  /\ naps = <<>>
  /\ sem = 0
  /\ queue = <<>>
  /\ val = "none"
  /\ step = 0
  /\ asked = 0
  /\ pending = {}
  /\ alloc = {}
  /\ point = NULL
  /\ prt_backup = NULL

Setup == <<"CMGF", "CMGF", "CSCS", "CNMI">>

StartThreads ==
  /\ pc' = [t \in Threads |-> IF t = "main" THEN "dead" ELSE "top"]
  /\ step' = 0
  /\ pending' = {}

MainBegins ==
  /\ pc["main"] = "boot"
  /\ usart2_senddata(Answer(Setup[1]))
  /\ step' = 1
  /\ Goto("main", "await")
  /\ UNCHANGED <<chan, pending>>

\* The answer is only printed.  The first one stays in the buffer.
MainAnswered ==
  /\ pc["main"] = "await"
  /\ Flagged
  /\ Chan!Consume
  /\ IF step = 1 THEN UNCHANGED buffer ELSE Clear
  /\ IF step < Len(Setup)
       THEN /\ usart2_senddata(Answer(Setup[step + 1]))
            /\ step' = step + 1
            /\ UNCHANGED <<pc, pending>>
       ELSE StartThreads /\ UNCHANGED air

\* A time-out of scm800c_init ends it, and the system starts all the same.
MainTimesOut ==
  /\ pc["main"] = "await"
  /\ ~Flagged
  /\ StartThreads
  /\ UNCHANGED <<chan, air>>

main ==
  /\ CanRun("main")
  /\ MainBegins \/ MainAnswered \/ MainTimesOut
  /\ UNCHANGED <<sim, ipc, val, asked, heap>>

-----------------------------------------------------------------------------
(* GSM_thread: test the flag, clear it, release the semaphore.             *)

PollLooks ==
  /\ pc["poll"] = "top"
  /\ Goto("poll", IF Flagged THEN "clear" ELSE "rest")
  /\ UNCHANGED <<chan, naps, sem>>

PollClears ==
  /\ pc["poll"] = "clear"
  /\ Chan!Consume
  /\ Goto("poll", "release")
  /\ UNCHANGED <<buffer, naps, sem>>

\* The reader runs at once when it was waiting, before the pass goes on.
PollReleases ==
  /\ pc["poll"] = "release"
  /\ rt_sem_release
  /\ UNCHANGED <<chan, naps>>

PollRests ==
  /\ pc["poll"] = "rest"
  /\ Nap("poll")
  /\ UNCHANGED <<chan, sem>>

GSM_thread ==
  /\ CanRun("poll")
  /\ PollLooks \/ PollClears \/ PollReleases \/ PollRests
  /\ UNCHANGED <<air, sim, pending, lock, queue, locals, heap>>

-----------------------------------------------------------------------------
(* GSM_read_thread.                                                        *)

\* rt_sem_take with RT_WAITING_FOREVER.
ReadTakes ==
  /\ pc["read"] = "top"
  /\ IF sem > 0 THEN sem' = sem - 1 /\ Goto("read", "malloc")
                ELSE UNCHANGED sem /\ Goto("read", "sem")
  /\ UNCHANGED <<chan, air, naps, queue, asked, pending, alloc, point>>

\* rt_malloc(256); without memory the thread returns for good.
ReadAllocates ==
  /\ pc["read"] = "malloc"
  /\ \/ /\ CanAllocate
        /\ alloc' = alloc \cup {FirstFit}
        /\ point' = FirstFit
        /\ Goto("read", "look")
     \/ /\ point' = NULL
        /\ Goto("read", "dead")
        /\ UNCHANGED alloc
  /\ UNCHANGED <<chan, air, naps, sem, queue, asked, pending>>

\* No announcement in the buffer: nothing to read.
ReadFindsNothing ==
  /\ pc["read"] = "look"
  /\ ~Found("cmti")
  /\ Goto("read", "finish")
  /\ UNCHANGED <<chan, air, naps, sem, queue, asked, pending, alloc, point>>

\* The message at place i was announced: delete all of them, or ask for it.
ReadFinds(i) ==
  /\ pc["read"] = "look"
  /\ CMTI(i) \in text
  /\ IF StrcmpAtLeast99(i)
       THEN /\ usart2_senddata(Answer("CMGD"))
            /\ Goto("read", "cmgd")
            /\ pending' = {}
            /\ UNCHANGED <<chan, asked>>
       ELSE /\ Chan!Consume
            /\ Clear
            /\ asked' = i
            /\ usart2_senddata(SMS(i))
            /\ Goto("read", "cmgr1")
            /\ pending' = pending \ {i}
  /\ UNCHANGED <<naps, sem, queue, alloc, point>>

\* The messages are deleted: goto loop, with the buffer as it is.
ReadDeleted ==
  /\ pc["read"] = "cmgd"
  /\ Flagged
  /\ Chan!Consume
  /\ Goto("read", "look")
  /\ UNCHANGED <<buffer, air, naps, sem, queue, asked, pending, alloc, point>>

\* The first answer is thrown away and the message asked for again.
ReadAsksAgain ==
  /\ pc["read"] = "cmgr1"
  /\ Flagged
  /\ Chan!Consume
  /\ Clear
  /\ usart2_senddata(SMS(asked))
  /\ Goto("read", "cmgr2")
  /\ UNCHANGED <<naps, sem, queue, asked, pending, alloc, point>>

ReadAnswered ==
  /\ pc["read"] = "cmgr2"
  /\ Flagged
  /\ Chan!Consume
  /\ asked' = 0
  /\ Goto("read", "decide")
  /\ UNCHANGED <<buffer, air, naps, sem, queue, pending, alloc, point>>

\* Faulty variant: a time-out frees the block and goes on to LOOP.
ReadTimesOutToLoop ==
  /\ pc["read"] \in {"cmgd", "cmgr1", "cmgr2"}
  /\ ~Flagged
  /\ rt_free(point)
  /\ asked' = 0
  /\ Goto("read", "finish")
  /\ UNCHANGED <<chan, air, naps, sem, queue, pending, point>>

\* Each of the three waits: free the block and return for good.
ReadTimesOut ==
  /\ pc["read"] \in {"cmgd", "cmgr1", "cmgr2"}
  /\ ~Flagged
  /\ rt_free(point)
  /\ point' = NULL
  /\ asked' = 0
  /\ Goto("read", "dead")
  /\ UNCHANGED <<chan, air, naps, sem, queue, pending>>

Reply(b) == CASE b = "report status" -> "report_status"
              [] b = "mode"          -> "set_ok"
              [] b = "other"         -> "tips"

\* Answer the first command that is found; a message that did not come through
\* has none.  The mode that an order sets is kept by Home, whose thread "read"
\* draws and sets it.
ReadDecides ==
  /\ pc["read"] = "decide"
  /\ \E b \in Bodies :
       /\ b = "other" \/ Found("sms")
       /\ rt_mb_send("read", Reply(b), "finish")
  /\ UNCHANGED <<chan, air, naps, sem, asked, pending, alloc, point>>

\* LOOP: clear the buffer, free the block if there is one, rest.
ReadFinishes ==
  /\ pc["read"] = "finish"
  /\ Clear
  /\ IF point # NULL THEN rt_free(point) ELSE UNCHANGED alloc
  /\ Nap("read")
  /\ UNCHANGED <<rx, air, sem, queue, asked, pending, point>>

GSM_read_thread ==
  /\ CanRun("read")
  /\ \/ ReadTakes \/ ReadAllocates \/ ReadFindsNothing
     \/ \E i \in Sms : ReadFinds(i)
     \/ ReadDeleted \/ ReadAsksAgain \/ ReadAnswered \/ ReadTimesOut
     \/ ReadDecides \/ ReadFinishes
  /\ UNCHANGED <<sim, lock, val, step, prt_backup>>

-----------------------------------------------------------------------------
(* GSM_send_thread and GSM_SendSMS.                                        *)

\* The lines of the message: readings of the sensors, a hint, or one word.
Lines(m) == CASE m = "report_status" -> 3 [] m = "tips" -> 4 [] OTHER -> 1

\* The commands of GSM_SendSMS, each followed by a wait for the flag.
Dial == <<"AT", "CMGF", "CSCS", "CNMI", "CMGS">>
Script(m) == Dial \o [i \in 1 .. Lines(m) |-> "text"] \o <<"1A">>

\* rt_mb_recv with RT_WAITING_FOREVER.
SendTakes ==
  /\ pc["send"] = "top"
  /\ IF queue # <<>>
       THEN /\ val' = Head(queue)
            /\ queue' = Tail(queue)
            /\ Goto("send", "got")
       ELSE Goto("send", "mail") /\ UNCHANGED <<val, queue>>
  /\ UNCHANGED <<chan, air, lock, step, alloc, prt_backup>>

\* GSM_SendSMS returns and rt_exit_critical follows.
SendReturns ==
  /\ lock' = "none"
  /\ Goto("send", "sleep")
  /\ val' = "none"
  /\ step' = 0

\* Faulty variant: the scheduler is not locked.
SendBeginsUnlocked ==
  /\ pc["send"] = "got"
  /\ CanAllocate
  /\ alloc' = alloc \cup {FirstFit}
  /\ prt_backup' = FirstFit
  /\ usart2_senddata(Answer("AT"))
  /\ step' = 1
  /\ Goto("send", "await")
  /\ UNCHANGED <<chan, queue, lock, val>>

\* rt_enter_critical, rt_malloc(256), the first command.  Without memory
\* GSM_SendSMS returns at once.
SendBegins ==
  /\ pc["send"] = "got"
  /\ \/ /\ CanAllocate
        /\ alloc' = alloc \cup {FirstFit}
        /\ prt_backup' = FirstFit
        /\ usart2_senddata(Answer("AT"))
        /\ step' = 1
        /\ lock' = "send"
        /\ Goto("send", "await")
        /\ UNCHANGED val
     \/ SendReturns /\ UNCHANGED <<air, alloc, prt_backup>>
  /\ UNCHANGED <<chan, queue>>

\* The flag is set: clear it, then look at the answer.
SendAnswered ==
  /\ pc["send"] = "await"
  /\ Flagged
  /\ Chan!Consume
  /\ Goto("send", "answered")
  /\ UNCHANGED <<buffer, air, lock, queue, val, step, alloc, prt_backup>>

\* No "OK" to the first command: return, with the block still allocated.
SendUnavailable ==
  /\ pc["send"] = "answered"
  /\ step = 1
  /\ ~Found("OK")
  /\ SendReturns
  /\ UNCHANGED <<chan, air, queue, alloc, prt_backup>>

\* The next command.  The buffer is cleared after the first answer and
\* around the final 0x1A.
SendContinues ==
  /\ pc["send"] = "answered"
  /\ step < Len(Script(val))
  /\ step = 1 => Found("OK")
  /\ Script(val)[step] = "CMGS" => Found("> ")
  /\ IF step = 1 \/ Script(val)[step + 1] = "1A" THEN Clear ELSE UNCHANGED buffer
  /\ usart2_senddata(Answer(Script(val)[step + 1]))
  /\ step' = step + 1
  /\ Goto("send", "await")
  /\ UNCHANGED <<rx, lock, queue, val, alloc, prt_backup>>

\* The modem gave no prompt, or has taken the message: a last 0x1A, the
\* block is freed and the buffer cleared.
SendEnds ==
  /\ pc["send"] = "answered"
  /\ \/ step = Len(Script(val))
     \/ Script(val)[step] = "CMGS" /\ ~Found("> ")
  /\ usart2_senddata(Answer("1A"))
  /\ rt_free(prt_backup)
  /\ Clear
  /\ SendReturns
  /\ UNCHANGED <<rx, queue, prt_backup>>

\* Faulty variant: a wait without a time-out, as it was before July 2019
\* (Readme).
SendWaitsOn ==
  /\ pc["send"] = "await"
  /\ ~Flagged
  /\ UNCHANGED <<chan, air, pc, lock, queue, val, step, alloc, prt_backup>>

\* Each of the waits: free the block and return.
SendTimesOut ==
  /\ pc["send"] = "await"
  /\ ~Flagged
  /\ rt_free(prt_backup)
  /\ prt_backup' = NULL
  /\ SendReturns
  /\ UNCHANGED <<chan, air, queue>>

GSM_send_thread ==
  /\ CanRun("send")
  /\ \/ SendTakes \/ SendBegins \/ SendAnswered \/ SendUnavailable
     \/ SendContinues \/ SendEnds \/ SendTimesOut
  /\ UNCHANGED <<sim, pending, naps, sem, asked, point>>

-----------------------------------------------------------------------------
(* The threads outside the subsystem, as far as they touch its state.      *)

\* security_thread mails an alarm.  An intruder counts only in mode OUT, which
\* the touch screen, the remote and the web server set at any time, as the
\* short messages do: the mode is kept by Home, and here it may be either.
security_thread ==
  /\ CanRun("security")
  /\ \E m \in Alarms : rt_mb_send("security", m, "top")
  /\ UNCHANGED <<chan, air, sim, pending, lock, naps, sem, locals, heap>>

Next ==
  \/ WakeNap \/ WakeSend
  \/ \E i \in Sms : ModemStores(i)
  \/ ModemSends \/ LineSilent
  \/ main \/ GSM_thread \/ GSM_read_thread \/ GSM_send_thread
  \/ security_thread

Spec == Init /\ [][Next]_vars

-----------------------------------------------------------------------------

\* Sleeps end and the silence after a frame is noticed.  The scheduler runs
\* the most urgent ready thread; a thread that gets ready again and again runs
\* at last, because the more urgent ones sleep for 10 ms between their passes.
\* Nothing is assumed of the modem, which may be silent for ever.
Fairness ==
  /\ WF_vars(WakeNap)
  /\ WF_vars(WakeSend)
  /\ WF_vars(LineSilent)
  /\ WF_vars(main)
  /\ SF_vars(GSM_thread)
  /\ SF_vars(GSM_read_thread)
  /\ SF_vars(GSM_send_thread)

FairSpec == Spec /\ Fairness

-----------------------------------------------------------------------------
(* Properties.                                                             *)

MainPlaces == {"boot", "await", "dead"}
PollPlaces == {"off", "top", "clear", "release", "rest", "nap"}
ReadWaits  == {"cmgd", "cmgr1", "cmgr2"}
ReadOwns   == ReadWaits \cup {"look", "decide", "finish"}
ReadPlaces == ReadOwns \cup {"off", "top", "sem", "malloc", "nap", "dead"}
SendOwns   == {"await", "answered"}
SendPlaces == SendOwns \cup {"off", "top", "mail", "got", "sleep"}
Places     == MainPlaces \cup PollPlaces \cup ReadPlaces \cup SendPlaces

PlacesOK ==
  /\ pc \in [Threads -> Places]
  /\ pc["main"] \in MainPlaces
  /\ pc["poll"] \in PollPlaces
  /\ pc["read"] \in ReadPlaces
  /\ pc["send"] \in SendPlaces
  /\ pc["security"] \in {"off", "top"}
  /\ lock \in {"none", "send"}

\* Type invariant of the subsystem's state.
TypeOK ==
  /\ Chan!ChannelTypeOK
  /\ first \in Sms \cup {0}
  /\ air \in Seq(Frames)
  /\ sim \subseteq Sms
  /\ pending \subseteq Sms
  /\ PlacesOK
  /\ naps \in Seq({"poll", "read"})
  /\ sem \in 0 .. SemRange - 1
  /\ queue \in Seq(Mails) /\ Len(queue) <= MailSize
  /\ val \in Mails \cup {"none"}
  /\ step \in Nat
  /\ asked \in Sms \cup {0}
  /\ alloc \subseteq Blocks
  /\ point \in Blocks \cup {NULL}
  /\ prt_backup \in Blocks \cup {NULL}

Waiting(t) == pc[t] \in {"await"} \cup ReadWaits

\* The answer to a command reaches the thread that sent it (main.c 191): while
\* a thread waits for the modem no other thread of the subsystem can run, so
\* none of them clears the flag or the buffer under it.  GSM_send_thread owes
\* that to rt_enter_critical, GSM_read_thread to its priority.
DialogueExclusive ==
  \A t, u \in Threads : Waiting(t) /\ CanRun(u) => u = t

\* Every rt_free of GSM_read_thread and GSM_SendSMS is of a block that is
\* allocated (main.c 250, 278, 296, 370; bsp_gsm.c 148, 519), in spite of the
\* pointers that outlive their blocks: each thread keeps its own block until
\* it frees it itself.
HeapOwned ==
  /\ pc["read"] \in ReadOwns => point \in alloc
  /\ pc["send"] \in SendOwns => prt_backup \in alloc

\* As long as GSM_read_thread lives, GSM_sem_read is the binary semaphore that
\* main.c 386 speaks of: at most one token, because both threads rest for the
\* same 10 ms and the reader is the more urgent one.
OneToken == pc["read"] # "dead" => sem <= 1

\* The threads use the channel as FrameChannel allows it: they write
\* USART_RX2_STA = 0 (main.c 394, bsp_gsm.c 256), clear the buffer, or do both,
\* and the rest is the modem's.
UsesChannel ==
  /\ Chan!Init
  /\ [][Chan!Next \/ (Chan!Consume /\ Chan!Clear)]_<<rx, text>>

\* An answer that has arrived is not taken from the thread that waits for it
\* (main.c 191): the flag goes down only because that thread saw it and goes on,
\* or because the modem sends more.
AnswerNotTaken ==
  [][\A t \in Threads :
       Waiting(t) /\ Flagged /\ ~Flagged' =>
         \/ pc'[t] # pc[t] \/ step' # step
         \/ air # <<>> /\ air' = Tail(air)]_vars

\* Mails are sent as messages in the order in which GSM_mq_send accepted them,
\* each of them once, and the next one is taken only when GSM_SendSMS is through
\* with the last (main.c 188).
MailsInOrder ==
  [][\/ \E m \in Mails : Len(queue) < MailSize /\ queue' = Append(queue, m) /\ val' = val
     \/ queue # <<>> /\ queue' = Tail(queue) /\ val = "none" /\ val' = Head(queue)
     \/ queue' = queue /\ val' = "none"]_<<queue, val>>

\* A block is taken out of use only by the thread that obtained it, and at the
\* end of its pass or of its message (main.c 250, 370; bsp_gsm.c 148, 519).
FreedByOwner ==
  [][\A b \in alloc \ alloc' :
       \/ b = point /\ pc["read"] \in ReadOwns /\ pc'["read"] \notin ReadOwns
       \/ b = prt_backup /\ pc["send"] \in SendOwns /\ pc'["send"] \notin SendOwns]_vars

\* GSM_send_thread never keeps the scheduler locked for ever: whatever the
\* modem does, each wait of GSM_SendSMS ends (bsp_gsm.c 141).
LockReleased == lock = "send" ~> lock = "none"

\* A mail in GSM_mq_send is taken out in the end (main.c 188), also when it was
\* put there while GSM_send_thread slept, unless GSM_read_thread gets to delete
\* all messages: see LoopEnds.
MailTaken == queue # <<>> ~> pc["send"] = "got" \/ pc["read"] = "cmgd"

\* main.c 243 (and 271, 289), "use the tick of the system to judge the time-out,
\* to avoid an accidental endless loop": GSM_read_thread, the most urgent of the
\* GSM threads, gives the processor back.
LoopEnds == pc["read"] \in ReadOwns ~> pc["read"] \notin ReadOwns

\* main.c 395, "when a message is received, wake GSM_read_thread": no
\* thread wipes an announcement out of the buffer that GSM_read_thread has not
\* acted on.
AnnouncementKept == pc["main"] = "dead" => \A i \in pending : CMTI(i) \in text
=============================================================================
