-------------------------------- MODULE Net ---------------------------------
(***************************************************************************)
(* The network: the driver of the DM9000 (applications/dm9000.c), the      *)
(* thread that polls it (ethernetif.c), lwIP's thread with its DHCP client *)
(* (tcpip.c, dhcp.c), and lwip_dhcp_task (lwip_comm.c), which waits for an *)
(* address and falls back to a fixed one.                                  *)
(*                                                                         *)
(* tcpip is more urgent than input, and input more urgent than dhcp; the   *)
(* chip is shared under the semaphore dm9000lock.  lwip_dhcp_task writes   *)
(* the interface and stops the client from outside lwIP's thread, and it   *)
(* waits in a busy loop: no thread of the home runs before it has ended.   *)
(***************************************************************************)
EXTENDS Integers, Sequences

CONSTANTS
  Pool,       \* PBUF_POOL_SIZE
  MboxSize,   \* TCPIP_MBOX_SIZE
  InpktMsgs,  \* MEMP_NUM_TCPIP_MSG_INPKT
  MaxTries,   \* LWIP_MAX_DHCP_TRIES
  TopTries    \* tries is counted up to here: larger values act alike

ASSUME NetAssumption ==
  /\ {Pool, MboxSize, InpktMsgs} \subseteq Nat \ {0}
  /\ {MaxTries, TopTries} \subseteq Nat
  /\ TopTries > MaxTries /\ TopTries > 8

Threads == {"tcpip", "input", "dhcp"}
Replies == {"OFFER", "ACK", "NAK", "ARP"}
Frames  == Replies \cup {"data"}
States  == {"OFF", "SELECTING", "REQUESTING", "CHECKING", "BOUND", "BACKING_OFF",
            "RENEWING", "REBINDING"}

VARIABLES
  value, waiters,          \* dm9000lock
  pc,                      \* where each thread is
  stopped,                 \* DM9000_Receive_Packet has stopped the device
  free, p, mbox, work,     \* pbufs: in the pool, of input, in mbox, of tcpip
  held,                    \* and in the queues of TCP
  todo,                    \* what tcpip does once its packet is sent
  state, tries, armed,     \* of the DHCP client; armed: request_timeout > 0
  ip, up,                  \* lwip_netif: address, NETIF_FLAG_UP
  leased,                  \* an address has been bound: t1_timeout is set
  seen, devip, dhcpstatus  \* the address lwip_dhcp_task read, and lwipdev

lock   == <<value, waiters>>
pbufs  == <<free, p, mbox, work, held>>
client == <<state, tries, armed>>
netif  == <<ip, up, leased>>
task   == <<seen, devip, dhcpstatus>>
vars   == <<lock, pc, stopped, pbufs, todo, client, netif, task>>

\* lwip_comm_init has made the semaphore and the three threads.
Init ==
  /\ value = 1 /\ waiters = <<>>
  /\ pc = [tcpip |-> "idle", input |-> "want", dhcp |-> "start"]
  /\ stopped = FALSE
  /\ free = Pool /\ p = "none" /\ mbox = <<>> /\ work = "none" /\ held = 0
  /\ todo = "none"
  /\ state = "OFF" /\ tries = 0 /\ armed = FALSE
  /\ ip = "ANY" /\ up = TRUE /\ leased = FALSE
  /\ seen = "ANY" /\ devip = "STATIC" /\ dhcpstatus = 0

-----------------------------------------------------------------------------
(* The scheduler and the semaphore.                                        *)

Ready(t) ==
  CASE t = "tcpip" -> pc[t] \in {"want", "own", "sent"}
                      \/ (pc[t] = "idle" /\ mbox # <<>>)
    [] t = "input" -> pc[t] \notin {"wait", "sleep"}
    [] t = "dhcp"  -> pc[t] \notin {"wait", "done"}

\* Faulty variant: dhcp is as urgent as tcpip.
MoreUrgentNot(t) == IF t = "tcpip" THEN {} ELSE IF t = "input" THEN {"tcpip"} ELSE {"input"}

\* RT_LWIP_TCPTHREAD_PRIORITY, LWIP_DM9000_INPUT_TASK_PRIO, LWIP_DHCP_TASK_PRIO.
MoreUrgent(t) == CASE t = "tcpip" -> {}
                   [] t = "input" -> {"tcpip"}
                   [] t = "dhcp"  -> {"tcpip", "input"}

\* Thread t is at l and has the processor.
Runs(t, l) == pc[t] = l /\ \A u \in MoreUrgent(t) : ~Ready(u)

\* rt_sem_take, for ever.
Take(t) ==
  /\ Runs(t, "want")
  /\ IF value > 0
       THEN /\ value' = value - 1
            /\ pc' = [pc EXCEPT ![t] = "own"]
            /\ UNCHANGED waiters
       ELSE /\ waiters' = Append(waiters, t)
            /\ pc' = [pc EXCEPT ![t] = "wait"]
            /\ UNCHANGED value
  /\ UNCHANGED <<stopped, pbufs, todo, client, netif, task>>

\* Faulty variant: the first waiter gets the semaphore, and it is counted up.
rt_sem_releaseTwice(t, l) ==
  /\ value' = value + 1
  /\ IF waiters = <<>>
       THEN /\ pc' = [pc EXCEPT ![t] = l]
            /\ UNCHANGED waiters
       ELSE /\ waiters' = Tail(waiters)
            /\ pc' = [pc EXCEPT ![t] = l, ![Head(waiters)] = "own"]

\* rt_sem_release: the thread that has waited longest owns it next.
rt_sem_release(t, l) ==
  IF waiters = <<>>
    THEN /\ value' = value + 1
         /\ pc' = [pc EXCEPT ![t] = l]
         /\ UNCHANGED waiters
    ELSE /\ waiters' = Tail(waiters)
         /\ pc' = [pc EXCEPT ![t] = l, ![Head(waiters)] = "own"]
         /\ UNCHANGED value

\* DM9000_SendPacket: the packet is sent, the semaphore released.
Send(t) ==
  /\ t # "input"
  /\ Runs(t, "own")
  /\ rt_sem_release(t, "sent")
  /\ UNCHANGED <<stopped, pbufs, todo, client, netif, task>>

-----------------------------------------------------------------------------
(* ethernetif_input, with DM9000_Receive_Packet.                           *)

Outside == <<todo, client, netif, task>>

\* Input owns the chip, and holds no pbuf that it has yet to free.
Reads == Runs("input", "own") /\ p = "none"

\* Nothing was received: rt_thread_mdelay(10).
RxNone ==
  /\ Reads
  /\ rt_sem_release("input", "sleep")
  /\ UNCHANGED <<stopped, pbufs, Outside>>

\* The first byte is neither 0 nor 1: the device is stopped, and the
\* semaphore is not released.
RxStop ==
  /\ Reads
  /\ ~stopped
  /\ stopped' = TRUE
  /\ pc' = [pc EXCEPT !["input"] = "sleep"]
  /\ UNCHANGED <<lock, pbufs, Outside>>

Arrives == Reads /\ ~stopped

\* A good frame, and a pbuf for it.
RxFrame(f) ==
  /\ Arrives
  /\ free > 0
  /\ free' = free - 1
  /\ p' = f
  /\ rt_sem_release("input", "deliver")
  /\ UNCHANGED <<stopped, mbox, work, held, Outside>>

\* A frame is read into a pbuf, and its status tells that it is bad.  Without
\* a pbuf it is read and forgotten, and nothing here changes.
RxBad ==
  /\ Arrives
  /\ free > 0
  /\ free' = free - 1
  /\ p' = "bad"
  /\ UNCHANGED <<lock, pc, stopped, mbox, work, held, Outside>>

\* The pbuf of a bad frame is freed, and the next frame is read.
RxDrop ==
  /\ Runs("input", "own")
  /\ p = "bad"
  /\ free' = free + 1
  /\ p' = "none"
  /\ UNCHANGED <<lock, pc, stopped, mbox, work, held, Outside>>

\* A good frame of even length, and no pbuf: it is read and forgotten.
RxNoPbuf ==
  /\ Arrives
  /\ free = 0
  /\ rt_sem_release("input", "sleep")
  /\ UNCHANGED <<stopped, pbufs, Outside>>

\* A frame of odd length, and no pbuf: len passes from 1 to -1, and the loop
\* that reads two bytes while len # 0 does not end.
RxNoPbufOdd ==
  /\ Arrives
  /\ free = 0
  /\ pc' = [pc EXCEPT !["input"] = "hung"]
  /\ UNCHANGED <<lock, stopped, pbufs, Outside>>

Busy == IF work = "none" THEN 0 ELSE 1

\* tcpip_input: without a message, or without room in mbox, it fails, and
\* ethernetif_input frees the pbuf.
Deliver ==
  /\ Runs("input", "deliver")
  /\ p' = "none"
  /\ IF Len(mbox) + Busy < InpktMsgs /\ Len(mbox) < MboxSize
       THEN mbox' = Append(mbox, p) /\ UNCHANGED free
       ELSE free' = free + 1 /\ UNCHANGED mbox
  /\ pc' = [pc EXCEPT !["input"] = "want"]
  /\ UNCHANGED <<lock, stopped, work, held, Outside>>

Wake ==
  /\ pc["input"] = "sleep"
  /\ pc' = [pc EXCEPT !["input"] = "want"]
  /\ UNCHANGED <<lock, stopped, pbufs, Outside>>

input_thread ==
  \/ RxNone \/ RxStop \/ RxBad \/ RxDrop \/ RxNoPbuf \/ RxNoPbufOdd \/ Deliver
  \/ \E f \in Frames : RxFrame(f)

-----------------------------------------------------------------------------
(* The DHCP client, in lwIP's thread.                                      *)

More(n) == IF n < TopTries THEN n + 1 ELSE n

\* dhcp_set_state; running: request_timeout > 0 when it is called.
dhcp_set_state(s, running) ==
  /\ state' = s
  /\ tries' = IF s = state THEN tries ELSE 0
  /\ armed' = (s = state /\ running)

\* The client enters s and sends what s calls for.
Request(s, running) ==
  /\ dhcp_set_state(s, running)
  /\ todo' = "tries"
  /\ pc' = [pc EXCEPT !["tcpip"] = "want"]

NetifSet(a, u) ==
  /\ ip' = a /\ up' = u
  /\ leased' = (leased \/ a = "LEASE")

\* dhcp_bind: an interface that was down announces itself first.
dhcp_bind(running) ==
  /\ NetifSet("LEASE", TRUE)
  /\ IF up
       THEN /\ dhcp_set_state("BOUND", running)
            /\ todo' = "none"
            /\ pc' = [pc EXCEPT !["tcpip"] = "idle"]
       ELSE /\ todo' = "bind"
            /\ armed' = running
            /\ pc' = [pc EXCEPT !["tcpip"] = "want"]
            /\ UNCHANGED <<state, tries>>

\* dhcp_recv, dhcp_arp_reply: the replies that the client's state waits for.
dhcp_recv(f) ==
  \/ /\ f = "OFFER" /\ state = "SELECTING"
     /\ Request("REQUESTING", armed)
     /\ UNCHANGED netif
  \/ /\ f = "ACK" /\ state = "REQUESTING"
     /\ Request("CHECKING", armed)
     /\ UNCHANGED netif
  \/ /\ f = "ACK" /\ state \in {"RENEWING", "REBINDING"}
     /\ dhcp_bind(armed)
  \/ /\ f = "NAK" /\ state \in {"REQUESTING", "RENEWING", "REBINDING"}
     /\ NetifSet("ANY", FALSE)
     /\ Request("SELECTING", armed)
  \/ /\ f = "ARP" /\ state = "CHECKING"
     /\ Request("BACKING_OFF", armed)
     /\ UNCHANGED netif

Awaited(f) ==
  \/ f = "OFFER" /\ state = "SELECTING"
  \/ f = "ACK" /\ state \in {"REQUESTING", "RENEWING", "REBINDING"}
  \/ f = "NAK" /\ state \in {"REQUESTING", "RENEWING", "REBINDING"}
  \/ f = "ARP" /\ state = "CHECKING"

\* tcpip_thread fetches a message.
Fetch ==
  /\ pc["tcpip"] = "idle"
  /\ mbox # <<>>
  /\ mbox' = Tail(mbox)
  /\ UNCHANGED <<p, lock, stopped, task>>

\* A reply for the client; its pbuf is freed when the client has answered.
FetchReply ==
  /\ Fetch
  /\ dhcp_recv(Head(mbox))
  /\ IF pc'["tcpip"] = "idle"
       THEN free' = free + 1 /\ UNCHANGED work
       ELSE work' = Head(mbox) /\ UNCHANGED free
  /\ UNCHANGED held

\* Any other frame is answered, or dropped, or kept in a queue of TCP.
FetchOther ==
  /\ Fetch
  /\ ~Awaited(Head(mbox))
  /\ \/ /\ work' = Head(mbox)
        /\ pc' = [pc EXCEPT !["tcpip"] = "want"]
        /\ UNCHANGED <<free, held>>
     \/ /\ free' = free + 1
        /\ UNCHANGED <<pc, work, held>>
     \/ /\ Head(mbox) = "data"
        /\ held' = held + 1
        /\ UNCHANGED <<pc, work, free>>
  /\ UNCHANGED <<todo, client, netif>>

\* TCP frees what it kept, in order at last, or with its connection.
TcpFrees ==
  /\ pc["tcpip"] = "idle"
  /\ held > 0
  /\ held' = held - 1
  /\ free' = free + 1
  /\ UNCHANGED <<p, mbox, work, lock, pc, stopped, Outside>>

\* dhcp_timeout, called by dhcp_fine_tmr when request_timeout has become 0.
dhcp_timeout ==
  \/ /\ state \in {"SELECTING", "BACKING_OFF"}
     /\ Request("SELECTING", FALSE)
     /\ UNCHANGED netif
  \/ /\ \/ state = "REQUESTING" /\ tries <= 5
        \/ state = "CHECKING" /\ tries <= 1
        \/ state = "RENEWING"
        \/ state = "REBINDING" /\ tries <= 8
     /\ Request(state, FALSE)
     /\ UNCHANGED netif
  \/ /\ state = "CHECKING" /\ tries > 1
     /\ dhcp_bind(FALSE)
  \/ /\ \/ state = "REQUESTING" /\ tries > 5
        \/ state = "REBINDING" /\ tries > 8
     /\ dhcp_set_state("OFF", FALSE)
     /\ todo' = "release"
     /\ pc' = [pc EXCEPT !["tcpip"] = "want"]
     /\ UNCHANGED netif
  \/ /\ state \in {"OFF", "BOUND"}
     /\ armed' = FALSE
     /\ UNCHANGED <<pc, todo, state, tries, netif>>

FineTimer ==
  /\ pc["tcpip"] = "idle"
  /\ armed
  /\ dhcp_timeout
  /\ UNCHANGED <<lock, stopped, pbufs, task>>

\* dhcp_coarse_tmr: the lease is to be renewed (t1), or bound anew (t2).  Both
\* times run on when the lease is lost.  (Without any they start at 0, below
\* which they go on from 65535 minutes: 45 days, which are left out.)
CoarseTimer ==
  /\ pc["tcpip"] = "idle"
  /\ leased
  /\ state \in {"REQUESTING", "BOUND", "RENEWING"}
  /\ Request("RENEWING", armed) \/ Request("REBINDING", armed)
  /\ UNCHANGED <<lock, stopped, pbufs, netif, task>>

\* Faulty variant: only the replies of a server are freed.
FinishKeeps ==
  /\ pc["tcpip"] = "sent"
  /\ tries' = IF todo = "tries" THEN More(tries) ELSE tries
  /\ free' = free + (IF work \in Replies THEN 1 ELSE 0)
  /\ work' = "none"
  /\ armed' = TRUE
  /\ todo' = "none"
  /\ pc' = [pc EXCEPT !["tcpip"] = "idle"]
  /\ UNCHANGED <<state, netif, p, mbox, held, lock, stopped, task>>

\* The packet is sent: the rest of the handler that sent it.
Finish ==
  /\ pc["tcpip"] = "sent"
  /\ CASE todo = "tries" ->
            /\ tries' = More(tries) /\ armed' = TRUE
            /\ UNCHANGED <<state, netif>>
       [] todo = "bind" ->
            /\ dhcp_set_state("BOUND", armed)
            /\ UNCHANGED netif
       [] todo = "release" ->
            /\ NetifSet("ANY", FALSE)
            /\ dhcp_set_state("SELECTING", TRUE)
       [] todo = "none" ->
            UNCHANGED <<client, netif>>
  /\ IF todo = "release"
       THEN /\ todo' = "tries"
            /\ pc' = [pc EXCEPT !["tcpip"] = "want"]
            /\ UNCHANGED <<work, free>>
       ELSE /\ todo' = "none"
            /\ pc' = [pc EXCEPT !["tcpip"] = "idle"]
            /\ work' = "none"
            /\ free' = free + Busy
  /\ UNCHANGED <<p, mbox, held, lock, stopped, task>>

tcpip_thread == FetchReply \/ FetchOther \/ FineTimer \/ Finish

-----------------------------------------------------------------------------
(* lwip_dhcp_task.                                                         *)

\* dhcp_start, in this thread: the first DISCOVER.
dhcp_start ==
  /\ Runs("dhcp", "start")
  /\ dhcp_set_state("SELECTING", armed)
  /\ pc' = [pc EXCEPT !["dhcp"] = "want"]
  /\ UNCHANGED <<lock, stopped, pbufs, todo, netif, task>>

Started ==
  /\ Runs("dhcp", "sent")
  /\ tries' = More(tries) /\ armed' = TRUE
  /\ dhcpstatus' = 0
  /\ pc' = [pc EXCEPT !["dhcp"] = "poll"]
  /\ UNCHANGED <<state, seen, devip, lock, stopped, pbufs, todo, netif>>

\* The address is read once, and judged afterwards.
Poll ==
  /\ Runs("dhcp", "poll")
  /\ seen' = ip
  /\ pc' = [pc EXCEPT !["dhcp"] = "test"]
  /\ UNCHANGED <<devip, dhcpstatus, lock, stopped, pbufs, todo, client, netif>>

\* Faulty variant: the address is taken without a look at it.
TestBlind ==
  /\ Runs("dhcp", "test")
  /\ dhcpstatus' = 2 /\ devip' = seen
  /\ pc' = [pc EXCEPT !["dhcp"] = "stop"]
  /\ UNCHANGED <<seen, lock, stopped, pbufs, todo, client, netif>>

\* Faulty variant: the count is tested for equality, as if none was missed.
TestEqual ==
  /\ Runs("dhcp", "test")
  /\ IF seen # "ANY"
       THEN dhcpstatus' = 2 /\ devip' = seen /\ pc' = [pc EXCEPT !["dhcp"] = "stop"]
       ELSE IF tries = MaxTries
         THEN dhcpstatus' = 255 /\ pc' = [pc EXCEPT !["dhcp"] = "static"] /\ UNCHANGED devip
         ELSE pc' = [pc EXCEPT !["dhcp"] = "poll"] /\ UNCHANGED <<devip, dhcpstatus>>
  /\ UNCHANGED <<seen, lock, stopped, pbufs, todo, client, netif>>

Test ==
  /\ Runs("dhcp", "test")
  /\ \/ /\ seen # "ANY"
        /\ dhcpstatus' = 2
        /\ devip' = seen
        /\ pc' = [pc EXCEPT !["dhcp"] = "stop"]
     \/ /\ seen = "ANY" /\ tries > MaxTries
        /\ dhcpstatus' = 255
        /\ pc' = [pc EXCEPT !["dhcp"] = "static"]
        /\ UNCHANGED devip
     \/ /\ seen = "ANY" /\ tries <= MaxTries
        /\ pc' = [pc EXCEPT !["dhcp"] = "poll"]
        /\ UNCHANGED <<dhcpstatus, devip>>
  /\ UNCHANGED <<seen, lock, stopped, pbufs, todo, client, netif>>

\* The fixed address, whatever the client has bound by now.
Static ==
  /\ Runs("dhcp", "static")
  /\ ip' = devip
  /\ pc' = [pc EXCEPT !["dhcp"] = "stop"]
  /\ UNCHANGED <<up, leased, lock, stopped, pbufs, todo, client, task>>

\* Faulty variant: the client is taken from the interface, and not switched off.
dhcp_stopKeeps ==
  /\ Runs("dhcp", "stop")
  /\ pc' = [pc EXCEPT !["dhcp"] = "done"]
  /\ UNCHANGED <<lock, stopped, pbufs, todo, client, netif, task>>

\* dhcp_stop keeps the address; nobody renews its lease afterwards.
dhcp_stop ==
  /\ Runs("dhcp", "stop")
  /\ dhcp_set_state("OFF", armed)
  /\ pc' = [pc EXCEPT !["dhcp"] = "done"]
  /\ UNCHANGED <<lock, stopped, pbufs, todo, netif, task>>

lwip_dhcp_task == dhcp_start \/ Started \/ Poll \/ Test \/ Static \/ dhcp_stop

-----------------------------------------------------------------------------
Next ==
  \/ \E t \in Threads : Take(t) \/ Send(t)
  \/ input_thread \/ Wake
  \/ tcpip_thread \/ CoarseTimer \/ TcpFrees
  \/ lwip_dhcp_task

Spec == Init /\ [][Next]_vars

\* The urgent threads have nothing to do for a moment.
Pause == \A u \in MoreUrgent("dhcp") : ~Ready(u)

\* Every thread that has the processor goes on, sleeps and timers end, and the
\* traffic pauses again and again (the retries are seconds apart, the sleep of
\* 10 ms is longer than a packet), so that the least urgent thread runs.
\* Send assumes a chip that finishes: its loop (dm9000.c 362) has no timeout.
FairSpec ==
  /\ Spec
  /\ []<>(Pause \/ pc["input"] = "hung")
  /\ \A t \in {"tcpip", "input"} : WF_vars(Take(t) \/ Send(t))
  /\ SF_vars(Take("dhcp") \/ Send("dhcp"))
  /\ WF_vars(input_thread) /\ WF_vars(Wake)
  /\ SF_vars(FineTimer) /\ WF_vars(FetchReply \/ FetchOther) /\ WF_vars(Finish)
  /\ SF_vars(lwip_dhcp_task)

-----------------------------------------------------------------------------
(* Properties.                                                             *)

\* Type invariant.
TypeOK ==
  /\ value \in {0, 1} /\ waiters \in Seq(Threads)
  /\ pc \in [Threads -> {"idle", "want", "wait", "own", "sent", "sleep", "deliver",
                         "hung", "start", "poll", "test", "static", "stop", "done"}]
  /\ stopped \in BOOLEAN /\ armed \in BOOLEAN /\ up \in BOOLEAN
  /\ leased \in BOOLEAN
  /\ free \in 0 .. Pool /\ held \in 0 .. Pool
  /\ p \in Frames \cup {"none", "bad"} /\ work \in Frames \cup {"none"}
  /\ mbox \in Seq(Frames) /\ Len(mbox) <= MboxSize
  /\ todo \in {"none", "tries", "bind", "release"}
  /\ state \in States /\ tries \in 0 .. TopTries
  /\ ip \in {"ANY", "LEASE", "STATIC"} /\ seen \in {"ANY", "LEASE"}
  /\ devip \in {"LEASE", "STATIC"}
  /\ dhcpstatus \in {0, 2, 255}

Owners == {t \in Threads : pc[t] \in {"own", "hung"}}

\* The chip has one owner at a time, and the semaphore gets lost in one way
\* only: the return at dm9000.c 398, after which nobody owns it for ever.
LockHeld ==
  /\ value = 1 => Owners = {} /\ waiters = <<>>
  /\ \A t, u \in Owners : t = u
  /\ value = 0 /\ Owners = {} => stopped
  /\ stopped => value = 0 /\ Owners = {}

Owner == IF Owners = {} THEN "nobody" ELSE CHOOSE t \in Threads : t \in Owners

Chip == INSTANCE ChipLock WITH Receiver <- "input", Nobody <- "nobody",
                               owner <- Owner, line <- waiters, lost <- stopped

\* The semaphore is the fair lock of ChipLock (dm9000.c 334, 387): it is handed
\* to the threads in the order in which they asked for it, and a thread that
\* comes later never overtakes one that waits.
RefinesLock == Chip!Spec

\* No pbuf is lost or counted twice on the way from the chip to lwIP, a
\* refused or bad frame included (dm9000.c 440, ethernetif.c 69).
PbufsAccounted ==
  free + Len(mbox) + held + Busy + (IF p = "none" THEN 0 ELSE 1) = Pool

\* Once lwip_dhcp_task has called dhcp_stop (lwip_comm.c 292), the client stays
\* off: lwIP's thread is never in the middle of a handler that would set its
\* state, or use the pcb that dhcp_stop has removed, unless it waits there for
\* the lost semaphore.
OffStaysOff ==
  pc["dhcp"] = "done" => state = "OFF" /\ (todo = "none" \/ stopped)

\* Once lwip_dhcp_task has called dhcp_stop (lwip_comm.c 292), nobody changes
\* the address of the interface or its flag any more: the task wrote and
\* stopped from outside lwIP's thread (lwip_comm.c 280), but no reply, timer or
\* handler that was under way then comes after it.
AddressSettled == [][pc["dhcp"] = "done" => UNCHANGED <<ip, up>>]_vars

Dead == stopped \/ pc["input"] = "hung"

Ended == pc["dhcp"] = "done" \/ Dead

\* lwip_dhcp_task ends (lwip_comm.c 247), and lets the threads of the home run,
\* unless the receiver has lost the semaphore or is caught in its loop, or
\* servers make offers for ever that the client accepts: every change of its
\* state resets the count of tries (dhcp.c 1253).
DhcpDecides ==
  <>Ended \/ []<><<FetchReply /\ Head(mbox) = "OFFER">>_vars

\* The task gives up after LWIP_MAX_DHCP_TRIES tries (lwip_comm.h 20), whatever
\* the servers answer.
DhcpGivesUp == <>Ended
=============================================================================
