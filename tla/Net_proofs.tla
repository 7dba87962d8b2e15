----------------------------- MODULE Net_proofs -----------------------------
(***************************************************************************)
(* The semaphore and the pbufs of the network, for every size of the pool  *)
(* and of the mailbox.  LockHeld is not inductive: that the first waiter   *)
(* becomes the owner, and the only one, needs the waiters to be distinct   *)
(* threads that wait (Queue).  PbufsAccounted needs to know when a thread  *)
(* has a pbuf in its hands (Hands).  OffStaysOff and AddressSettled need   *)
(* to know when lwIP's thread has a rest of a handler to do (Handler), and *)
(* that a thread that waits is in the queue (Waits).                       *)
(***************************************************************************)
EXTENDS Net, SequenceTheorems, TLAPS

Places == {"idle", "want", "wait", "own", "sent", "sleep", "deliver",
           "hung", "start", "poll", "test", "static", "stop", "done"}

\* Where a thread has nothing to do with the semaphore.
Free == Places \ {"own", "hung", "wait"}

Queue ==
  /\ waiters \in Seq(Threads)
  /\ \A i \in 1 .. Len(waiters) : pc[waiters[i]] = "wait"
  /\ \A i, j \in 1 .. Len(waiters) : i # j => waiters[i] # waiters[j]

LockInv ==
  /\ value \in {0, 1}
  /\ stopped \in BOOLEAN
  /\ pc \in [Threads -> Places]
  /\ Queue
  /\ LockHeld

\* lwIP's thread, when idle, has no pbuf; input has one of a good frame while
\* it delivers, and one of a bad frame only while it owns the chip.
Hands ==
  /\ pc["tcpip"] = "idle" => work = "none"
  /\ p \in Frames <=> pc["input"] = "deliver"
  /\ p = "bad" => pc["input"] = "own"

PbufInv ==
  /\ free \in Nat /\ held \in Nat
  /\ mbox \in Seq(Frames)
  /\ p \in Frames \cup {"none", "bad"} /\ work \in Frames \cup {"none"}
  /\ Hands
  /\ PbufsAccounted

-----------------------------------------------------------------------------
(* The semaphore.                                                          *)

\* A thread that has the processor is where its action says.
LEMMA RunsAt ==
  ASSUME NEW t, NEW l, Runs(t, l)
  PROVE  pc[t] = l
BY DEF Runs

\* A thread goes on without touching the semaphore.
LEMMA MoveKeepsLock ==
  ASSUME LockInv, NEW t \in Threads, NEW l \in Free, pc[t] \in Free,
         pc' = [pc EXCEPT ![t] = l], UNCHANGED <<value, waiters, stopped>>
  PROVE  LockInv'
<1>1. pc' \in [Threads -> Places]
  BY DEF LockInv, Free
<1>2. Queue'
  BY DEF LockInv, Queue, Free
<1>3. Owners' = Owners
  BY DEF LockInv, Owners, Free
<1> QED BY <1>1, <1>2, <1>3 DEF LockInv, LockHeld

\* rt_sem_take.
LEMMA TakeKeepsLock ==
  ASSUME LockInv, NEW t \in Threads, Take(t)
  PROVE  LockInv'
<1>1. pc[t] = "want" /\ UNCHANGED stopped
  BY RunsAt DEF Take
<1>2. CASE value > 0
  <2>1. value = 1 /\ value' = 0 /\ waiters = <<>> /\ waiters' = <<>> /\ Owners = {} /\ ~stopped
    BY <1>2 DEF Take, LockInv, LockHeld
  <2>2. pc' = [pc EXCEPT ![t] = "own"]
    BY <1>2 DEF Take
  <2>3. pc' \in [Threads -> Places]
    BY <2>2 DEF LockInv, Places
  <2>4. Owners' = {t}
    BY <2>1, <2>2 DEF LockInv, Owners
  <2>5. Queue'
    BY <2>1 DEF Queue
  <2> QED BY <1>1, <2>1, <2>3, <2>4, <2>5 DEF LockInv, LockHeld
<1>3. CASE ~(value > 0)
  <2>1. value = 0 /\ value' = 0 /\ waiters' = Append(waiters, t)
    BY <1>3 DEF Take, LockInv
  <2>2. pc' = [pc EXCEPT ![t] = "wait"]
    BY <1>3 DEF Take
  <2>3. pc' \in [Threads -> Places]
    BY <2>2 DEF LockInv, Places
  <2>4. Owners' = Owners
    BY <1>1, <2>2 DEF LockInv, Owners
  <2>5. Queue'
    <3>1. waiters' \in Seq(Threads) /\ Len(waiters') = Len(waiters) + 1
      BY <2>1 DEF LockInv, Queue
    <3>2. \A i \in 1 .. Len(waiters) : waiters'[i] = waiters[i] /\ waiters[i] # t
      BY <1>1, <2>1 DEF LockInv, Queue
    <3>3. waiters'[Len(waiters) + 1] = t
      BY <2>1 DEF LockInv, Queue
    <3>4. \A i \in 1 .. Len(waiters') : pc'[waiters'[i]] = "wait"
      BY <3>1, <3>2, <3>3, <2>2 DEF LockInv, Queue
    <3>5. \A i, j \in 1 .. Len(waiters') : i # j => waiters'[i] # waiters'[j]
      BY <3>1, <3>2, <3>3 DEF LockInv, Queue
    <3> QED BY <3>1, <3>4, <3>5 DEF Queue
  <2> QED BY <1>1, <2>1, <2>3, <2>4, <2>5 DEF LockInv, LockHeld
<1> QED BY <1>2, <1>3

\* rt_sem_release by the owner, which goes on to l.
LEMMA ReleaseKeepsLock ==
  ASSUME LockInv, NEW t \in Threads, NEW l \in Free, pc[t] = "own",
         rt_sem_release(t, l), UNCHANGED stopped
  PROVE  LockInv'
<1>1. t \in Owners
  BY DEF Owners
<1>2. value = 0 /\ ~stopped /\ Owners = {t}
  BY <1>1 DEF LockInv, LockHeld
<1>3. CASE waiters = <<>>
  <2>1. value' = 1 /\ waiters' = <<>> /\ pc' = [pc EXCEPT ![t] = l]
    BY <1>2, <1>3 DEF rt_sem_release
  <2>2. pc' \in [Threads -> Places]
    BY <2>1 DEF LockInv, Free
  <2>3. Owners' = {}
    BY <1>2, <2>1 DEF LockInv, Owners, Free
  <2>4. Queue'
    BY <2>1 DEF Queue
  <2> QED BY <1>2, <2>1, <2>2, <2>3, <2>4 DEF LockInv, LockHeld
<1>4. CASE waiters # <<>>
  <2> DEFINE u == Head(waiters)
  <2>1. value' = 0 /\ waiters' = Tail(waiters) /\ pc' = [pc EXCEPT ![t] = l, ![u] = "own"]
    BY <1>2, <1>4 DEF rt_sem_release
  <2>2. u \in Threads /\ u = waiters[1] /\ pc[u] = "wait" /\ u # t
    BY <1>4 DEF LockInv, Queue
  <2>3. pc' \in [Threads -> Places]
    BY <2>1, <2>2 DEF LockInv, Free, Places
  <2>4. Owners' = {u}
    BY <1>2, <2>1, <2>2 DEF LockInv, Owners, Free
  <2>5. Queue'
    <3>1. waiters' \in Seq(Threads) /\ Len(waiters') = Len(waiters) - 1
          /\ \A i \in 1 .. Len(waiters') : waiters'[i] = waiters[i + 1]
      BY <1>4, <2>1 DEF LockInv, Queue
    <3>2. ASSUME NEW i \in 1 .. Len(waiters')
          PROVE  waiters'[i] \in Threads /\ waiters'[i] # u /\ pc[waiters'[i]] = "wait"
      <4>1. i + 1 \in 1 .. Len(waiters) /\ 1 \in 1 .. Len(waiters) /\ i + 1 # 1
        BY <3>1, <1>4 DEF LockInv, Queue
      <4> QED BY <3>1, <4>1, <2>2 DEF LockInv, Queue
    <3>3. \A i \in 1 .. Len(waiters') : pc'[waiters'[i]] = "wait"
      BY <3>1, <3>2, <2>1 DEF LockInv
    <3>4. ASSUME NEW i \in 1 .. Len(waiters'), NEW j \in 1 .. Len(waiters'), i # j
          PROVE  waiters'[i] # waiters'[j]
      <4>1. i + 1 \in 1 .. Len(waiters) /\ j + 1 \in 1 .. Len(waiters) /\ i + 1 # j + 1
        BY <3>1, <3>4 DEF LockInv, Queue
      <4> QED BY <3>1, <4>1 DEF LockInv, Queue
    <3> QED BY <3>1, <3>3, <3>4 DEF Queue
  <2> QED BY <1>2, <2>1, <2>3, <2>4, <2>5 DEF LockInv, LockHeld
<1> QED BY <1>3, <1>4

\* What lwIP's thread does between two packets leaves the semaphore alone.
TcpipSteps == FetchReply \/ FetchOther \/ FineTimer \/ Finish \/ CoarseTimer \/ TcpFrees

LEMMA TcpipMoves ==
  ASSUME pc \in [Threads -> Places], TcpipSteps
  PROVE  /\ UNCHANGED <<value, waiters, stopped>>
         /\ pc["tcpip"] \in {"idle", "sent"}
         /\ \E l \in {"idle", "want"} : pc' = [pc EXCEPT !["tcpip"] = l]
<1> USE DEF lock, Fetch, Outside, Request
<1>1. CASE FetchReply
  BY <1>1 DEF FetchReply, dhcp_recv, dhcp_bind
<1>2. CASE FetchOther
  BY <1>2 DEF FetchOther
<1>3. CASE FineTimer
  BY <1>3 DEF FineTimer, dhcp_timeout, dhcp_bind
<1>4. CASE Finish
  BY <1>4 DEF Finish
<1>5. CASE CoarseTimer
  BY <1>5 DEF CoarseTimer
<1>6. CASE TcpFrees
  BY <1>6 DEF TcpFrees
<1> QED BY <1>1, <1>2, <1>3, <1>4, <1>5, <1>6 DEF TcpipSteps

\* So does lwip_dhcp_task.
LEMMA TaskMoves ==
  ASSUME lwip_dhcp_task
  PROVE  /\ UNCHANGED <<value, waiters, stopped>>
         /\ pc["dhcp"] \in Free
         /\ \E l \in Free : pc' = [pc EXCEPT !["dhcp"] = l]
BY RunsAt DEF lwip_dhcp_task, dhcp_start, Started, Poll, Test, Static, dhcp_stop, lock, Free,
   Places

\* The steps of the thread that polls the chip.
LEMMA InputKeepsLock ==
  ASSUME LockInv, input_thread \/ Wake
  PROVE  LockInv'
<1> USE DEF lock
<1>1. ASSUME pc["input"] = "own", NEW l \in {"sleep", "deliver"},
             rt_sem_release("input", l), UNCHANGED stopped
      PROVE  LockInv'
  BY <1>1, ReleaseKeepsLock DEF Free, Places, Threads
<1>2. CASE RxNone
  BY <1>1, <1>2, RunsAt DEF RxNone, Reads
<1>3. ASSUME NEW f \in Frames, RxFrame(f) PROVE LockInv'
  BY <1>1, <1>3, RunsAt DEF RxFrame, Arrives, Reads
<1>4. CASE RxNoPbuf
  BY <1>1, <1>4, RunsAt DEF RxNoPbuf, Arrives, Reads
<1>5. CASE RxBad \/ RxDrop
  BY <1>5 DEF RxBad, RxDrop, LockInv, Queue, LockHeld, Owners
<1>6. CASE RxStop \/ RxNoPbufOdd
  <2>1. pc["input"] = "own" /\ "input" \in Threads
    BY <1>6, RunsAt DEF RxStop, RxNoPbufOdd, Arrives, Reads, Threads
  <2>2. "input" \in Owners
    BY <2>1 DEF Owners
  <2>3. value = 0 /\ ~stopped /\ Owners = {"input"} /\ UNCHANGED <<value, waiters>>
    BY <1>6, <2>2 DEF LockInv, LockHeld, RxStop, RxNoPbufOdd
  <2>4. PICK l \in {"sleep", "hung"} : pc' = [pc EXCEPT !["input"] = l]
    BY <1>6 DEF RxStop, RxNoPbufOdd
  <2>5. pc' \in [Threads -> Places]
    BY <2>4 DEF LockInv, Places
  <2>6. Queue'
    BY <2>1, <2>3, <2>4 DEF LockInv, Queue
  <2>7. CASE RxStop
    <3>1. Owners' = {} /\ stopped' = TRUE
      BY <2>1, <2>3, <2>7 DEF RxStop, LockInv, Owners
    <3> QED BY <2>3, <2>5, <2>6, <3>1 DEF LockInv, LockHeld
  <2>8. CASE RxNoPbufOdd
    <3>1. Owners' = {"input"} /\ UNCHANGED stopped
      BY <2>1, <2>3, <2>8 DEF RxNoPbufOdd, LockInv, Owners
    <3> QED BY <2>3, <2>5, <2>6, <3>1 DEF LockInv, LockHeld
  <2> QED BY <1>6, <2>7, <2>8
<1>7. CASE Deliver \/ Wake
  <2>1. pc["input"] \in {"deliver", "sleep"} /\ pc' = [pc EXCEPT !["input"] = "want"]
        /\ UNCHANGED <<value, waiters, stopped>>
    BY <1>7, RunsAt DEF Deliver, Wake
  <2> QED BY <2>1, MoveKeepsLock DEF Free, Places, Threads
<1> QED BY <1>2, <1>3, <1>4, <1>5, <1>6, <1>7 DEF input_thread

LEMMA NextKeepsLock == LockInv /\ [Next]_vars => LockInv'
<1> SUFFICES ASSUME LockInv, [Next]_vars PROVE LockInv'
  OBVIOUS
<1>1. ASSUME NEW t \in Threads, Take(t) PROVE LockInv'
  BY <1>1, TakeKeepsLock
<1>2. ASSUME NEW t \in Threads, Send(t) PROVE LockInv'
  BY <1>2, ReleaseKeepsLock, RunsAt DEF Send, Free, Places
<1>3. CASE input_thread \/ Wake
  BY <1>3, InputKeepsLock
<1>4. CASE TcpipSteps
  BY <1>4, TcpipMoves, MoveKeepsLock DEF LockInv, Free, Places, Threads
<1>5. CASE lwip_dhcp_task
  BY <1>5, TaskMoves, MoveKeepsLock DEF Threads
<1>6. CASE UNCHANGED vars
  BY <1>6 DEF vars, lock, LockInv, Queue, LockHeld, Owners
<1> QED BY <1>1, <1>2, <1>3, <1>4, <1>5, <1>6 DEF Next, tcpip_thread, TcpipSteps

LEMMA InitLock == Init => LockInv
<1> SUFFICES ASSUME Init PROVE LockInv
  OBVIOUS
<1>1. pc \in [Threads -> Places] /\ value = 1
  BY DEF Init, Threads, Places
<1>2. Queue
  BY DEF Init, Queue
<1>3. Owners = {} /\ waiters = <<>>
  BY DEF Init, Owners, Threads
<1>4. stopped \in BOOLEAN /\ ~stopped
  BY Zenon DEF Init
<1> QED BY <1>1, <1>2, <1>3, <1>4 DEF LockInv, LockHeld

LEMMA LockInvariance == Spec => []LockInv
BY InitLock, NextKeepsLock, PTL DEF Spec

\* LockHeld: under every interleaving of the three threads the chip has at
\* most one owner, and dm9000lock is lost only by the return at dm9000.c 398.
THEOREM SemaphoreHeld == Spec => []LockHeld
<1>1. LockInv => LockHeld
  BY DEF LockInv
<1> QED BY <1>1, LockInvariance, PTL

-----------------------------------------------------------------------------
(* The semaphore implements the fair lock.                                 *)

\* The owner is the thread that owns, and nobody when none does.
LEMMA OwnerIs ==
  /\ Owners = {} => Owner = "nobody"
  /\ \A t \in Threads : Owners = {t} => Owner = t
  /\ \A t \in Threads : t # "nobody"
<1>1. ASSUME NEW t \in Threads, Owners = {t} PROVE Owner = t
  <2>1. Owners # {} /\ \A u \in Threads : u \in Owners <=> u = t
    BY <1>1
  <2> QED BY <2>1 DEF Owner
<1> QED BY <1>1 DEF Owner, Threads

LEMMA OwnerIsNext ==
  /\ Owners' = {} => Owner' = "nobody"
  /\ \A t \in Threads : Owners' = {t} => Owner' = t
<1>1. ASSUME NEW t \in Threads, Owners' = {t} PROVE Owner' = t
  <2>1. Owners' # {} /\ \A u \in Threads : u \in Owners' <=> u = t
    BY <1>1
  <2> QED BY <2>1 DEF Owner
<1> QED BY <1>1 DEF Owner

\* Who owns the semaphore, by its value.
LEMMA OwnerByValue ==
  ASSUME LockInv
  PROVE  /\ value = 1 => Owner = "nobody" /\ waiters = <<>> /\ ~stopped
         /\ value = 0 => Owner \in Threads \/ stopped
         /\ \A t \in Threads : t \in Owners => Owner = t /\ Owners = {t} /\ ~stopped
         /\ \A t \in Threads : Owner = t => t \in Owners
<1>1. Owners \subseteq Threads
  BY DEF Owners
<1>2. \A t \in Threads : t \in Owners => Owner = t /\ Owners = {t} /\ ~stopped
  <2> SUFFICES ASSUME NEW t \in Threads, t \in Owners
               PROVE  Owner = t /\ Owners = {t} /\ ~stopped
    OBVIOUS
  <2>1. Owners = {t} /\ ~stopped
    BY DEF LockInv, LockHeld
  <2> QED BY <2>1, OwnerIs
<1>3. value = 1 => Owner = "nobody" /\ waiters = <<>> /\ ~stopped
  BY OwnerIs DEF LockInv, LockHeld
<1>4. value = 0 => Owner \in Threads \/ stopped
  BY <1>1, <1>2 DEF LockInv, LockHeld
<1>5. ASSUME NEW t \in Threads, Owner = t PROVE t \in Owners
  <2>1. Owners # {}
    BY <1>5, OwnerIs
  <2> QED BY <1>1, <1>2, <1>5, <2>1
<1> QED BY <1>2, <1>3, <1>4, <1>5

\* A thread goes on without touching the semaphore.
LEMMA MoveRefines ==
  ASSUME LockInv, NEW t \in Threads, NEW l \in Free, pc[t] \in Free,
         pc' = [pc EXCEPT ![t] = l], UNCHANGED <<value, waiters, stopped>>
  PROVE  UNCHANGED Chip!lvars
<1>1. Owners' = Owners
  BY DEF LockInv, Owners, Free
<1> QED BY <1>1 DEF Chip!lvars, Owner

LEMMA TakeRefines ==
  ASSUME LockInv, NEW t \in Threads, Take(t)
  PROVE  Chip!Next
<1>1. pc[t] = "want" /\ UNCHANGED stopped /\ pc \in [Threads -> Places]
  BY RunsAt DEF Take, LockInv
<1>2. CASE value > 0
  <2>1. value = 1 /\ UNCHANGED waiters /\ pc' = [pc EXCEPT ![t] = "own"]
    BY <1>2 DEF Take, LockInv
  <2>2. Owners = {}
    BY <2>1 DEF LockInv, LockHeld
  <2>3. Owners' = {t}
    BY <1>1, <2>1, <2>2 DEF Owners
  <2>4. Owner' = t
    BY <2>3, OwnerIsNext
  <2>5. Chip!Acquire(t)
    BY <1>1, <2>1, <2>4, OwnerByValue DEF Chip!Acquire
  <2> QED BY <2>5 DEF Chip!Next
<1>3. CASE ~(value > 0)
  <2>1. value = 0 /\ waiters' = Append(waiters, t) /\ pc' = [pc EXCEPT ![t] = "wait"]
    BY <1>3 DEF Take, LockInv
  <2>2. t \notin Owners /\ Owners' = Owners
    BY <1>1, <2>1 DEF Owners
  <2>3. Owner' = Owner
    BY <2>2 DEF Owner
  <2>4. \A i \in DOMAIN waiters : waiters[i] # t
    <3>1. waiters \in Seq(Threads) /\ DOMAIN waiters = 1 .. Len(waiters)
      BY DEF LockInv, Queue
    <3> QED BY <1>1, <3>1 DEF LockInv, Queue
  <2>5. Owner # "nobody" \/ stopped
    BY <2>1, OwnerByValue, OwnerIs
  <2>6. Owner # t
    BY <2>2, OwnerByValue
  <2>7. Chip!Enqueue(t)
    BY <1>1, <2>1, <2>3, <2>4, <2>5, <2>6 DEF Chip!Enqueue
  <2> QED BY <2>7 DEF Chip!Next
<1> QED BY <1>2, <1>3

LEMMA ReleaseRefines ==
  ASSUME LockInv, NEW t \in Threads, NEW l \in Free, pc[t] = "own",
         rt_sem_release(t, l), UNCHANGED stopped
  PROVE  Chip!Next
<1>1. Owners = {t} /\ Owner = t
  BY OwnerByValue DEF Owners
<1>2. pc \in [Threads -> Places]
  BY DEF LockInv
<1>3. CASE waiters = <<>>
  <2>1. UNCHANGED waiters /\ pc' = [pc EXCEPT ![t] = l]
    BY <1>3 DEF rt_sem_release
  <2>2. Owners' = {}
    BY <1>1, <1>2, <2>1 DEF Owners, Free
  <2>3. Owner' = "nobody"
    BY <2>2, OwnerIsNext
  <2>4. Chip!Release(t)
    BY <1>1, <1>3, <2>1, <2>3 DEF Chip!Release
  <2> QED BY <2>4 DEF Chip!Next
<1>4. CASE waiters # <<>>
  <2>1. PICK u : u = Head(waiters)
    OBVIOUS
  <2>2. waiters' = Tail(waiters) /\ pc' = [pc EXCEPT ![t] = l, ![u] = "own"]
    BY <1>4, <2>1 DEF rt_sem_release
  <2>3. u \in Threads /\ u # t
    BY <1>4, <2>1 DEF LockInv, Queue
  <2>4. Owners' = {u}
    BY <1>1, <1>2, <2>2, <2>3 DEF Owners, Free
  <2>5. Owner' = u
    BY <2>3, <2>4, OwnerIsNext
  <2>6. Chip!Release(t)
    BY <1>1, <1>4, <2>1, <2>2, <2>5 DEF Chip!Release
  <2> QED BY <2>6 DEF Chip!Next
<1> QED BY <1>3, <1>4

LEMMA InputRefines ==
  ASSUME LockInv, input_thread \/ Wake
  PROVE  [Chip!Next]_(Chip!lvars)
<1> USE DEF lock
<1>0. "input" \in Threads /\ pc \in [Threads -> Places]
  BY DEF Threads, LockInv
<1>1. CASE RxNone \/ RxNoPbuf \/ \E f \in Frames : RxFrame(f)
  <2>1. PICK l \in {"sleep", "deliver"} : rt_sem_release("input", l)
    BY <1>1 DEF RxNone, RxNoPbuf, RxFrame
  <2>2. pc["input"] = "own" /\ UNCHANGED stopped
    BY <1>1, RunsAt DEF RxNone, RxNoPbuf, RxFrame, Arrives, Reads
  <2> QED BY <1>0, <2>1, <2>2, ReleaseRefines DEF Free, Places
<1>2. CASE RxBad \/ RxDrop
  <2>1. UNCHANGED <<waiters, pc, stopped>>
    BY <1>2 DEF RxBad, RxDrop
  <2>2. Owner' = Owner
    BY <2>1 DEF Owner, Owners
  <2> QED BY <2>1, <2>2 DEF Chip!lvars
<1>3. CASE RxStop \/ RxNoPbufOdd
  <2>1. pc["input"] = "own" /\ UNCHANGED waiters
    BY <1>3, RunsAt DEF RxStop, RxNoPbufOdd, Arrives, Reads
  <2>2. Owners = {"input"} /\ Owner = "input"
    BY <1>0, <2>1, OwnerByValue DEF Owners
  <2>3. CASE RxStop
    <3>1. stopped' = TRUE /\ pc' = [pc EXCEPT !["input"] = "sleep"]
      BY <2>3 DEF RxStop
    <3>2. Owners' = {}
      BY <1>0, <2>2, <3>1 DEF Owners
    <3>3. Chip!Lose
      BY <2>1, <2>2, <3>1, <3>2, OwnerIsNext DEF Chip!Lose
    <3> QED BY <3>3 DEF Chip!Next
  <2>4. CASE RxNoPbufOdd
    <3>1. UNCHANGED stopped /\ pc' = [pc EXCEPT !["input"] = "hung"]
      BY <2>4 DEF RxNoPbufOdd
    <3>2. Owners' = Owners
      BY <1>0, <2>1, <3>1 DEF Owners
    <3> QED BY <2>1, <3>1, <3>2 DEF Chip!lvars, Owner
  <2> QED BY <1>3, <2>3, <2>4
<1>4. CASE Deliver \/ Wake
  <2>1. pc["input"] \in {"deliver", "sleep"} /\ pc' = [pc EXCEPT !["input"] = "want"]
        /\ UNCHANGED <<value, waiters, stopped>>
    BY <1>4, RunsAt DEF Deliver, Wake
  <2> QED BY <1>0, <2>1, MoveRefines DEF Free, Places
<1> QED BY <1>1, <1>2, <1>3, <1>4 DEF input_thread

\* RefinesLock: dm9000lock is handed over in the order in which the threads
\* asked for it, to one at a time, whatever else they do (dm9000.c 334, 387).
THEOREM SemaphoreRefinesLock == Spec => RefinesLock
<1>1. Init => Chip!Init
  <2> SUFFICES ASSUME Init PROVE Chip!Init
    OBVIOUS
  <2>1. value = 1 /\ LockInv
    BY InitLock DEF Init
  <2>2. stopped = FALSE
    BY Zenon DEF Init
  <2> QED BY <2>1, <2>2, OwnerByValue DEF Chip!Init
<1>2. LockInv /\ [Next]_vars => [Chip!Next]_(Chip!lvars)
  <2> SUFFICES ASSUME LockInv, [Next]_vars PROVE [Chip!Next]_(Chip!lvars)
    OBVIOUS
  <2>1. ASSUME NEW t \in Threads, Take(t) PROVE Chip!Next
    BY <2>1, TakeRefines
  <2>2. ASSUME NEW t \in Threads, Send(t) PROVE Chip!Next
    BY <2>2, ReleaseRefines, RunsAt DEF Send, Free, Places
  <2>3. CASE TcpipSteps
    BY <2>3, TcpipMoves, MoveRefines DEF LockInv, Free, Places, Threads
  <2>4. CASE lwip_dhcp_task
    BY <2>4, TaskMoves, MoveRefines DEF Threads
  <2>5. CASE UNCHANGED vars
    BY <2>5 DEF vars, lock, Chip!lvars, Owner, Owners
  <2> QED BY <2>1, <2>2, <2>3, <2>4, <2>5, InputRefines DEF Next, tcpip_thread, TcpipSteps
<1> QED BY <1>1, <1>2, LockInvariance, PTL DEF Spec, RefinesLock, Chip!Spec

-----------------------------------------------------------------------------
(* The pbufs.                                                              *)

LEMMA NoFrame == "none" \notin Frames /\ "bad" \notin Frames
BY DEF Frames, Replies

\* A step that moves no pbuf, and after which no thread is where it would
\* have one, or none, unless it was there before.
LEMMA StayKeepsPbufs ==
  ASSUME PbufInv, UNCHANGED pbufs,
         pc'["tcpip"] = "idle" => pc["tcpip"] = "idle",
         pc'["input"] = "deliver" <=> pc["input"] = "deliver",
         pc["input"] = "own" /\ p = "bad" => pc'["input"] = "own"
  PROVE  PbufInv'
BY DEF PbufInv, Hands, PbufsAccounted, Busy, pbufs

\* After rt_sem_release the releasing thread is at l, and another is where it
\* was, or has become the owner.
LEMMA ReleaseMoves ==
  ASSUME LockInv, NEW t \in Threads, NEW l \in Free, pc[t] = "own", rt_sem_release(t, l)
  PROVE  /\ pc'[t] = l
         /\ \A v \in Threads \ {t} : pc'[v] = pc[v] \/ (pc[v] = "wait" /\ pc'[v] = "own")
<1>1. CASE waiters = <<>>
  BY <1>1 DEF rt_sem_release, LockInv
<1>2. CASE waiters # <<>>
  <2>1. Head(waiters) \in Threads /\ Head(waiters) = waiters[1] /\ pc[Head(waiters)] = "wait"
    BY <1>2 DEF LockInv, Queue
  <2>2. pc' = [pc EXCEPT ![t] = l, ![Head(waiters)] = "own"]
    BY <1>2 DEF rt_sem_release
  <2> QED BY <2>1, <2>2 DEF LockInv
<1> QED BY <1>1, <1>2

\* The steps of the thread that polls the chip.
LEMMA InputKeepsPbufs ==
  ASSUME LockInv, PbufInv, input_thread \/ Wake
  PROVE  PbufInv'
<1>0. "input" \in Threads /\ "tcpip" \in Threads /\ "input" # "tcpip"
      /\ pc \in [Threads -> Places]
  BY DEF Threads, LockInv
<1>1. CASE RxNone \/ RxNoPbuf
  <2>1. pc["input"] = "own" /\ rt_sem_release("input", "sleep") /\ UNCHANGED pbufs /\ p = "none"
    BY <1>1, RunsAt DEF RxNone, RxNoPbuf, Arrives, Reads
  <2>2. pc'["input"] = "sleep" /\ (pc'["tcpip"] = pc["tcpip"] \/ pc'["tcpip"] = "own")
    BY <1>0, <2>1, ReleaseMoves DEF Free, Places
  <2> QED BY <2>1, <2>2, StayKeepsPbufs
<1>2. CASE RxStop \/ RxNoPbufOdd \/ Wake
  <2>1. pc["input"] # "deliver" /\ UNCHANGED pbufs /\ (p = "none" \/ pc["input"] # "own")
    BY <1>2, RunsAt DEF RxStop, RxNoPbufOdd, Arrives, Reads, Wake
  <2>2. PICK l \in {"sleep", "hung", "want"} : pc' = [pc EXCEPT !["input"] = l]
    BY <1>2 DEF RxStop, RxNoPbufOdd, Wake
  <2>3. pc'["input"] = l /\ pc'["tcpip"] = pc["tcpip"]
    BY <1>0, <2>2
  <2> QED BY <2>1, <2>3, StayKeepsPbufs
<1>3. CASE RxBad \/ RxDrop
  <2>1. pc["input"] = "own" /\ UNCHANGED <<pc, mbox, work, held>>
    BY <1>3, RunsAt DEF RxBad, RxDrop, Arrives, Reads
  <2>2. \/ p = "none" /\ p' = "bad" /\ free > 0 /\ free' = free - 1
        \/ p = "bad" /\ p' = "none" /\ free' = free + 1
    BY <1>3 DEF RxBad, RxDrop, Arrives, Reads
  <2>3. Hands'
    BY <2>1, <2>2, NoFrame DEF PbufInv, Hands
  <2>4. free' \in Nat /\ PbufsAccounted'
    <3>1. Busy' = Busy /\ Busy \in Nat /\ Len(mbox) \in Nat
      BY <2>1 DEF PbufInv, Busy
    <3> QED BY <2>1, <2>2, <3>1 DEF PbufInv, PbufsAccounted
  <2> QED BY <2>1, <2>2, <2>3, <2>4 DEF PbufInv
<1>4. ASSUME NEW f \in Frames, RxFrame(f) PROVE PbufInv'
  <2>1. pc["input"] = "own" /\ rt_sem_release("input", "deliver")
        /\ free > 0 /\ free' = free - 1 /\ p' = f /\ UNCHANGED <<mbox, work, held>>
    BY <1>4, RunsAt DEF RxFrame, Arrives, Reads
  <2>2. pc'["input"] = "deliver" /\ (pc'["tcpip"] = pc["tcpip"] \/ pc'["tcpip"] = "own")
    BY <1>0, <2>1, ReleaseMoves DEF Free, Places
  <2>3. p = "none" /\ f # "none" /\ f # "bad"
    BY <1>4, NoFrame DEF RxFrame, Arrives, Reads
  <2> QED BY <2>1, <2>2, <2>3 DEF PbufInv, Hands, PbufsAccounted, Busy
<1>5. CASE Deliver
  <2>1. pc["input"] = "deliver" /\ pc' = [pc EXCEPT !["input"] = "want"] /\ p' = "none"
        /\ UNCHANGED <<work, held>>
    BY <1>5, RunsAt DEF Deliver
  <2>2. p # "none" /\ p \in Frames
    BY <2>1, NoFrame DEF PbufInv, Hands
  <2>3. \/ mbox' = Append(mbox, p) /\ UNCHANGED free
        \/ free' = free + 1 /\ UNCHANGED mbox
    BY <1>5 DEF Deliver
  <2>4. Hands'
    BY <1>0, <2>1, NoFrame DEF PbufInv, Hands
  <2>5. mbox' \in Seq(Frames) /\ free' \in Nat /\ free' + Len(mbox') = free + Len(mbox) + 1
    BY <2>2, <2>3 DEF PbufInv
  <2>6. Len(mbox) \in Nat /\ Len(mbox') \in Nat /\ Busy \in Nat /\ Busy' = Busy
    BY <2>1, <2>5 DEF PbufInv, Busy
  <2>7. free + Len(mbox) + held + Busy + 1 = Pool
    BY <2>2 DEF PbufInv, PbufsAccounted
  <2>8. free' + Len(mbox') + held' + Busy' = Pool
    BY <2>1, <2>5, <2>6, <2>7 DEF PbufInv
  <2>9. PbufsAccounted'
    BY <2>1, <2>5, <2>6, <2>8 DEF PbufInv, PbufsAccounted
  <2> QED BY <2>1, <2>4, <2>5, <2>9 DEF PbufInv
<1> QED BY <1>1, <1>2, <1>3, <1>4, <1>5 DEF input_thread

\* lwIP's thread takes the first message: one pbuf goes from mbox to the pool,
\* to a queue of TCP, or into its hands.
LEMMA FetchKeepsPbufs ==
  ASSUME PbufInv, pc \in [Threads -> Places], FetchReply \/ FetchOther
  PROVE  PbufInv'
<1>1. pc["tcpip"] = "idle" /\ work = "none" /\ mbox # <<>> /\ mbox' = Tail(mbox) /\ p' = p
  BY DEF FetchReply, FetchOther, Fetch, PbufInv, Hands
<1>2. PICK l \in {"idle", "want"} : pc' = [pc EXCEPT !["tcpip"] = l]
  BY TcpipMoves DEF TcpipSteps
<1>3. pc'["tcpip"] = l /\ pc'["input"] = pc["input"]
  BY <1>2 DEF Threads
<1>4. \/ work' = Head(mbox) /\ l = "want" /\ UNCHANGED <<free, held>>
      \/ free' = free + 1 /\ UNCHANGED <<work, held>>
      \/ held' = held + 1 /\ UNCHANGED <<work, free>>
  <2>1. CASE FetchReply
    BY <2>1, <1>3 DEF FetchReply
  <2>2. CASE FetchOther
    <3>1. \/ work' = Head(mbox) /\ pc' = [pc EXCEPT !["tcpip"] = "want"] /\ UNCHANGED <<free, held>>
          \/ free' = free + 1 /\ UNCHANGED <<work, held>>
          \/ held' = held + 1 /\ UNCHANGED <<work, free>>
      BY <2>2 DEF FetchOther
    <3> QED BY <3>1, <1>3 DEF Threads
  <2> QED BY <2>1, <2>2
<1>5. mbox' \in Seq(Frames) /\ Len(mbox') = Len(mbox) - 1
      /\ Head(mbox) \in Frames /\ Head(mbox) # "none"
  BY <1>1 DEF PbufInv, Frames, Replies
<1>6. Hands'
  BY <1>1, <1>3, <1>4 DEF PbufInv, Hands
<1>7. free \in Nat /\ held \in Nat /\ Len(mbox) \in Nat
  BY DEF PbufInv
<1>8. free' \in Nat /\ held' \in Nat /\ PbufsAccounted'
  <2> DEFINE n == IF p = "none" THEN 0 ELSE 1
  <2>1. n \in Nat /\ Busy = 0
    BY <1>1 DEF Busy
  <2>2. free + Len(mbox) + held + Busy + n = Pool
    BY DEF PbufInv, PbufsAccounted
  <2>3. free + Len(mbox) + held + n = Pool
    <3> HIDE DEF n
    <3> QED BY <1>7, <2>1, <2>2
  <2>4. CASE work' = Head(mbox) /\ UNCHANGED <<free, held>>
    <3>1. free' + Len(mbox') + held' + 1 + n = Pool
      BY <1>5, <1>7, <2>1, <2>3, <2>4
    <3>2. Busy' = 1
      BY <1>5, <2>4 DEF Busy
    <3> QED BY <1>1, <1>7, <2>4, <3>1, <3>2 DEF PbufsAccounted
  <2>5. CASE UNCHANGED work
    <3>1. Busy' = 0
      BY <1>1, <2>5 DEF Busy
    <3>2. CASE free' = free + 1 /\ UNCHANGED held
      <4>1. free' \in Nat /\ held' \in Nat /\ free' + Len(mbox') + held' + 0 + n = Pool
        BY <1>5, <1>7, <2>1, <2>3, <3>2
      <4> QED BY <1>1, <3>1, <4>1 DEF PbufsAccounted
    <3>3. CASE held' = held + 1 /\ UNCHANGED free
      <4>1. free' \in Nat /\ held' \in Nat /\ free' + Len(mbox') + held' + 0 + n = Pool
        BY <1>5, <1>7, <2>1, <2>3, <3>3
      <4> QED BY <1>1, <3>1, <4>1 DEF PbufsAccounted
    <3> QED BY <1>1, <1>4, <1>5, <2>5, <3>2, <3>3
  <2> QED BY <1>4, <2>4, <2>5
<1> QED BY <1>1, <1>4, <1>5, <1>6, <1>8 DEF PbufInv

\* The other steps of lwIP's thread.
LEMMA TcpipKeepsPbufs ==
  ASSUME PbufInv, pc \in [Threads -> Places], TcpipSteps
  PROVE  PbufInv'
<1>1. PICK l \in {"idle", "want"} : pc' = [pc EXCEPT !["tcpip"] = l]
  BY TcpipMoves
<1>2. pc'["tcpip"] = l /\ pc'["input"] = pc["input"]
  BY <1>1 DEF Threads
<1>3. CASE FetchReply \/ FetchOther
  BY <1>3, FetchKeepsPbufs
<1>4. CASE FineTimer \/ CoarseTimer
  <2>1. pc["tcpip"] = "idle" /\ UNCHANGED pbufs
    BY <1>4 DEF FineTimer, CoarseTimer
  <2> QED BY <2>1, <1>2, StayKeepsPbufs
<1>5. CASE TcpFrees
  BY <1>5, <1>2 DEF TcpFrees, PbufInv, Hands, PbufsAccounted, Busy
<1>6. CASE Finish
  <2>1. UNCHANGED <<p, mbox, held>> /\ pc["tcpip"] = "sent"
    BY <1>6 DEF Finish
  <2>2. \/ pc' = [pc EXCEPT !["tcpip"] = "want"] /\ UNCHANGED <<work, free>>
        \/ work' = "none" /\ free' = free + Busy
    BY <1>6 DEF Finish
  <2>3. CASE pc' = [pc EXCEPT !["tcpip"] = "want"] /\ UNCHANGED <<work, free>>
    <3>1. pc'["tcpip"] = "want" /\ UNCHANGED pbufs
      BY <2>1, <2>3 DEF Threads, pbufs
    <3> QED BY <3>1, <1>2, StayKeepsPbufs
  <2>4. CASE work' = "none" /\ free' = free + Busy
    <3> DEFINE n == IF p = "none" THEN 0 ELSE 1
    <3>1. n \in Nat /\ Len(mbox) \in Nat /\ Busy \in Nat /\ Busy' = 0
      BY <2>4 DEF PbufInv, Busy
    <3>2. free + Len(mbox) + held + Busy + n = Pool
      BY DEF PbufInv, PbufsAccounted
    <3> HIDE DEF n
    <3>3. free' + Len(mbox') + held' + Busy' + n = Pool
      BY <2>1, <2>4, <3>1, <3>2 DEF PbufInv
    <3>4. PbufsAccounted'
      BY <2>1, <3>3 DEF PbufsAccounted, n
    <3>5. Hands'
      BY <1>2, <2>1, <2>4 DEF PbufInv, Hands
    <3> QED BY <2>1, <2>4, <3>1, <3>4, <3>5 DEF PbufInv
  <2> QED BY <2>2, <2>3, <2>4
<1> QED BY <1>3, <1>4, <1>5, <1>6 DEF TcpipSteps

LEMMA NextKeepsPbufs == LockInv /\ PbufInv /\ [Next]_vars => PbufInv'
<1> SUFFICES ASSUME LockInv, PbufInv, [Next]_vars PROVE PbufInv'
  OBVIOUS
<1>0. "input" \in Threads /\ "tcpip" \in Threads /\ pc \in [Threads -> Places]
  BY DEF Threads, LockInv
<1>1. ASSUME NEW t \in Threads, Take(t) PROVE PbufInv'
  <2>1. pc[t] = "want" /\ UNCHANGED pbufs
    BY <1>1, RunsAt DEF Take
  <2>2. PICK l \in {"own", "wait"} : pc' = [pc EXCEPT ![t] = l]
    BY <1>1 DEF Take
  <2>3. pc'["tcpip"] = "idle" => pc["tcpip"] = "idle"
    BY <1>0, <2>2
  <2>4. /\ pc'["input"] = "deliver" <=> pc["input"] = "deliver"
        /\ pc["input"] = "own" => pc'["input"] = "own"
    BY <1>0, <2>1, <2>2
  <2> QED BY <2>1, <2>3, <2>4, StayKeepsPbufs
<1>2. ASSUME NEW t \in Threads, Send(t) PROVE PbufInv'
  <2>1. t # "input" /\ pc[t] = "own" /\ rt_sem_release(t, "sent") /\ UNCHANGED pbufs
    BY <1>2, RunsAt DEF Send
  <2>2. /\ pc'[t] = "sent"
        /\ \A v \in Threads \ {t} : pc'[v] = pc[v] \/ (pc[v] = "wait" /\ pc'[v] = "own")
    BY <2>1, ReleaseMoves DEF Free, Places
  <2>3. pc'["tcpip"] = "idle" => pc["tcpip"] = "idle"
    BY <1>0, <2>2
  <2>4. /\ pc'["input"] = "deliver" <=> pc["input"] = "deliver"
        /\ pc["input"] = "own" => pc'["input"] = "own"
    BY <1>0, <2>1, <2>2
  <2> QED BY <2>1, <2>3, <2>4, StayKeepsPbufs
<1>3. CASE input_thread \/ Wake
  BY <1>3, InputKeepsPbufs
<1>4. CASE TcpipSteps
  BY <1>0, <1>4, TcpipKeepsPbufs
<1>5. CASE lwip_dhcp_task
  <2>1. UNCHANGED pbufs
    BY <1>5 DEF lwip_dhcp_task, dhcp_start, Started, Poll, Test, Static, dhcp_stop
  <2>2. pc'["tcpip"] = pc["tcpip"] /\ pc'["input"] = pc["input"]
    BY <1>0, <1>5, TaskMoves
  <2> QED BY <2>1, <2>2, StayKeepsPbufs
<1>6. CASE UNCHANGED vars
  BY <1>6, StayKeepsPbufs DEF vars
<1> QED BY <1>1, <1>2, <1>3, <1>4, <1>5, <1>6 DEF Next, tcpip_thread, TcpipSteps

LEMMA InitPbufs == Init => PbufInv
BY NetAssumption, NoFrame DEF Init, PbufInv, Hands, PbufsAccounted, Busy

LEMMA PbufInvariance == Spec => []PbufInv
BY LockInvariance, InitPbufs, NextKeepsPbufs, PTL DEF Spec

\* PbufsAccounted: whatever arrives, is refused or is kept by TCP, the pool, the
\* mailbox, the two threads and TCP together have exactly Pool pbufs.
THEOREM PbufsAreAccounted == Spec => []PbufsAccounted
<1>1. PbufInv => PbufsAccounted
  BY DEF PbufInv
<1> QED BY <1>1, PbufInvariance, PTL

-----------------------------------------------------------------------------
(* The client and lwip_dhcp_task.                                          *)

Sending == {"want", "wait", "own", "sent"}

\* Where each thread may be.
Whereabouts ==
  /\ pc["tcpip"] \in Sending \cup {"idle"}
  /\ pc["input"] \in {"want", "wait", "own", "sleep", "deliver", "hung"}
  /\ pc["dhcp"] \in Sending \cup {"start", "poll", "test", "static", "stop", "done"}

\* A thread that waits is in the queue.
Waits == \A t \in Threads : pc[t] = "wait" => \E i \in 1 .. Len(waiters) : waiters[i] = t

Typed ==
  /\ Len(mbox) <= MboxSize
  /\ todo \in {"none", "tries", "bind", "release"}
  /\ state \in States /\ tries \in 0 .. TopTries
  /\ ip \in {"ANY", "LEASE", "STATIC"} /\ seen \in {"ANY", "LEASE"}
  /\ devip \in {"LEASE", "STATIC"}
  /\ dhcpstatus \in {0, 2, 255}
  /\ armed \in BOOLEAN /\ up \in BOOLEAN /\ leased \in BOOLEAN

Settled == pc["dhcp"] \in {"stop", "done"}

\* lwIP's thread has a rest of a handler only while it sends; once the client
\* is stopped, it has none, or waits with it for a semaphore that is lost.
Handler ==
  /\ pc["tcpip"] = "idle" => todo = "none"
  /\ pc["dhcp"] = "done" =>
       state = "OFF" /\ (todo = "none" \/ (stopped /\ pc["tcpip"] = "wait"))

\* The fixed address is used only after the decision.
Address == ip = "STATIC" => Settled

ClientInv == Whereabouts /\ Waits /\ Typed /\ Handler /\ Address

\* A thread that goes on elsewhere, or does not move, leaves the queue alone.
LEMMA MoveKeepsWaits ==
  ASSUME Waits, pc \in [Threads -> Places], NEW t \in Threads, NEW l, l # "wait",
         pc' = [pc EXCEPT ![t] = l], UNCHANGED waiters
  PROVE  Waits'
BY DEF Waits

LEMMA TakeKeepsWaits ==
  ASSUME LockInv, Waits, NEW t \in Threads, Take(t)
  PROVE  Waits'
<1>1. CASE value > 0
  BY <1>1, MoveKeepsWaits DEF Take, LockInv
<1>2. CASE ~(value > 0)
  <2>1. waiters' = Append(waiters, t) /\ pc' = [pc EXCEPT ![t] = "wait"]
    BY <1>2 DEF Take
  <2>2. /\ Len(waiters') = Len(waiters) + 1 /\ waiters'[Len(waiters) + 1] = t
        /\ Len(waiters) \in Nat
        /\ \A i \in 1 .. Len(waiters) : waiters'[i] = waiters[i]
    BY <2>1 DEF LockInv, Queue
  <2>3. ASSUME NEW v \in Threads, pc'[v] = "wait"
        PROVE  \E i \in 1 .. Len(waiters') : waiters'[i] = v
    <3>1. CASE v = t
      BY <2>2, <3>1
    <3>2. CASE v # t
      <4>1. PICK i \in 1 .. Len(waiters) : waiters[i] = v
        BY <2>1, <2>3, <3>2 DEF Waits, LockInv
      <4> QED BY <2>2, <4>1
    <3> QED BY <3>1, <3>2
  <2> QED BY <2>3 DEF Waits
<1> QED BY <1>1, <1>2

LEMMA ReleaseKeepsWaits ==
  ASSUME LockInv, Waits, NEW t \in Threads, NEW l \in Free, pc[t] = "own", rt_sem_release(t, l)
  PROVE  Waits'
<1>1. CASE waiters = <<>>
  BY <1>1, MoveKeepsWaits DEF rt_sem_release, LockInv, Free
<1>2. CASE waiters # <<>>
  <2>1. waiters' = Tail(waiters) /\ pc' = [pc EXCEPT ![t] = l, ![Head(waiters)] = "own"]
    BY <1>2 DEF rt_sem_release
  <2>2. /\ Len(waiters') = Len(waiters) - 1 /\ Len(waiters) \in Nat
        /\ \A i \in 1 .. Len(waiters') : waiters'[i] = waiters[i + 1]
        /\ Head(waiters) = waiters[1] /\ Head(waiters) \in Threads
    BY <1>2, <2>1 DEF LockInv, Queue
  <2>3. ASSUME NEW v \in Threads, pc'[v] = "wait"
        PROVE  \E i \in 1 .. Len(waiters') : waiters'[i] = v
    <3>1. pc[v] = "wait" /\ v # Head(waiters)
      BY <2>1, <2>2, <2>3 DEF LockInv, Free
    <3>2. PICK i \in 1 .. Len(waiters) : waiters[i] = v
      BY <3>1 DEF Waits
    <3>3. i # 1
      BY <2>2, <3>1, <3>2
    <3>4. i - 1 \in 1 .. Len(waiters') /\ waiters'[i - 1] = v
      BY <2>2, <3>2, <3>3
    <3> QED BY <3>4
  <2> QED BY <2>3 DEF Waits
<1> QED BY <1>1, <1>2

\* The steps that the threads take with the semaphore, and those of input.
SharedSteps == (\E t \in Threads : Take(t) \/ Send(t)) \/ input_thread \/ Wake

\* They touch nothing of the client; tcpip and dhcp go on from one place of a
\* sender to the next, and stay where they are once the semaphore is lost.
LEMMA SharedMoves ==
  ASSUME LockInv, Whereabouts, Waits, SharedSteps
  PROVE  /\ UNCHANGED <<todo, state, tries, armed, ip, up, seen, devip, dhcpstatus, leased>>
         /\ Waits' /\ Whereabouts'
         /\ \A v \in {"tcpip", "dhcp"} :
              \/ pc'[v] = pc[v]
              \/ pc[v] \in Sending /\ pc'[v] \in Sending
         /\ stopped => stopped' /\ (pc["tcpip"] = "wait" => pc'["tcpip"] = "wait")
<1>0. pc \in [Threads -> Places] /\ {"tcpip", "input", "dhcp"} \subseteq Threads
  BY DEF LockInv, Threads
<1>1. UNCHANGED <<todo, state, tries, armed, ip, up, seen, devip, dhcpstatus, leased>>
  BY DEF SharedSteps, Take, Send, input_thread, RxNone, RxStop, RxBad, RxDrop, RxNoPbuf, RxNoPbufOdd,
     RxFrame, Deliver, Wake, Outside, client, netif, task
<1>2. stopped => stopped'
  BY DEF SharedSteps, Take, Send, input_thread, RxNone, RxStop, RxBad, RxDrop, RxNoPbuf, RxNoPbufOdd,
     RxFrame, Deliver, Wake
<1> DEFINE Goal ==
      /\ Waits' /\ Whereabouts'
      /\ \A v \in {"tcpip", "dhcp"} : \/ pc'[v] = pc[v]
                                      \/ pc[v] \in Sending /\ pc'[v] \in Sending
      /\ stopped => (pc["tcpip"] = "wait" => pc'["tcpip"] = "wait")
<1>3. ASSUME NEW t \in Threads, NEW l \in Free, pc[t] = "own", rt_sem_release(t, l),
             IF t = "input" THEN l \in {"sleep", "deliver"} ELSE l = "sent"
      PROVE  Goal
  <2>1. t \in Owners /\ ~stopped
    BY <1>3 DEF Owners, LockInv, LockHeld
  <2>2. Waits'
    BY <1>3, ReleaseKeepsWaits
  <2>3. /\ pc'[t] = l
        /\ \A v \in Threads \ {t} : pc'[v] = pc[v] \/ (pc[v] = "wait" /\ pc'[v] = "own")
    BY <1>3, ReleaseMoves
  <2>4. Whereabouts'
    BY <1>0, <1>3, <2>3 DEF Whereabouts, Sending
  <2>5. \A v \in {"tcpip", "dhcp"} : \/ pc'[v] = pc[v]
                                     \/ pc[v] \in Sending /\ pc'[v] \in Sending
    BY <1>0, <1>3, <2>3 DEF Sending
  <2> QED BY <2>1, <2>2, <2>4, <2>5
<1>4. ASSUME NEW t \in Threads, Take(t) PROVE Goal
  <2>1. pc[t] = "want"
    BY <1>4, RunsAt DEF Take
  <2>2. PICK l \in {"own", "wait"} : pc' = [pc EXCEPT ![t] = l]
    BY <1>4 DEF Take
  <2>3. Waits'
    BY <1>4, TakeKeepsWaits
  <2>4. Whereabouts'
    BY <1>0, <2>1, <2>2 DEF Whereabouts, Sending, Threads
  <2>5. \A v \in {"tcpip", "dhcp"} : \/ pc'[v] = pc[v]
                                     \/ pc[v] \in Sending /\ pc'[v] \in Sending
    BY <1>0, <2>1, <2>2 DEF Sending
  <2>6. pc["tcpip"] = "wait" => pc'["tcpip"] = "wait"
    BY <1>0, <2>1, <2>2
  <2> QED BY <2>3, <2>4, <2>5, <2>6
<1>5. ASSUME NEW t \in Threads, Send(t) PROVE Goal
  BY <1>3, <1>5, RunsAt DEF Send, Free, Places
<1>6. ASSUME RxNone \/ RxNoPbuf \/ \E f \in Frames : RxFrame(f) PROVE Goal
  <2>1. PICK l \in {"sleep", "deliver"} : pc["input"] = "own" /\ rt_sem_release("input", l)
    BY <1>6, RunsAt DEF RxNone, RxNoPbuf, RxFrame, Arrives, Reads
  <2>2. l \in Free
    BY DEF Free, Places
  <2> HIDE DEF Goal
  <2> QED BY <1>0, <1>3, <2>1, <2>2
<1>7. ASSUME RxStop \/ RxNoPbufOdd \/ Deliver \/ Wake PROVE Goal
  <2>1. PICK l \in {"sleep", "hung", "want"} : pc' = [pc EXCEPT !["input"] = l]
    BY <1>7 DEF RxStop, RxNoPbufOdd, Deliver, Wake
  <2>2. UNCHANGED waiters
    BY <1>7 DEF RxStop, RxNoPbufOdd, Deliver, Wake, lock
  <2>3. pc'["input"] = l /\ pc'["tcpip"] = pc["tcpip"] /\ pc'["dhcp"] = pc["dhcp"]
    BY <1>0, <2>1
  <2>4. Waits'
    BY <1>0, <2>1, <2>2, MoveKeepsWaits
  <2>5. Whereabouts'
    BY <1>7, <2>3, RunsAt DEF Whereabouts
  <2> QED BY <2>3, <2>4, <2>5
<1>8. ASSUME RxBad \/ RxDrop PROVE Goal
  <2>1. UNCHANGED <<pc, waiters>>
    BY <1>8 DEF RxBad, RxDrop, lock
  <2>2. Waits' /\ Whereabouts'
    BY <2>1 DEF Waits, Whereabouts
  <2> QED BY <2>1, <2>2
<1> QED BY <1>1, <1>2, <1>4, <1>5, <1>6, <1>7, <1>8 DEF SharedSteps, input_thread

LEMMA SharedKeepsClient ==
  ASSUME LockInv, PbufInv, ClientInv, SharedSteps
  PROVE  ClientInv'
<1> USE DEF ClientInv
<1>1. /\ UNCHANGED <<todo, state, tries, armed, ip, up, seen, devip, dhcpstatus, leased>>
      /\ Waits' /\ Whereabouts'
      /\ stopped => stopped' /\ (pc["tcpip"] = "wait" => pc'["tcpip"] = "wait")
  BY SharedMoves
<1>2. /\ pc'["tcpip"] = "idle" => pc["tcpip"] = "idle"
      /\ pc'["dhcp"] = pc["dhcp"] \/ (pc["dhcp"] \in Sending /\ pc'["dhcp"] \in Sending)
  BY SharedMoves DEF Sending
<1>4. Len(mbox') <= MboxSize
  <2>1. UNCHANGED mbox \/ Deliver
    BY DEF SharedSteps, Take, Send, input_thread, RxNone, RxStop, RxBad, RxDrop, RxNoPbuf, RxNoPbufOdd,
       RxFrame, Deliver, Wake, pbufs
  <2>2. CASE Deliver
    <3>1. UNCHANGED mbox \/ (Len(mbox) < MboxSize /\ mbox' = Append(mbox, p))
      BY <2>2 DEF Deliver
    <3>2. Len(Append(mbox, p)) = Len(mbox) + 1 /\ Len(mbox) \in Nat
      BY DEF PbufInv
    <3> QED BY <3>1, <3>2, NetAssumption DEF Typed
  <2> QED BY <2>1, <2>2 DEF Typed
<1>5. Typed'
  BY <1>1, <1>4 DEF Typed
<1>6. Handler'
  BY <1>1, <1>2 DEF Handler, Sending
<1>7. Address'
  BY <1>1, <1>2 DEF Address, Settled, Sending
<1> QED BY <1>1, <1>5, <1>6, <1>7

\* What lwIP's thread may do to the interface.
NetifStep ==
  \/ UNCHANGED <<ip, up, leased>>
  \/ NetifSet("LEASE", TRUE)
  \/ NetifSet("ANY", FALSE)

LEMMA NetifKeepsAddress ==
  ASSUME Typed, Address, NetifStep, pc'["dhcp"] = pc["dhcp"]
  PROVE  /\ Address' /\ ip' \in {"ANY", "LEASE", "STATIC"}
         /\ up' \in BOOLEAN /\ leased' \in BOOLEAN
<1>1. CASE UNCHANGED <<ip, up, leased>>
  BY <1>1 DEF Typed, Address, Settled
<1>2. CASE NetifSet("LEASE", TRUE) \/ NetifSet("ANY", FALSE)
  BY <1>2 DEF NetifSet, Address
<1> QED BY <1>1, <1>2 DEF NetifStep

LEMMA MoreTyped ==
  ASSUME NEW n \in 0 .. TopTries
  PROVE  More(n) \in 0 .. TopTries
BY NetAssumption DEF More

\* What it may do to the client, and to what remains of its handler: nothing
\* any more when the client is off and no handler is under way.
ClientStep ==
  /\ state' \in States /\ tries' \in 0 .. TopTries /\ armed' \in BOOLEAN
  /\ todo' \in {"none", "tries", "bind", "release"}
  /\ pc'["tcpip"] = "idle" => todo' = "none"
  /\ state = "OFF" /\ todo = "none" => state' = "OFF" /\ todo' = "none"

LEMMA SetStateTyped ==
  ASSUME Typed, NEW s \in States, NEW r, dhcp_set_state(s, r)
  PROVE  state' = s /\ state' \in States /\ tries' \in 0 .. TopTries /\ armed' \in BOOLEAN
<1>1. armed' \in BOOLEAN
  BY DEF dhcp_set_state
<1>2. state' = s /\ tries' \in 0 .. TopTries
  BY NetAssumption DEF dhcp_set_state, Typed
<1> QED BY <1>1, <1>2

LEMMA RequestSteps ==
  ASSUME Typed, pc \in [Threads -> Places], NEW s \in States, NEW r, Request(s, r),
         state # "OFF"
  PROVE  ClientStep
<1>1. state' = s /\ state' \in States /\ tries' \in 0 .. TopTries /\ armed' \in BOOLEAN
  BY SetStateTyped DEF Request
<1>2. todo' = "tries" /\ pc'["tcpip"] = "want"
  BY DEF Request, Threads
<1> QED BY <1>1, <1>2 DEF ClientStep

LEMMA BindSteps ==
  ASSUME Typed, pc \in [Threads -> Places], NEW r \in BOOLEAN, dhcp_bind(r), state # "OFF"
  PROVE  ClientStep /\ NetifSet("LEASE", TRUE)
<1>1. CASE up
  <2>1. dhcp_set_state("BOUND", r) /\ todo' = "none"
    BY <1>1 DEF dhcp_bind
  <2>2. state' \in States /\ tries' \in 0 .. TopTries /\ armed' \in BOOLEAN
    BY <2>1, SetStateTyped DEF States
  <2> QED BY <2>1, <2>2 DEF ClientStep, dhcp_bind
<1>2. CASE ~up
  <2>1. todo' = "bind" /\ armed' = r /\ UNCHANGED <<state, tries>>
        /\ pc' = [pc EXCEPT !["tcpip"] = "want"]
    BY <1>2 DEF dhcp_bind
  <2>2. pc'["tcpip"] = "want" /\ armed' \in BOOLEAN
    BY <2>1 DEF Threads
  <2> QED BY <2>1, <2>2 DEF ClientStep, dhcp_bind, Typed
<1> QED BY <1>1, <1>2

LEMMA TcpipSteppings ==
  ASSUME Typed, Handler, pc \in [Threads -> Places], TcpipSteps
  PROVE  ClientStep /\ NetifStep /\ UNCHANGED <<seen, devip, dhcpstatus>>
<1>0. UNCHANGED <<seen, devip, dhcpstatus>>
  BY DEF TcpipSteps, FetchReply, FetchOther, Fetch, FineTimer, CoarseTimer, TcpFrees, Finish,
     task, Outside
<1>1. ASSUME UNCHANGED <<state, tries, todo>>, armed' \in BOOLEAN,
             pc'["tcpip"] = "idle" => todo = "none"
      PROVE  ClientStep
  BY <1>1 DEF ClientStep, Typed
<1>2. {"SELECTING", "REQUESTING", "CHECKING", "BACKING_OFF", "RENEWING", "REBINDING",
       "OFF", "BOUND", state} \subseteq States
  BY DEF States, Typed
<1>3. CASE FetchReply
  <2>1. CASE dhcp_bind(armed) /\ state # "OFF"
    BY <1>0, <2>1, BindSteps DEF NetifStep, Typed
  <2>2. ASSUME NEW s \in States, Request(s, armed), state # "OFF", NetifStep
        PROVE  ClientStep /\ NetifStep
    BY <2>2, RequestSteps
  <2>3. dhcp_recv(Head(mbox))
    BY <1>3 DEF FetchReply
  <2> QED BY <1>0, <1>2, <2>1, <2>2, <2>3 DEF dhcp_recv, NetifStep, netif
<1>4. CASE FetchOther \/ TcpFrees
  <2>1. UNCHANGED <<state, tries, armed, todo, ip, up, leased>> /\ pc["tcpip"] = "idle"
    BY <1>4 DEF FetchOther, Fetch, TcpFrees, Outside, client, netif
  <2>2. ClientStep
    BY <2>1, <1>1 DEF Handler, Typed
  <2> QED BY <1>0, <2>1, <2>2 DEF NetifStep
<1>5. CASE FineTimer
  <2>1. dhcp_timeout /\ pc["tcpip"] = "idle"
    BY <1>5 DEF FineTimer
  <2>2. CASE dhcp_bind(FALSE) /\ state = "CHECKING"
    BY <1>0, <2>2, BindSteps DEF NetifStep
  <2>3. ASSUME NEW s \in States, Request(s, FALSE), state # "OFF", UNCHANGED <<ip, up, leased>>
        PROVE  ClientStep /\ NetifStep
    BY <2>3, RequestSteps DEF NetifStep
  <2>4. CASE /\ dhcp_set_state("OFF", FALSE) /\ todo' = "release" /\ state \in {"REQUESTING", "REBINDING"}
             /\ pc' = [pc EXCEPT !["tcpip"] = "want"] /\ UNCHANGED <<ip, up, leased>>
    <3>1. state' \in States /\ tries' \in 0 .. TopTries /\ armed' \in BOOLEAN
      BY <1>2, <2>4, SetStateTyped
    <3>2. pc'["tcpip"] = "want"
      BY <2>4 DEF Threads
    <3> QED BY <1>0, <2>4, <3>1, <3>2 DEF ClientStep, NetifStep
  <2>5. CASE armed' = FALSE /\ UNCHANGED <<pc, todo, state, tries, ip, up, leased>>
    <3>1. armed' \in BOOLEAN
      BY <2>5
    <3>2. ClientStep
      BY <1>1, <2>1, <2>5, <3>1 DEF Handler
    <3> QED BY <1>0, <2>5, <3>2 DEF NetifStep
  <2> QED BY <1>0, <1>2, <2>1, <2>2, <2>3, <2>4, <2>5 DEF dhcp_timeout, netif
<1>6. CASE CoarseTimer
  <2>1. PICK s \in {"RENEWING", "REBINDING"} : Request(s, armed)
    BY <1>6 DEF CoarseTimer
  <2>2. state # "OFF" /\ UNCHANGED <<ip, up, leased>>
    BY <1>6 DEF CoarseTimer, netif
  <2> QED BY <1>0, <1>2, <2>1, <2>2, RequestSteps DEF NetifStep
<1>7. CASE Finish
  <2>2. CASE todo = "tries"
    <3>1. tries' = More(tries) /\ UNCHANGED <<state, ip, up, leased>> /\ todo' = "none"
      BY <1>7, <2>2 DEF Finish, netif
    <3>2. armed' \in BOOLEAN
      BY <1>7, <2>2 DEF Finish
    <3>3. tries' \in 0 .. TopTries
      BY <3>1, MoreTyped DEF Typed
    <3> QED BY <1>0, <2>2, <3>1, <3>2, <3>3 DEF ClientStep, NetifStep, Typed
  <2>3. CASE todo = "bind"
    <3>1. dhcp_set_state("BOUND", armed) /\ UNCHANGED <<ip, up, leased>> /\ todo' = "none"
      BY <1>7, <2>3 DEF Finish, netif
    <3>2. state' \in States /\ tries' \in 0 .. TopTries /\ armed' \in BOOLEAN
      BY <1>2, <3>1, SetStateTyped
    <3> QED BY <1>0, <2>3, <3>1, <3>2 DEF ClientStep, NetifStep
  <2>4. CASE todo = "release"
    <3>1. dhcp_set_state("SELECTING", TRUE) /\ NetifSet("ANY", FALSE) /\ todo' = "tries"
          /\ pc' = [pc EXCEPT !["tcpip"] = "want"]
      BY <1>7, <2>4 DEF Finish
    <3>2. state' \in States /\ tries' \in 0 .. TopTries /\ armed' \in BOOLEAN
      BY <1>2, <3>1, SetStateTyped
    <3>3. pc'["tcpip"] = "want"
      BY <3>1 DEF Threads
    <3> QED BY <1>0, <2>4, <3>1, <3>2, <3>3 DEF ClientStep, NetifStep
  <2>5. CASE todo = "none"
    <3>1. UNCHANGED <<state, tries, armed, ip, up, leased>> /\ todo' = "none"
      BY <1>7, <2>5 DEF Finish, client, netif
    <3>2. ClientStep
      BY <1>1, <2>5, <3>1 DEF Typed
    <3> QED BY <1>0, <3>1, <3>2 DEF NetifStep
  <2> QED BY <2>2, <2>3, <2>4, <2>5 DEF Typed
<1> QED BY <1>3, <1>4, <1>5, <1>6, <1>7 DEF TcpipSteps

LEMMA TcpipKeepsClient ==
  ASSUME LockInv, PbufInv, ClientInv, TcpipSteps
  PROVE  ClientInv'
<1> USE DEF ClientInv
<1>0. pc \in [Threads -> Places]
  BY DEF LockInv
<1>1. ClientStep /\ NetifStep /\ UNCHANGED <<seen, devip, dhcpstatus>>
  BY <1>0, TcpipSteppings
<1>2. /\ UNCHANGED <<waiters, stopped>> /\ pc["tcpip"] \in {"idle", "sent"}
      /\ \E l \in {"idle", "want"} : pc' = [pc EXCEPT !["tcpip"] = l]
  BY <1>0, TcpipMoves
<1>3. pc'["tcpip"] \in {"idle", "want"} /\ pc'["input"] = pc["input"] /\ pc'["dhcp"] = pc["dhcp"]
  BY <1>0, <1>2 DEF Threads
<1>4. Waits'
  BY <1>0, <1>2, MoveKeepsWaits DEF Threads
<1>5. Whereabouts'
  BY <1>3 DEF Whereabouts, Sending
<1>6. Len(mbox') <= MboxSize
  <2>1. UNCHANGED mbox \/ (mbox # <<>> /\ mbox' = Tail(mbox))
    BY DEF TcpipSteps, FetchReply, FetchOther, Fetch, FineTimer, CoarseTimer, TcpFrees, Finish,
       pbufs
  <2>2. mbox # <<>> => Len(Tail(mbox)) = Len(mbox) - 1 /\ Len(mbox) \in Nat
    BY DEF PbufInv
  <2> QED BY <2>1, <2>2, NetAssumption DEF Typed
<1>7. Address' /\ ip' \in {"ANY", "LEASE", "STATIC"} /\ up' \in BOOLEAN /\ leased' \in BOOLEAN
  BY <1>1, <1>3, NetifKeepsAddress
<1>8. Typed'
  BY <1>1, <1>6, <1>7 DEF Typed, ClientStep
<1>9. Handler'
  BY <1>1, <1>2, <1>3 DEF Handler, ClientStep
<1> QED BY <1>4, <1>5, <1>7, <1>8, <1>9

\* lwip_dhcp_task stops the client: lwIP's thread is idle, or waits, and then
\* nobody owns the semaphore.
LEMMA StopFindsIdle ==
  ASSUME LockInv, Whereabouts, Waits, Handler, Runs("dhcp", "stop")
  PROVE  todo = "none" \/ (stopped /\ pc["tcpip"] = "wait")
<1>1. pc["dhcp"] = "stop" /\ ~Ready("tcpip") /\ ~Ready("input")
  BY DEF Runs, MoreUrgent
<1>2. pc["tcpip"] \in {"idle", "wait"} /\ pc["input"] \in {"wait", "sleep"}
  BY <1>1 DEF Ready, Whereabouts, Sending
<1>3. CASE pc["tcpip"] = "idle"
  BY <1>3 DEF Handler
<1>4. CASE pc["tcpip"] = "wait"
  <2>1. waiters # <<>>
    BY <1>4 DEF Waits, Threads
  <2>2. value = 0
    BY <2>1 DEF LockInv, LockHeld
  <2>3. Owners = {}
    BY <1>1, <1>2 DEF Owners, Threads
  <2> QED BY <1>4, <2>2, <2>3 DEF LockInv, LockHeld
<1> QED BY <1>2, <1>3, <1>4

LEMMA TaskKeepsClient ==
  ASSUME LockInv, PbufInv, ClientInv, lwip_dhcp_task
  PROVE  ClientInv'
<1> USE DEF ClientInv
<1>0. pc \in [Threads -> Places] /\ "dhcp" \in Threads
  BY DEF LockInv, Threads
<1>1. /\ UNCHANGED <<waiters, stopped, mbox, todo>>
      /\ pc["dhcp"] \in {"start", "sent", "poll", "test", "static", "stop"}
  BY RunsAt DEF lwip_dhcp_task, dhcp_start, Started, Poll, Test, Static, dhcp_stop, lock, pbufs
<1>2. PICK l \in {"want", "poll", "test", "stop", "static", "done"} :
         pc' = [pc EXCEPT !["dhcp"] = l]
  BY DEF lwip_dhcp_task, dhcp_start, Started, Poll, Test, Static, dhcp_stop
<1>3. pc'["dhcp"] = l /\ pc'["tcpip"] = pc["tcpip"] /\ pc'["input"] = pc["input"]
  BY <1>0, <1>2 DEF Threads
<1>4. Waits' /\ Whereabouts'
  <2>1. Waits'
    BY <1>0, <1>1, <1>2, MoveKeepsWaits
  <2> QED BY <1>3, <2>1 DEF Whereabouts, Sending
<1>5. pc["dhcp"] # "done"
  BY <1>1
<1>6. CASE dhcp_start
  <2>1. dhcp_set_state("SELECTING", armed) /\ UNCHANGED <<ip, up, leased, seen, devip, dhcpstatus>>
        /\ pc' = [pc EXCEPT !["dhcp"] = "want"] /\ pc["dhcp"] = "start"
    BY <1>6, RunsAt DEF dhcp_start, netif, task
  <2>2. state' \in States /\ tries' \in 0 .. TopTries /\ armed' \in BOOLEAN
    BY <2>1, SetStateTyped DEF States
  <2>3. Typed'
    BY <1>1, <2>1, <2>2 DEF Typed
  <2>4. pc'["dhcp"] = "want"
    BY <1>0, <2>1
  <2> QED BY <1>1, <1>3, <1>4, <2>1, <2>3, <2>4 DEF Handler, Address, Settled
<1>7. CASE Started
  <2>1. tries' = More(tries) /\ dhcpstatus' = 0 /\ UNCHANGED <<state, ip, up, leased, seen, devip>>
        /\ pc' = [pc EXCEPT !["dhcp"] = "poll"] /\ pc["dhcp"] = "sent"
    BY <1>7, RunsAt DEF Started, netif
  <2>2. armed' \in BOOLEAN
    BY <1>7 DEF Started
  <2>3. tries' \in 0 .. TopTries
    BY <2>1, MoreTyped DEF Typed
  <2>4. Typed'
    BY <1>1, <2>1, <2>2, <2>3 DEF Typed
  <2>5. pc'["dhcp"] = "poll"
    BY <1>0, <2>1
  <2> QED BY <1>1, <1>3, <1>4, <2>1, <2>4, <2>5 DEF Handler, Address, Settled
<1>8. CASE Poll
  <2>1. seen' = ip /\ UNCHANGED <<state, tries, armed, ip, up, leased, devip, dhcpstatus>>
        /\ pc' = [pc EXCEPT !["dhcp"] = "test"] /\ pc["dhcp"] = "poll"
    BY <1>8, RunsAt DEF Poll, netif, client
  <2>2. Typed'
    BY <1>1, <2>1 DEF Typed, Address, Settled
  <2>3. pc'["dhcp"] = "test"
    BY <1>0, <2>1
  <2> QED BY <1>1, <1>3, <1>4, <2>1, <2>2, <2>3 DEF Handler, Address, Settled
<1>9. CASE Test
  <2>1. UNCHANGED <<state, tries, armed, ip, up, leased, seen>> /\ pc["dhcp"] = "test"
    BY <1>9, RunsAt DEF Test, netif, client
  <2>2. CASE /\ seen # "ANY" /\ dhcpstatus' = 2 /\ devip' = seen
             /\ pc' = [pc EXCEPT !["dhcp"] = "stop"]
    <3>1. pc'["dhcp"] = "stop" /\ seen = "LEASE"
      BY <1>0, <2>2 DEF Typed
    <3>2. Typed'
      BY <1>1, <2>1, <2>2, <3>1 DEF Typed
    <3>3. Address'
      BY <2>1, <2>2, <3>1 DEF Address, Settled
    <3> QED BY <1>1, <1>3, <1>4, <3>1, <3>2, <3>3 DEF Handler
  <2>3. CASE /\ dhcpstatus' \in {255, dhcpstatus} /\ UNCHANGED devip
             /\ \E x \in {"static", "poll"} : pc' = [pc EXCEPT !["dhcp"] = x]
    <3>1. pc'["dhcp"] \in {"static", "poll"}
      BY <1>0, <2>3
    <3>2. Typed'
      BY <1>1, <2>1, <2>3 DEF Typed
    <3>3. Address'
      BY <2>1, <2>3, <3>1 DEF Address, Settled
    <3> QED BY <1>1, <1>3, <1>4, <3>1, <3>2, <3>3 DEF Handler
  <2> QED BY <1>9, <2>2, <2>3 DEF Test
<1>10. CASE Static
  <2>1. ip' = devip /\ UNCHANGED <<state, tries, armed, up, leased, seen, devip, dhcpstatus>>
        /\ pc' = [pc EXCEPT !["dhcp"] = "stop"] /\ pc["dhcp"] = "static"
    BY <1>10, RunsAt DEF Static, client, task
  <2>2. Typed'
    BY <1>1, <2>1 DEF Typed
  <2>3. pc'["dhcp"] = "stop"
    BY <1>0, <2>1
  <2> QED BY <1>1, <1>3, <1>4, <2>1, <2>2, <2>3 DEF Handler, Address, Settled
<1>11. CASE dhcp_stop
  <2>1. dhcp_set_state("OFF", armed) /\ UNCHANGED <<ip, up, leased, seen, devip, dhcpstatus>>
        /\ pc' = [pc EXCEPT !["dhcp"] = "done"] /\ pc["dhcp"] = "stop"
    BY <1>11, RunsAt DEF dhcp_stop, netif, task
  <2>2. state' = "OFF" /\ tries' \in 0 .. TopTries /\ armed' \in BOOLEAN
    BY <2>1, SetStateTyped DEF States
  <2>3. Typed'
    BY <1>1, <2>1, <2>2 DEF Typed, States
  <2>4. pc'["dhcp"] = "done"
    BY <1>0, <2>1
  <2>5. todo = "none" \/ (stopped /\ pc["tcpip"] = "wait")
    BY <1>11, StopFindsIdle DEF dhcp_stop
  <2> QED BY <1>1, <1>3, <1>4, <2>1, <2>2, <2>3, <2>4, <2>5 DEF Handler, Address, Settled
<1> QED BY <1>6, <1>7, <1>8, <1>9, <1>10, <1>11 DEF lwip_dhcp_task

LEMMA NextKeepsClient == LockInv /\ PbufInv /\ ClientInv /\ [Next]_vars => ClientInv'
<1> SUFFICES ASSUME LockInv, PbufInv, ClientInv, [Next]_vars PROVE ClientInv'
  OBVIOUS
<1>1. CASE UNCHANGED vars
  <2>1. UNCHANGED <<waiters, stopped, pc, mbox, todo, state, tries, armed, ip, up, seen,
                    devip, dhcpstatus, leased>>
    BY <1>1 DEF vars, lock, pbufs, client, netif, task
  <2> QED BY <2>1 DEF ClientInv, Whereabouts, Waits, Typed, Handler, Address, Settled
<1> QED BY <1>1, SharedKeepsClient, TcpipKeepsClient, TaskKeepsClient
        DEF Next, tcpip_thread, TcpipSteps, SharedSteps

LEMMA InitClient == Init => ClientInv
<1> SUFFICES ASSUME Init PROVE ClientInv
  OBVIOUS
<1>1. Whereabouts /\ Waits
  BY DEF Init, Whereabouts, Waits, Sending, Threads
<1>2. armed \in BOOLEAN /\ up \in BOOLEAN /\ leased \in BOOLEAN
  BY Zenon DEF Init
<1>3. Typed
  BY <1>2, NetAssumption DEF Init, Typed, States
<1>4. Handler /\ Address
  BY DEF Init, Handler, Address, Settled
<1> QED BY <1>1, <1>3, <1>4 DEF ClientInv

LEMMA ClientInvariance == Spec => []ClientInv
BY LockInvariance, PbufInvariance, InitClient, NextKeepsClient, PTL DEF Spec

\* TypeOK: the pool, the mailbox and the counters stay within their bounds, and
\* lwip_dhcp_task never takes the fixed address for one that it was given.
THEOREM TypeCorrect == Spec => []TypeOK
<1>1. LockInv /\ PbufInv /\ ClientInv => TypeOK
  <2> SUFFICES ASSUME LockInv, PbufInv, ClientInv PROVE TypeOK
    OBVIOUS
  <2>1. free \in 0 .. Pool /\ held \in 0 .. Pool
    <3>1. free \in Nat /\ held \in Nat /\ Len(mbox) \in Nat /\ Busy \in Nat
      BY DEF PbufInv, Busy
    <3> DEFINE n == IF p = "none" THEN 0 ELSE 1
    <3>2. n \in Nat /\ free + Len(mbox) + held + Busy + n = Pool
      BY DEF PbufInv, PbufsAccounted
    <3> HIDE DEF n
    <3> QED BY <3>1, <3>2, NetAssumption
  <2> QED BY <2>1 DEF LockInv, Queue, Places, PbufInv, ClientInv, Typed, TypeOK
<1> QED BY <1>1, LockInvariance, PbufInvariance, ClientInvariance, PTL

\* OffStaysOff: the client stays off once lwip_dhcp_task has called dhcp_stop,
\* although it calls it from outside lwIP's thread and without a lock.
THEOREM OffIsOff == Spec => []OffStaysOff
<1>1. ClientInv => OffStaysOff
  BY DEF ClientInv, Handler, OffStaysOff
<1> QED BY <1>1, ClientInvariance, PTL

\* With the client off and no handler under way, lwIP's thread leaves the
\* interface alone.
LEMMA OffLeavesNetif ==
  ASSUME TcpipSteps, state = "OFF", todo = "none"
  PROVE  UNCHANGED <<ip, up>>
<1> USE DEF netif
<1>1. CASE FetchReply
  BY <1>1 DEF FetchReply, dhcp_recv
<1>2. CASE FetchOther \/ TcpFrees
  BY <1>2 DEF FetchOther, TcpFrees, Outside
<1>3. CASE FineTimer
  BY <1>3 DEF FineTimer, dhcp_timeout
<1>4. CASE CoarseTimer
  BY <1>4 DEF CoarseTimer
<1>5. CASE Finish
  BY <1>5 DEF Finish
<1> QED BY <1>1, <1>2, <1>3, <1>4, <1>5 DEF TcpipSteps

\* AddressSettled: after dhcp_stop no reply, timer or handler that was under way
\* changes the address of the interface or brings it up or down.
THEOREM AddressIsSettled == Spec => AddressSettled
<1>1. ASSUME LockInv, ClientInv, [Next]_vars, pc["dhcp"] = "done"
      PROVE  UNCHANGED <<ip, up>>
  <2>1. state = "OFF" /\ (todo = "none" \/ pc["tcpip"] = "wait")
    BY <1>1 DEF ClientInv, Handler
  <2>2. CASE SharedSteps
    BY <1>1, <2>2, SharedMoves DEF ClientInv
  <2>3. CASE TcpipSteps
    <3>1. pc["tcpip"] # "wait"
      BY <1>1, <2>3, TcpipMoves DEF LockInv
    <3> QED BY <2>1, <2>3, <3>1, OffLeavesNetif
  <2>4. CASE lwip_dhcp_task
    <3>1. pc["dhcp"] # "done"
      BY <2>4, RunsAt DEF lwip_dhcp_task, dhcp_start, Started, Poll, Test, Static, dhcp_stop
    <3> QED BY <1>1, <3>1
  <2>5. CASE UNCHANGED vars
    BY <2>5 DEF vars, netif
  <2> QED BY <1>1, <2>2, <2>3, <2>4, <2>5 DEF Next, tcpip_thread, TcpipSteps, SharedSteps
<1>2. LockInv /\ ClientInv /\ [Next]_vars
        => [pc["dhcp"] = "done" => UNCHANGED <<ip, up>>]_vars
  BY <1>1
<1> QED BY <1>2, LockInvariance, ClientInvariance, PTL DEF Spec, AddressSettled
=============================================================================
