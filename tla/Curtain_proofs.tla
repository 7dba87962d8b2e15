--------------------------- MODULE Curtain_proofs ---------------------------
(***************************************************************************)
(* The invariants of the curtain, for every size of its mailbox.  None of  *)
(* MarkShown, StatusTold and SuspendedOffCpu says anything while           *)
(* NRF2401_thread works with the scheduler locked; IInv says what each of  *)
(* its steps has done so far.                                              *)
(***************************************************************************)
EXTENDS Curtain, TLAPS

Inside == {"transmit", "flash", "unmark", "toggle", "draw", "exit"}

\* The scheduler is locked by NRF2401_thread exactly between rt_enter_critical
\* and rt_exit_critical.
LockInv == lock = "nrf" <=> pc \in Inside

\* Where K/T is about to be drawn, the colour is chosen already, and it is red
\* for the mark or because the interrupt of the clock has come since.
MarkInv ==
  IF pc = "draw" THEN POINT_COLOR = "RED" <=> color_flag \/ hit
                 ELSE kt = "RED" <=> ~redrawn /\ (color_flag \/ hit)

\* Between an acknowledged command and the update of curtain_status.
Acknowledged == pc \in {"flash", "unmark"} \/ (pc = "draw" /\ val # "stop")

ToldInv ==
  /\ pc \in {"flash", "unmark"} => val # "stop"
  /\ pc = "toggle" => val = "stop"
  /\ IF Acknowledged THEN curtain = Ordered ELSE ~doubt => curtain_status = curtain

IInv == TypeOK /\ LockInv /\ MarkInv /\ ToldInv /\ SuspendedOffCpu

\* A mailbox that takes or refuses a mail stays a mailbox.
LEMMA SendType ==
  ASSUME BoxSize \in Nat, box \in Seq(Commands), Len(box) <= BoxSize,
         NEW m \in Commands, rt_mb_send(m)
  PROVE  box' \in Seq(Commands) /\ Len(box') <= BoxSize
BY DEF rt_mb_send

LEMMA InitIInv == Init => IInv
<1> SUFFICES ASSUME Init PROVE IInv
  OBVIOUS
<1>1. box \in Seq(Commands) /\ Len(box) <= BoxSize
  BY BoxAssumption DEF Init
<1>2. TypeOK
  BY <1>1 DEF Init, TypeOK, Commands, Senders
<1>3. LockInv /\ MarkInv /\ ToldInv /\ SuspendedOffCpu
  BY DEF Init, LockInv, MarkInv, ToldInv, Acknowledged, SuspendedOffCpu, Inside
<1> QED BY <1>2, <1>3 DEF IInv

\* The senders, the dialogue, the clock and the timer.
LEMMA OthersKeepIInv ==
  ASSUME IInv,
         \/ KeyDown \/ TouchUp \/ OpenDialogue \/ Draw_window \/ clock_demo
         \/ rt_thread_timeout
         \/ \E m \in Commands : KeyUp(m) \/ TouchDown(m)
  PROVE  IInv'
<1> USE BoxAssumption DEF IInv, nrf, lcd, told
<1>1. CASE KeyDown \/ TouchUp \/ OpenDialogue \/ Draw_window \/ clock_demo
           \/ rt_thread_timeout
  <2>1. TypeOK'
    <3>1. CASE KeyDown \/ TouchUp
      <4>1. busy' \subseteq Senders
        BY <3>1 DEF TypeOK, KeyDown, TouchUp, Senders
      <4>2. UNCHANGED <<box, nrf, lock, lcd, told>>
        BY <3>1 DEF KeyDown, TouchUp
      <4> QED BY <4>1, <4>2 DEF TypeOK
    <3>2. CASE OpenDialogue
      BY <3>2 DEF TypeOK, OpenDialogue
    <3>3. CASE Draw_window
      BY <3>3 DEF TypeOK, Draw_window
    <3>4. CASE clock_demo
      BY <3>4 DEF TypeOK, clock_demo
    <3>5. CASE rt_thread_timeout
      <4>1. suspended' \in BOOLEAN
        BY <3>5 DEF rt_thread_timeout
      <4>2. UNCHANGED <<box, busy, pc, val, lock, lcd, told>>
        BY <3>5 DEF rt_thread_timeout
      <4> QED BY <4>1, <4>2 DEF TypeOK
    <3> QED BY <1>1, <3>1, <3>2, <3>3, <3>4, <3>5
  <2>2. LockInv' /\ SuspendedOffCpu'
    BY <1>1 DEF TypeOK, LockInv, SuspendedOffCpu, Inside, KeyDown, TouchUp, OpenDialogue,
       Draw_window, clock_demo, rt_thread_timeout
  <2>3. MarkInv'
    <3>1. CASE KeyDown \/ TouchUp \/ OpenDialogue \/ rt_thread_timeout
      BY <3>1 DEF MarkInv, KeyDown, TouchUp, OpenDialogue, rt_thread_timeout
    <3>2. CASE Draw_window
      BY <3>2 DEF LockInv, MarkInv, Inside, Draw_window
    <3>3. CASE clock_demo
      <4>1. UNCHANGED <<pc, color_flag, kt, redrawn>>
        BY <3>3 DEF clock_demo
      <4>2. CASE pc = "draw"
        BY <3>3, <4>1, <4>2 DEF MarkInv, clock_demo
      <4>3. CASE pc # "draw"
        BY <3>3, <4>1, <4>3 DEF MarkInv, clock_demo, TypeOK
      <4> QED BY <4>2, <4>3
    <3> QED BY <1>1, <3>1, <3>2, <3>3
  <2>4. ToldInv'
    BY <1>1 DEF ToldInv, Acknowledged, Ordered, KeyDown, TouchUp, OpenDialogue,
       Draw_window, clock_demo, rt_thread_timeout
  <2> QED BY <2>1, <2>2, <2>3, <2>4
<1>2. ASSUME NEW m \in Commands, KeyUp(m) \/ TouchDown(m) PROVE IInv'
  <2>1. rt_mb_send(m) /\ busy' \subseteq Senders
    BY <1>2 DEF KeyUp, TouchDown, TypeOK, Senders
  <2>2. UNCHANGED <<nrf, lock, lcd, told>>
    BY <1>2 DEF KeyUp, TouchDown
  <2>3. box' \in Seq(Commands) /\ Len(box') <= BoxSize
    BY <2>1, SendType DEF TypeOK
  <2> QED
    BY <2>1, <2>2, <2>3 DEF TypeOK, LockInv, MarkInv, ToldInv, Acknowledged, Ordered,
       SuspendedOffCpu
<1> QED BY <1>1, <1>2

\* The steps of NRF2401_thread.
LEMMA ThreadKeepsIInv ==
  ASSUME IInv, NRF2401_thread
  PROVE  IInv'
<1> USE BoxAssumption DEF IInv, lcd, told, Runs
<1>1. CASE Take
  <2>1. box' \in Seq(Commands) /\ Len(box') <= BoxSize /\ val' \in Commands
    BY <1>1 DEF Take, TypeOK
  <2> QED
    BY <1>1, <2>1 DEF NRF2401_thread, Take, TypeOK, LockInv, MarkInv, ToldInv,
       Acknowledged, Ordered, SuspendedOffCpu, Inside
<1>2. ASSUME NEW sta \in {"TX_OK", "MAX_TX", "other"}, TxPacket(sta) PROVE IInv'
  <2>1. TypeOK'
    <3>1. curtain' \in {0, 1}
      BY <1>2 DEF TxPacket, TypeOK, Ordered
    <3>2. doubt' \in BOOLEAN
      BY <1>2 DEF TxPacket, TypeOK
    <3>3. pc' \in {"exit", "toggle", "flash"}
      BY <1>2 DEF TxPacket
    <3>4. UNCHANGED <<box, busy, val, suspended, lock, lcd, curtain_status>>
      BY <1>2 DEF NRF2401_thread, TxPacket
    <3> QED BY <3>1, <3>2, <3>3, <3>4 DEF TypeOK
  <2>2. LockInv' /\ MarkInv' /\ SuspendedOffCpu'
    BY <1>2 DEF NRF2401_thread, TxPacket, TypeOK, LockInv, MarkInv, SuspendedOffCpu, Inside
  <2>3. CASE val = "stop"
    BY <1>2, <2>1, <2>2, <2>3 DEF TxPacket, ToldInv, Acknowledged, Ordered
  <2>4. CASE val # "stop" /\ sta = "TX_OK"
    BY <1>2, <2>1, <2>2, <2>4 DEF TxPacket, ToldInv, Acknowledged, Ordered
  <2>5. CASE val # "stop" /\ sta # "TX_OK"
    BY <1>2, <2>1, <2>2, <2>5 DEF TxPacket, ToldInv, Acknowledged, Ordered
  <2> QED BY <2>3, <2>4, <2>5
<1>3. CASE Flash \/ Unmark \/ Toggle
  <2>1. TypeOK'
    <3>1. CASE Flash
      BY <3>1 DEF NRF2401_thread, Flash, TypeOK, Ordered
    <3>2. CASE Unmark
      BY <3>2 DEF NRF2401_thread, Unmark, TypeOK, Ordered
    <3>3. CASE Toggle
      BY <3>3 DEF NRF2401_thread, Toggle, TypeOK, Ordered
    <3> QED BY <1>3, <3>1, <3>2, <3>3
  <2>2. LockInv' /\ SuspendedOffCpu'
    BY <1>3 DEF Flash, Unmark, Toggle, LockInv, SuspendedOffCpu, Inside
  <2>3. MarkInv'
    <3>1. CASE Flash
      BY <3>1 DEF Flash, TypeOK, MarkInv
    <3>2. CASE Unmark
      BY <3>2 DEF Unmark, TypeOK, MarkInv
    <3>3. CASE Toggle /\ color_flag
      BY <3>3 DEF Toggle, TypeOK, MarkInv
    <3>4. CASE Toggle /\ ~color_flag
      BY <3>4 DEF Toggle, TypeOK, MarkInv
    <3> QED BY <1>3, <3>1, <3>2, <3>3, <3>4
  <2>4. ToldInv'
    BY <1>3 DEF Flash, Unmark, Toggle, ToldInv, Acknowledged, Ordered
  <2> QED BY <2>1, <2>2, <2>3, <2>4
<1>4. CASE DrawKT \/ Exit
  <2>1. TypeOK'
    <3>1. CASE DrawKT
      BY <3>1 DEF NRF2401_thread, DrawKT, TypeOK, Ordered
    <3>2. CASE Exit
      BY <3>2 DEF NRF2401_thread, Exit, TypeOK, Ordered
    <3> QED BY <1>4, <3>1, <3>2
  <2>2. LockInv' /\ SuspendedOffCpu'
    BY <1>4 DEF DrawKT, Exit, LockInv, SuspendedOffCpu, Inside
  <2>3. MarkInv'
    BY <1>4 DEF DrawKT, Exit, TypeOK, MarkInv
  <2>4. ToldInv'
    BY <1>4 DEF DrawKT, Exit, ToldInv, Acknowledged, Ordered
  <2> QED BY <2>1, <2>2, <2>3, <2>4
<1>5. CASE Pause \/ Loop
  <2>1. TypeOK'
    <3>1. CASE Pause
      BY <3>1 DEF NRF2401_thread, Pause, TypeOK, Ordered
    <3>2. CASE Loop
      BY <3>2 DEF NRF2401_thread, Loop, TypeOK, Ordered
    <3> QED BY <1>5, <3>1, <3>2
  <2>2. LockInv' /\ SuspendedOffCpu'
    BY <1>5 DEF Pause, Loop, LockInv, SuspendedOffCpu, Inside
  <2>3. MarkInv'
    BY <1>5 DEF Pause, Loop, TypeOK, MarkInv
  <2>4. ToldInv'
    BY <1>5 DEF Pause, Loop, ToldInv, Acknowledged, Ordered
  <2> QED BY <2>1, <2>2, <2>3, <2>4
<1> QED BY <1>1, <1>2, <1>3, <1>4, <1>5 DEF NRF2401_thread

LEMMA NextIInv == IInv /\ [Next]_vars => IInv'
<1> SUFFICES ASSUME IInv, [Next]_vars PROVE IInv'
  OBVIOUS
<1>1. CASE UNCHANGED vars
  BY <1>1 DEF IInv, vars, nrf, lcd, told, TypeOK, LockInv, MarkInv, ToldInv, Acknowledged,
     Ordered, SuspendedOffCpu
<1>2. CASE NRF2401_thread
  BY <1>2, ThreadKeepsIInv
<1>3. CASE Next /\ ~NRF2401_thread
  BY <1>3, OthersKeepIInv DEF Next
<1> QED BY <1>1, <1>2, <1>3

LEMMA Invariance == Spec => []IInv
BY InitIInv, NextIInv, PTL DEF Spec

\* The state of the curtain keeps its type, and the mailbox its size.
THEOREM TypeCorrect == Spec => []TypeOK
<1>1. IInv => TypeOK
  BY DEF IInv
<1> QED BY <1>1, Invariance, PTL

\* MarkShown: K/T is red for its mark, or because the interrupt of the clock
\* came before it was drawn (so it may outlive LEFT and RIGHT), and for nothing
\* else.
THEOREM MarkIsShown == Spec => []MarkShown
<1>1. IInv => MarkShown
  BY DEF IInv, LockInv, MarkInv, MarkShown, Inside
<1> QED BY <1>1, Invariance, PTL

\* curtain_status is what the curtain was told last, unless a transmission
\* has failed since.
THEOREM StatusIsTold == Spec => []StatusTold
<1>1. IInv => StatusTold
  BY DEF IInv, LockInv, ToldInv, Acknowledged, StatusTold, Inside
<1> QED BY <1>1, Invariance, PTL

\* A suspended thread runs on only with the scheduler locked.
THEOREM SuspendedIsOffCpu == Spec => []SuspendedOffCpu
<1>1. IInv => SuspendedOffCpu
  BY DEF IInv
<1> QED BY <1>1, Invariance, PTL

\* What is told to the curtain, its status and the mark of K/T change only with
\* the scheduler locked by NRF2401_thread, before and after the step
\* (main.c 102, 173).
THEOREM WorkIsLocked == Spec => LockedWork
<1>1. IInv /\ [Next]_vars =>
        [<<curtain, curtain_status, color_flag>>' # <<curtain, curtain_status, color_flag>>
           => lock = "nrf" /\ lock' = "nrf"]_vars
  <2> SUFFICES ASSUME IInv, Next,
                      \/ curtain' # curtain \/ curtain_status' # curtain_status
                      \/ color_flag' # color_flag
               PROVE  lock = "nrf" /\ lock' = "nrf"
    BY DEF vars
  <2>1. NRF2401_thread
    BY DEF Next, KeyDown, KeyUp, TouchDown, TouchUp, OpenDialogue, Draw_window,
       clock_demo, rt_thread_timeout, nrf, lcd, told
  <2>2. pc \in Inside /\ lock' = lock
    BY <2>1 DEF NRF2401_thread, Take, TxPacket, Flash, Unmark, Toggle, DrawKT, Exit, Pause,
       Loop, Runs, Inside, lcd, told
  <2> QED BY <2>2 DEF IInv, LockInv
<1> QED BY <1>1, Invariance, PTL DEF Spec, LockedWork

-----------------------------------------------------------------------------
(* The mailbox is a bounded first-in first-out queue.                      *)

\* A step that sends a mail, or drops it because the mailbox is full.
LEMMA SendRefines ==
  ASSUME NEW m \in Commands, rt_mb_send(m), UNCHANGED val
  PROVE  [Fifo!Next]_(Fifo!fvars)
<1>1. [t \in {"nrf"} |-> val]' = [t \in {"nrf"} |-> val]
  OBVIOUS
<1>2. CASE Len(box) < BoxSize
  BY <1>1, <1>2 DEF rt_mb_send, Fifo!Next, Fifo!Send
<1>3. CASE ~(Len(box) < BoxSize)
  BY <1>1, <1>3 DEF rt_mb_send, Fifo!fvars
<1> QED BY <1>2, <1>3

\* NRF2401_thread takes the mail at the head.
LEMMA TakeRefines ==
  ASSUME Take
  PROVE  Fifo!Next
<1>1. box # <<>> /\ val' = Head(box) /\ box' = Tail(box)
  BY DEF Take
<1>2. [t \in {"nrf"} |-> val]' = [[t \in {"nrf"} |-> val] EXCEPT !["nrf"] = Head(box)]
  BY <1>1
<1>3. Fifo!Recv("nrf")
  BY <1>1, <1>2 DEF Fifo!Recv
<1> QED BY <1>3 DEF Fifo!Next

\* No other step of the threads, of the clock or of a timer touches a mail.
LEMMA OthersRefine ==
  ASSUME UNCHANGED <<box, val>>
  PROVE  [Fifo!Next]_(Fifo!fvars)
<1>1. [t \in {"nrf"} |-> val]' = [t \in {"nrf"} |-> val]
  OBVIOUS
<1> QED BY <1>1 DEF Fifo!fvars

\* The commands for the curtain go through a bounded first-in first-out queue
\* to NRF2401_thread, for every size of its mailbox (main.c 99).
THEOREM CurtainRefinesFifo == Spec => RefinesFifo
<1>1. Init => Fifo!Init
  BY DEF Init, Fifo!Init
<1>2. [Next]_vars => [Fifo!Next]_(Fifo!fvars)
  <2> SUFFICES ASSUME [Next]_vars PROVE [Fifo!Next]_(Fifo!fvars)
    OBVIOUS
  <2>1. ASSUME NEW m \in Commands, KeyUp(m) \/ TouchDown(m) PROVE [Fifo!Next]_(Fifo!fvars)
    <3>1. rt_mb_send(m) /\ val' = val
      BY <2>1 DEF KeyUp, TouchDown, nrf
    <3> QED BY <3>1, SendRefines
  <2>2. CASE Take
    BY <2>2, TakeRefines
  <2>3. CASE UNCHANGED <<box, val>>
    BY <2>3, OthersRefine
  <2>4. CASE \/ KeyDown \/ TouchUp \/ OpenDialogue \/ Draw_window \/ clock_demo
             \/ rt_thread_timeout \/ UNCHANGED vars
    <3>1. UNCHANGED <<box, val>>
      BY <2>4 DEF vars, nrf, KeyDown, TouchUp, OpenDialogue, Draw_window, clock_demo,
         rt_thread_timeout
    <3> QED BY <3>1, <2>3
  <2>5. CASE NRF2401_thread /\ ~Take
    <3>1. UNCHANGED <<box, val>>
      BY <2>5 DEF NRF2401_thread, TxPacket, Flash, Unmark, Toggle, DrawKT, Exit, Pause, Loop
    <3> QED BY <3>1, <2>3
  <2> QED BY <2>1, <2>2, <2>4, <2>5 DEF Next
<1> QED BY <1>1, <1>2, PTL DEF Spec, RefinesFifo, Fifo!Spec
=============================================================================
