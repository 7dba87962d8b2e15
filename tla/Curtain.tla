------------------------------ MODULE Curtain -------------------------------
(***************************************************************************)
(* The curtain (applications/main.c): IRDA_thread and touch_thread mail    *)
(* left, right and stop to NRF2401_thread, which transmits them to the     *)
(* curtain's own board over the NRF24L01 (24l01.c) with the scheduler      *)
(* locked, and marks them on the LCD.  After left and right it calls       *)
(* rt_thread_mdelay(500) while the scheduler is locked: the kernel marks   *)
(* the thread suspended, and the thread runs on until it unlocks.          *)
(*                                                                         *)
(* IRDA_thread and touch_thread are more urgent than NRF2401_thread, and   *)
(* run on while the key or the screen is pressed.                          *)
(***************************************************************************)
EXTENDS Naturals, Sequences

CONSTANT BoxSize  \* mails that IRDA_NRF2401_send holds

ASSUME BoxAssumption == BoxSize \in Nat \ {0}

Commands == {"left", "right", "stop"}
Senders  == {"irda", "touch"}

VARIABLES
  box,             \* IRDA_NRF2401_send
  busy,            \* the senders that wait for the key or the screen
  pc, val,         \* where NRF2401_thread is, the mail it received
  suspended,       \* the kernel has suspended it: its timer runs
  lock,            \* the thread that has locked the scheduler, or "none"
  POINT_COLOR,     \* the colour that LCD_ShowString draws in
  color_flag,      \* K/T is marked
  kt,              \* the colour of K/T on the LCD
  hit,             \* the clock drew before K/T was drawn (history)
  curtain_status,  \* the curtain is open (1) or closed (0)
  curtain,         \* what the curtain's board was told last (external)
  doubt,           \* a transmission has failed since (history)
  redrawn          \* Draw_window drew K/T last (history)

nrf  == <<pc, val, suspended>>
lcd  == <<POINT_COLOR, color_flag, kt, hit, redrawn>>
told == <<curtain_status, curtain, doubt>>
vars == <<box, busy, nrf, lock, lcd, told>>

Init ==
  /\ box = <<>> /\ busy = {}
  /\ pc = "recv" /\ val = "stop" /\ suspended = FALSE
  /\ lock = "none"
  /\ POINT_COLOR = "BLACK" /\ color_flag = FALSE /\ kt = "BLACK"
  /\ hit = FALSE /\ redrawn = FALSE
  /\ curtain_status = 1 /\ curtain = 1 /\ doubt = FALSE

-----------------------------------------------------------------------------
(* The senders, and the clock.                                             *)

\* Faulty variant: the last slot is counted once too often.
rt_mb_send_late(m) == box' = IF Len(box) <= BoxSize THEN Append(box, m) ELSE box

\* rt_mb_send: a full mailbox refuses, and nobody looks at the result.
rt_mb_send(m) == box' = IF Len(box) < BoxSize THEN Append(box, m) ELSE box

\* IRDA_thread waits until the key is let go, then sends.
KeyDown ==
  /\ lock = "none"
  /\ busy' = busy \cup {"irda"}
  /\ UNCHANGED <<box, nrf, lock, lcd, told>>

KeyUp(m) ==
  /\ lock = "none"
  /\ "irda" \in busy
  /\ rt_mb_send(m)
  /\ busy' = busy \ {"irda"}
  /\ UNCHANGED <<nrf, lock, lcd, told>>

\* touch_thread sends, then waits until the screen is let go.
TouchDown(m) ==
  /\ lock = "none"
  /\ busy = {}
  /\ rt_mb_send(m)
  /\ busy' = {"touch"}
  /\ UNCHANGED <<nrf, lock, lcd, told>>

TouchUp ==
  /\ lock = "none"
  /\ busy = {"touch"}
  /\ busy' = {}
  /\ UNCHANGED <<box, nrf, lock, lcd, told>>

\* The dialogue that sets the time: the interrupt of the clock is off, and
\* Draw_window draws K/T in black.
OpenDialogue ==
  /\ lock = "none"
  /\ busy = {}
  /\ lock' = "touch"
  /\ UNCHANGED <<box, busy, nrf, lcd, told>>

Draw_window ==
  /\ lock = "touch"
  /\ lock' = "none"
  /\ POINT_COLOR' = "BLACK"
  /\ kt' = "BLACK"
  /\ redrawn' = TRUE
  /\ UNCHANGED <<box, busy, nrf, color_flag, hit, told>>

\* clock_demo draws in red, in the interrupt of every second.
clock_demo ==
  /\ lock # "touch"
  /\ POINT_COLOR' = "RED"
  /\ hit' = (hit \/ pc = "draw")
  /\ UNCHANGED <<box, busy, nrf, lock, color_flag, kt, redrawn, told>>

-----------------------------------------------------------------------------
(* NRF2401_thread.                                                         *)

\* It is at l and has the processor.
Runs(l) ==
  /\ pc = l
  /\ lock = "nrf" \/ (lock = "none" /\ busy = {} /\ ~suspended)

\* A mail is received, rt_enter_critical.
Take ==
  /\ Runs("recv")
  /\ box # <<>>
  /\ val' = Head(box)
  /\ box' = Tail(box)
  /\ lock' = "nrf"
  /\ pc' = "transmit"
  /\ UNCHANGED <<suspended, lcd, told>>

Ordered == IF val = "left" THEN 1 ELSE 0

\* Faulty variant: MAX_TX counts as TX_OK.
TxPacketHopes(sta) ==
  /\ Runs("transmit")
  /\ curtain' \in IF val = "stop" THEN {curtain} ELSE {Ordered, curtain}
  /\ doubt' = FALSE
  /\ pc' = IF val = "stop" THEN "toggle" ELSE "flash"
  /\ UNCHANGED <<box, val, suspended, lock, lcd, curtain_status>>

\* NRF24L01_TxPacket: TX_OK when the curtain's board has acknowledged.  After
\* MAX_TX or another status the board may have got the command all the same.
TxPacket(sta) ==
  /\ Runs("transmit")
  /\ IF val = "stop"
       THEN UNCHANGED <<curtain, doubt>>
       ELSE /\ curtain' \in {Ordered} \cup {c \in {curtain} : sta # "TX_OK"}
            /\ doubt' = (sta # "TX_OK")
  /\ pc' = IF sta # "TX_OK" THEN "exit" ELSE IF val = "stop" THEN "toggle" ELSE "flash"
  /\ UNCHANGED <<box, val, suspended, lock, lcd, curtain_status>>

\* OPEN or CLOSE in red, and rt_thread_mdelay(500), which does not wait.
Flash ==
  /\ Runs("flash")
  /\ POINT_COLOR' = "RED"
  /\ suspended' = TRUE
  /\ pc' = "unmark"
  /\ UNCHANGED <<box, val, lock, color_flag, kt, hit, redrawn, told>>

\* Faulty variant: color_flag survives left and right.
UnmarkNot ==
  /\ Runs("unmark")
  /\ POINT_COLOR' = "BLACK"
  /\ hit' = FALSE
  /\ pc' = "draw"
  /\ UNCHANGED <<box, val, suspended, lock, color_flag, kt, redrawn, told>>

\* OPEN or CLOSE in black again, and the mark of K/T is taken back.
Unmark ==
  /\ Runs("unmark")
  /\ POINT_COLOR' = "BLACK"
  /\ color_flag' = FALSE
  /\ hit' = FALSE
  /\ pc' = "draw"
  /\ UNCHANGED <<box, val, suspended, lock, kt, redrawn, told>>

Toggle ==
  /\ Runs("toggle")
  /\ POINT_COLOR' = IF color_flag THEN "BLACK" ELSE "RED"
  /\ color_flag' = ~color_flag
  /\ hit' = FALSE
  /\ pc' = "draw"
  /\ UNCHANGED <<box, val, suspended, lock, kt, redrawn, told>>

\* K/T is drawn, in red if the interrupt of the clock came between.
DrawKT ==
  /\ Runs("draw")
  /\ kt' = POINT_COLOR
  /\ redrawn' = FALSE
  /\ curtain_status' = IF val = "stop" THEN curtain_status ELSE Ordered
  /\ pc' = "exit"
  /\ UNCHANGED <<box, val, suspended, lock, POINT_COLOR, color_flag, hit, curtain, doubt>>

\* rt_exit_critical: a thread that is suspended by now leaves the processor.
Exit ==
  /\ Runs("exit")
  /\ lock' = "none"
  /\ pc' = "pause"
  /\ UNCHANGED <<box, val, suspended, lcd, told>>

\* Faulty variant: the sleep comes after the next mail was asked for.
PauseLate ==
  /\ Runs("pause")
  /\ suspended' = TRUE
  /\ pc' = "recv"
  /\ UNCHANGED <<box, val, lock, lcd, told>>

\* rt_thread_mdelay(30).
Pause ==
  /\ Runs("pause")
  /\ suspended' = TRUE
  /\ pc' = "loop"
  /\ UNCHANGED <<box, val, lock, lcd, told>>

Loop ==
  /\ Runs("loop")
  /\ pc' = "recv"
  /\ UNCHANGED <<box, val, suspended, lock, lcd, told>>

NRF2401_thread ==
  /\ \/ Take \/ Flash \/ Unmark \/ Toggle \/ DrawKT \/ Exit \/ Pause \/ Loop
     \/ \E sta \in {"TX_OK", "MAX_TX", "other"} : TxPacket(sta)
  /\ UNCHANGED busy

\* Faulty variant: the timer of a sleep that began with the lock is lost.
rt_thread_timeout_lost ==
  /\ suspended
  /\ pc = "loop"
  /\ suspended' = FALSE
  /\ UNCHANGED <<box, busy, pc, val, lock, lcd, told>>

\* The timer of a sleep ends, also while the scheduler is locked.
rt_thread_timeout ==
  /\ suspended
  /\ suspended' = FALSE
  /\ UNCHANGED <<box, busy, pc, val, lock, lcd, told>>

Next ==
  \/ KeyDown \/ TouchUp \/ OpenDialogue \/ Draw_window \/ clock_demo
  \/ \E m \in Commands : KeyUp(m) \/ TouchDown(m)
  \/ NRF2401_thread
  \/ rt_thread_timeout

Spec == Init /\ [][Next]_vars

\* The user lets go of the key, of the screen and of the dialogue, timers end,
\* and NRF2401_thread runs at last although more urgent threads run often.
\* Its part in TxPacket assumes a transmitter that answers: the loop at
\* 24l01.c 128 has no timeout.
FairSpec ==
  /\ Spec
  /\ SF_vars(\E m \in Commands : KeyUp(m))
  /\ SF_vars(TouchUp)
  /\ WF_vars(Draw_window)
  /\ WF_vars(rt_thread_timeout)
  /\ SF_vars(NRF2401_thread)

-----------------------------------------------------------------------------
(* Properties.                                                             *)

\* Type invariant.
TypeOK ==
  /\ box \in Seq(Commands) /\ Len(box) <= BoxSize
  /\ busy \subseteq Senders
  /\ pc \in {"recv", "transmit", "flash", "unmark", "toggle", "draw", "exit",
             "pause", "loop"}
  /\ val \in Commands
  /\ suspended \in BOOLEAN
  /\ lock \in {"none", "nrf", "touch"}
  /\ POINT_COLOR \in {"BLACK", "RED"} /\ kt \in {"BLACK", "RED"}
  /\ color_flag \in BOOLEAN /\ hit \in BOOLEAN /\ redrawn \in BOOLEAN /\ doubt \in BOOLEAN
  /\ curtain_status \in {0, 1} /\ curtain \in {0, 1}

\* What K/T shows (main.c 117, 147): whenever the scheduler is not locked, it is
\* red just when it is marked, or when the interrupt of the clock came between
\* the last choice of the colour and the drawing; unless Draw_window has drawn
\* it, in black, since.
MarkShown == lock # "nrf" => (kt = "RED" <=> ~redrawn /\ (color_flag \/ hit))

\* curtain_status (main.c 121, 141) is what the curtain was told last, unless
\* a transmission has failed since: the status is not touched then, although
\* the command may have arrived.
StatusTold == lock # "nrf" /\ ~doubt => curtain_status = curtain

\* A thread that the kernel has suspended runs on only with the scheduler
\* locked (main.c 114): it never waits for a mail with its timer running.
SuspendedOffCpu == suspended => lock = "nrf" \/ pc \in {"pause", "loop"}

\* IRDA_NRF2401_send as its two senders and NRF2401_thread use it: the mails
\* that rt_mb_send accepted, and the one that rt_mb_recv returned last.
Fifo == INSTANCE MailFifo WITH Threads <- {"nrf"}, Mails <- Commands, Size <- BoxSize,
                               NoMail <- "stop", queue <- box,
                               inbox <- [t \in {"nrf"} |-> val]

\* The commands for the curtain go through a bounded first-in first-out queue
\* (main.c 99): NRF2401_thread carries out the oldest one, and val stays what
\* it is until the next one is taken.
RefinesFifo == Fifo!Spec

\* What is told to the curtain, its status and the mark of K/T change only
\* with the scheduler locked by NRF2401_thread before and after the step
\* (main.c 102, 173): no other thread sees them half-way.
LockedWork ==
  [][<<curtain, curtain_status, color_flag>>' # <<curtain, curtain_status, color_flag>>
       => lock = "nrf" /\ lock' = "nrf"]_vars

\* A full mailbox has room again (main.c 99): commands are not refused for
\* ever, and nobody keeps the scheduler locked.
BoxDrains == Len(box) = BoxSize ~> Len(box) < BoxSize
=============================================================================
