------------------------------- MODULE Remote -------------------------------
(***************************************************************************)
(* The infrared remote (applications/remote.c): TIM4 measures the pulses   *)
(* that the receiver sends, its callbacks shift the bits of a frame into   *)
(* RmtRec and keep the state in the bits of RmtSta, and Remote_Scan, called *)
(* by IRDA_thread, turns them into the code of a key.  The callbacks run   *)
(* in the interrupt between any two memory accesses of Remote_Scan, which  *)
(* reads RmtRec four times and changes RmtSta by a load and a store (the   *)
(* firmware is built without optimisation).                                *)
(*                                                                         *)
(* A frame is the address, its complement, the key and its complement, of  *)
(* B bits each.  RmtCnt is left out: nothing reads it.                     *)
(***************************************************************************)
EXTENDS Naturals, Sequences

CONSTANTS
  B,           \* bits of a byte
  Keys,        \* the codes that IRDA_thread acts on
  Buttons,     \* the keys that are pressed
  Silence,     \* overflows of TIM4 after which the key counts as released
  MaxPresses,  \* bound on the keys pressed
  MaxEvents    \* bound on the repeats sent and the pulses missed, together

Byte == [1 .. B -> {0, 1}]
ZERO == [i \in 1 .. B |-> 0]

\* The codes of remote.h that IRDA_thread knows all end in the bits 10.
ASSUME WidthAssumption == B \in Nat /\ B > 1
ASSUME KeysAssumption ==
  /\ Keys \subseteq {k \in Byte : k[B] = 0 /\ k[B - 1] = 1}
  /\ Buttons \subseteq Keys
ASSUME SilenceAssumption == Silence \in Nat \ {0}
ASSUME BoundsAssumption  == MaxPresses \in Nat /\ MaxEvents \in Nat

VARIABLES
  RmtSta,      \* bits 7, 6, 4 and 3..0: [leader, full, rising, ticks]
  RmtRec,      \* the shift register
  line,        \* the line: "idle", "burst", "late", "high", "low", "tail"
  pulses,      \* pulses of the frame still to come, as widths in microseconds
  pc,          \* where IRDA_thread is
  irda_value,  \* the key it found
  waiting,     \* it waits for the key to be let go
  t1, sta,     \* Remote_Scan: the byte read last, the result so far
  loaded,      \* Remote_Scan: RmtSta as loaded
  presses, pressed,  \* keys pressed: how many, which (history)
  ghosts,      \* edges that begin a frame and were taken for a leader (history)
  acted,       \* keys acted on (history)
  events       \* repeats sent and pulses missed

receiver == <<RmtSta, RmtRec>>
sender   == <<line, pulses>>
thread   == <<pc, irda_value, waiting, t1, sta, loaded>>
returned == <<irda_value, waiting, sta>>
history  == <<presses, pressed, ghosts, acted, events>>
vars     == <<receiver, sender, thread, history>>

Complement(b) == [i \in 1 .. B |-> 1 - b[i]]
ByteOf(n)     == [i \in 1 .. B |-> RmtRec[n * B + i]]

Cleared == [leader |-> FALSE, full |-> FALSE, rising |-> FALSE, ticks |-> 0]

Init ==
  /\ RmtSta = Cleared
  /\ RmtRec = [i \in 1 .. 4 * B |-> 0]
  /\ line = "idle" /\ pulses = <<>>
  /\ pc = "rest" /\ irda_value = ZERO /\ waiting = FALSE
  /\ t1 = ZERO /\ sta = ZERO /\ loaded = Cleared
  /\ presses = 0 /\ pressed = {} /\ ghosts = 0 /\ acted = 0
  /\ events = 0

-----------------------------------------------------------------------------
(* The callbacks of TIM4.                                                  *)

\* Faulty variant: one overflow too many is counted.
PeriodElapsedLate ==
  /\ RmtSta' = CASE ~RmtSta.leader -> RmtSta
                 [] RmtSta.leader /\ RmtSta.ticks <= Silence ->
                      [RmtSta EXCEPT !.rising = FALSE, !.ticks = @ + 1,
                                     !.full = @ \/ RmtSta.ticks = 0]
                 [] OTHER ->
                      [RmtSta EXCEPT !.rising = FALSE, !.leader = FALSE, !.ticks = 0]
  /\ UNCHANGED RmtRec

\* HAL_TIM_PeriodElapsedCallback, 10 ms after the last rising edge and again
\* every 10 ms: the frame is complete, and after Silence of them it is over.
PeriodElapsed ==
  /\ RmtSta' = CASE ~RmtSta.leader -> RmtSta
                 [] RmtSta.leader /\ RmtSta.ticks < Silence ->
                      [RmtSta EXCEPT !.rising = FALSE, !.ticks = @ + 1,
                                     !.full = @ \/ RmtSta.ticks = 0]
                 [] OTHER ->
                      [RmtSta EXCEPT !.rising = FALSE, !.leader = FALSE, !.ticks = 0]
  /\ UNCHANGED RmtRec

\* HAL_TIM_IC_CaptureCallback on a rising edge.
Rising ==
  /\ RmtSta' = [RmtSta EXCEPT !.rising = TRUE]
  /\ UNCHANGED RmtRec

Shift(b) == Append(Tail(RmtRec), b)

\* What a pulse of Dval microseconds is taken for.
IsZero(Dval)   == Dval > 300  /\ Dval < 800
IsOne(Dval)    == Dval > 1400 /\ Dval < 1800
IsRepeat(Dval) == Dval > 2200 /\ Dval < 2600
IsLeader(Dval) == Dval > 4200 /\ Dval < 4700

\* The same on a falling edge, Dval microseconds after the counter was 0.
Falling(Dval) ==
  LET bits  == RmtSta.rising /\ RmtSta.leader
      start == RmtSta.rising /\ ~RmtSta.leader
  IN /\ RmtSta' = [RmtSta EXCEPT !.rising = FALSE,
                     !.leader = @ \/ (start /\ IsLeader(Dval)),
                     !.ticks  = IF bits /\ IsRepeat(Dval) THEN 0 ELSE @]
     /\ RmtRec' = CASE bits /\ IsZero(Dval) -> Shift(0)
                    [] bits /\ IsOne(Dval)  -> Shift(1)
                    [] OTHER -> RmtRec

-----------------------------------------------------------------------------
(* The remote and the line.  The receiver's output is high when idle; a     *)
(* frame begins with 9 ms low.                                             *)

LEADER == 4500
REPEAT == 2250
Width(b) == IF b = 1 THEN 1680 ELSE 560

\* The pulses of a frame.
Frame(k) ==
  LET bits == ZERO \o Complement(ZERO) \o k \o Complement(k)
  IN <<LEADER>> \o [i \in 1 .. 4 * B |-> Width(bits[i])]

\* The line falls.  If the last rising edge still counts, the counter, which
\* has run since, is taken for the width of a pulse, whatever it is.
Begin(ps) ==
  /\ line = "idle"
  /\ line' = "burst"
  /\ pulses' = ps
  /\ \E Dval \in {0, 560, 1680, 2250, 4500} : Falling(Dval)
  /\ ghosts' = IF ~RmtSta.leader /\ RmtSta'.leader THEN ghosts + 1 ELSE ghosts
  /\ UNCHANGED <<thread, acted>>

Press(k) ==
  /\ presses < MaxPresses
  /\ presses' = presses + 1
  /\ pressed' = pressed \cup {k}
  /\ Begin(Frame(k))
  /\ UNCHANGED events

\* While a key is held the remote sends repeats.
Repeat ==
  /\ presses > 0
  /\ events < MaxEvents
  /\ events' = events + 1
  /\ Begin(<<REPEAT>>)
  /\ UNCHANGED <<presses, pressed>>

\* The counter overflows on an idle line, and once at most in a burst.  At
\* least 10 ms, and so one overflow, lie between two frames.
Overflow ==
  /\ line \in {"tail", "idle", "burst"}
  /\ line' = IF line = "burst" THEN "late" ELSE "idle"
  /\ PeriodElapsed
  /\ UNCHANGED <<pulses, thread, history>>

\* A rising edge begins a pulse, or ends the frame.
Rise ==
  /\ line \in {"burst", "late", "low"}
  /\ line' = IF pulses = <<>> THEN "tail" ELSE "high"
  /\ Rising
  /\ UNCHANGED <<pulses, thread, history>>

Fall ==
  /\ line = "high"
  /\ line' = "low"
  /\ pulses' = Tail(pulses)
  /\ Falling(Head(pulses))
  /\ UNCHANGED <<thread, history>>

\* A pulse is missed: the interrupt of the clock draws on the LCD meanwhile.
Lose ==
  /\ events < MaxEvents
  /\ line \in {"burst", "late", "low"}
  /\ pulses # <<>>
  /\ line' = "low"
  /\ pulses' = Tail(pulses)
  /\ events' = events + 1
  /\ UNCHANGED <<receiver, thread, presses, pressed, ghosts, acted>>

Infrared ==
  \/ \E k \in Buttons : Press(k)
  \/ Repeat \/ Overflow \/ Rise \/ Fall \/ Lose

-----------------------------------------------------------------------------
(* Remote_Scan and IRDA_thread.                                            *)

\* Remote_Scan returns v: a key is waited for, or its end was waited for.
Return(v) ==
  /\ irda_value' = IF waiting THEN irda_value ELSE v
  /\ waiting' = (v # ZERO /\ (waiting => v = irda_value))
  /\ pc' = CASE waiting'             -> "look"
             [] waiting /\ ~waiting' -> "act"
             [] OTHER                -> "rest"
  /\ sta' = ZERO

\* After rt_thread_mdelay(10).
Wake ==
  /\ pc = "rest"
  /\ pc' = "look"
  /\ UNCHANGED <<returned, t1, loaded, RmtSta>>

Look ==
  /\ pc = "look"
  /\ IF RmtSta.full THEN pc' = "id" /\ UNCHANGED returned
                    ELSE Return(ZERO)
  /\ UNCHANGED <<t1, loaded, RmtSta>>

\* t1 is read: the address, or the key.
ReadByte ==
  /\ \/ pc = "id"  /\ t1' = ByteOf(0) /\ pc' = "id_complement"
     \/ pc = "key" /\ t1' = ByteOf(2) /\ pc' = "key_complement"
  /\ UNCHANGED <<returned, loaded, RmtSta>>

\* t2 is read and compared; REMOTE_ID is 0.
CompareId ==
  /\ pc = "id_complement"
  /\ pc' = IF t1 = Complement(ByteOf(1)) /\ t1 = ZERO THEN "key" ELSE "check"
  /\ t1' = ZERO
  /\ UNCHANGED <<returned, loaded, RmtSta>>

\* Faulty variant: the complement of the key is not looked at.
CompareKeyNot ==
  /\ pc = "key_complement"
  /\ sta' = t1
  /\ pc' = "check"
  /\ t1' = ZERO
  /\ UNCHANGED <<irda_value, waiting, loaded, RmtSta>>

CompareKey ==
  /\ pc = "key_complement"
  /\ sta' = IF t1 = Complement(ByteOf(3)) THEN t1 ELSE ZERO
  /\ pc' = "check"
  /\ t1' = ZERO
  /\ UNCHANGED <<irda_value, waiting, loaded, RmtSta>>

\* Faulty variant: the flag is kept when the key has been let go.
CheckKeeps ==
  /\ pc = "check"
  /\ IF sta = ZERO THEN pc' = "load" /\ UNCHANGED returned ELSE Return(sta)
  /\ UNCHANGED <<t1, loaded, RmtSta>>

\* Bad data, or the key has been let go.
Check ==
  /\ pc = "check"
  /\ IF sta = ZERO \/ ~RmtSta.leader
       THEN pc' = "load" /\ UNCHANGED returned
       ELSE Return(sta)
  /\ UNCHANGED <<t1, loaded, RmtSta>>

\* RmtSta &= ~(1 << 6): what the interrupt does between load and store is lost.
Load ==
  /\ pc = "load"
  /\ loaded' = RmtSta
  /\ pc' = "store"
  /\ UNCHANGED <<returned, t1, RmtSta>>

Store ==
  /\ pc = "store"
  /\ RmtSta' = [loaded EXCEPT !.full = FALSE]
  /\ Return(sta)
  /\ loaded' = Cleared
  /\ UNCHANGED t1

Remote_Scan ==
  /\ \/ Wake \/ Look \/ ReadByte \/ CompareId \/ CompareKey
     \/ Check \/ Load \/ Store
  /\ UNCHANGED <<RmtRec, sender, history>>

\* Faulty variant: IRDA_thread does not wait until the key is let go.
ActHeld ==
  /\ waiting
  /\ pc = "look"
  /\ pc' = "rest"
  /\ waiting' = FALSE
  /\ irda_value' = ZERO
  /\ acted' = IF irda_value \in Keys THEN acted + 1 ELSE acted
  /\ UNCHANGED <<receiver, sender, t1, sta, loaded,
                 presses, pressed, ghosts, events>>

\* IRDA_thread, once the key is let go: a code it does not know is ignored.
Act ==
  /\ pc = "act"
  /\ pc' = "rest"
  /\ irda_value' = ZERO
  /\ acted' = IF irda_value \in Keys THEN acted + 1 ELSE acted
  /\ UNCHANGED <<receiver, sender, waiting, t1, sta, loaded,
                 presses, pressed, ghosts, events>>

IRDA_thread == Remote_Scan \/ Act

Next == Infrared \/ IRDA_thread

Spec == Init /\ [][Next]_vars

\* Frames end, the counter runs, and the thread runs.
FairSpec ==
  /\ Spec
  /\ WF_vars(Rise \/ Fall)
  /\ WF_vars(Overflow)
  /\ WF_vars(IRDA_thread)

-----------------------------------------------------------------------------
(* Properties.                                                             *)

Stas == [leader : BOOLEAN, full : BOOLEAN, rising : BOOLEAN, ticks : 0 .. Silence]

\* Type invariant.
TypeOK ==
  /\ RmtSta \in Stas /\ loaded \in Stas
  /\ RmtRec \in [1 .. 4 * B -> {0, 1}]
  /\ line \in {"idle", "burst", "late", "high", "low", "tail"}
  /\ pulses \in Seq({LEADER, REPEAT, Width(0), Width(1)})
  /\ Len(pulses) <= 4 * B + 1
  /\ pc \in {"rest", "look", "id", "id_complement", "key", "key_complement",
             "check", "load", "store", "act"}
  /\ irda_value \in Byte /\ sta \in Byte /\ t1 \in Byte
  /\ waiting \in BOOLEAN
  /\ presses \in 0 .. MaxPresses /\ events \in 0 .. MaxEvents
  /\ pressed \subseteq Buttons
  /\ ghosts \in Nat /\ acted \in Nat

\* IRDA_thread acts on no key that nobody pressed (remote.c 129-132: the value
\* of the key that was pressed), although Remote_Scan reads RmtRec in pieces
\* while the interrupt shifts the next frame into it, and pulses are missed.
KeyGenuine == pc = "act" /\ irda_value \in Keys => irda_value \in pressed

\* A key that is held, and repeats, is acted on once (main.c 414).  Only an
\* edge taken for a leader, after a frame that had none, brings a key back.
OncePerPress == acted <= presses + ghosts

Phase == IF waiting THEN "down" ELSE IF pc = "act" THEN "over" ELSE "up"

Latch == INSTANCE KeyLatch WITH Codes <- Byte, NoCode <- ZERO, Known <- Keys,
                                code <- irda_value, phase <- Phase, obeyed <- acted

\* Whatever Remote_Scan returns, torn, lost or repeated, IRDA_thread obeys a code
\* once and only after Remote_Scan has ceased to return it (main.c 414), and it is
\* the code that it noticed first.
RefinesLatch == Latch!Spec

\* IRDA_thread, waiting in a loop for the key to be let go (main.c 414), is
\* done with it at last: less urgent threads are not shut out for ever.
KeyWaitEnds == waiting ~> ~waiting
=============================================================================
