------------------------------- MODULE Usart2 -------------------------------
(***************************************************************************)
(* Receiving from the GSM modem, byte by byte: USART2_IRQHandler           *)
(* (applications/usart.c) stores each byte and restarts TIM5, and          *)
(* TIM5_IRQHandler (applications/bsp_timer.c) runs when the line has been  *)
(* silent for 30 ms and marks the frame complete.  USART_RX2_STA is both   *)
(* the index of the next byte and, as 0x8000, the flag of a complete       *)
(* frame; the GSM threads test the flag, write 0 to it and clear the       *)
(* buffer, with interrupts on.                                             *)
(*                                                                         *)
(* USART2 has preemption priority 0 and TIM5 has 1, so a byte can arrive   *)
(* inside TIM5_IRQHandler, between its write of the flag and the stop of   *)
(* the timer.  At 115200 baud a byte takes 87 us, so no second one does.   *)
(***************************************************************************)
EXTENDS Naturals

CONSTANTS Frames,        \* the modem's frames; a byte is known by its frame
          NUL,           \* a cleared byte
          USART_REC_LEN, \* length of USART_RX2_BUF
          DONE           \* the flag bit of USART_RX2_STA, 0x8000

ASSUME LengthAssumption ==
  USART_REC_LEN \in Nat \ {0} /\ DONE \in Nat /\ USART_REC_LEN <= DONE
ASSUME NulAssumption == NUL \notin Frames

VARIABLES
  USART_RX2_STA,
  USART_RX2_BUF,
  tim5,           \* TIM5 is counting
  tim5_isr,       \* TIM5_IRQHandler: "out", "flagged" (flag written, timer
                  \* still on), "hit" (a byte has come in meanwhile)
  unread          \* bytes arrived since a thread last wrote 0 to the state

vars == <<USART_RX2_STA, USART_RX2_BUF, tim5, tim5_isr, unread>>

Index == 0 .. USART_REC_LEN - 1

\* uart2_init and TIM5_Init: receive interrupt on, timer prepared and stopped.
Init ==
  /\ USART_RX2_STA = 0
  /\ USART_RX2_BUF = [i \in Index |-> NUL]
  /\ tim5 = FALSE
  /\ tim5_isr = "out"
  /\ unread = FALSE

\* STA & 0x7FFF, the place where the next byte goes.
Place == IF USART_RX2_STA >= DONE THEN USART_RX2_STA - DONE ELSE USART_RX2_STA

\* Faulty variant: the index may reach USART_REC_LEN.
NextStaLate(sta) == IF sta + 1 > USART_REC_LEN THEN 0 ELSE sta + 1

\* The increment, and the test that starts the buffer again.
NextSta(sta) == IF sta + 1 > USART_REC_LEN - 1 THEN 0 ELSE sta + 1

\* Faulty variant: the byte does not start the timer.
USART2_IRQHandlerUntimed(f) ==
  /\ tim5_isr # "hit"
  /\ USART_RX2_BUF' = [USART_RX2_BUF EXCEPT ![Place] = f]
  /\ USART_RX2_STA' = NextSta(USART_RX2_STA)
  /\ tim5_isr' = IF tim5_isr = "flagged" THEN "hit" ELSE tim5_isr
  /\ unread' = TRUE
  /\ UNCHANGED tim5

USART2_IRQHandler(f) ==
  /\ tim5_isr # "hit"
  /\ USART_RX2_BUF' = [USART_RX2_BUF EXCEPT ![Place] = f]
  /\ USART_RX2_STA' = NextSta(USART_RX2_STA)
  /\ tim5' = TRUE
  /\ tim5_isr' = IF tim5_isr = "flagged" THEN "hit" ELSE tim5_isr
  /\ unread' = TRUE

\* Faulty variant: the flag is set on top of the index.
TIM5_FlagOr ==
  /\ tim5
  /\ tim5_isr = "out"
  /\ USART_RX2_STA' = USART_RX2_STA + DONE
  /\ tim5_isr' = "flagged"
  /\ UNCHANGED <<USART_RX2_BUF, tim5, unread>>

\* TIM5_IRQHandler up to the write of the flag.
TIM5_Flag ==
  /\ tim5
  /\ tim5_isr = "out"
  /\ USART_RX2_STA' = DONE
  /\ tim5_isr' = "flagged"
  /\ UNCHANGED <<USART_RX2_BUF, tim5, unread>>

\* The end of TIM5_IRQHandler.
TIM5_Stop ==
  /\ tim5_isr # "out"
  /\ tim5' = FALSE
  /\ tim5_isr' = "out"
  /\ UNCHANGED <<USART_RX2_STA, USART_RX2_BUF, unread>>

\* Faulty variant: consuming a frame also stops the timer.
ClearStaStops ==
  /\ tim5_isr = "out"
  /\ USART_RX2_STA' = 0
  /\ unread' = FALSE
  /\ tim5' = FALSE
  /\ UNCHANGED <<USART_RX2_BUF, tim5_isr>>

\* A thread writes USART_RX2_STA = 0.
ClearSta ==
  /\ tim5_isr = "out"
  /\ USART_RX2_STA' = 0
  /\ unread' = FALSE
  /\ UNCHANGED <<USART_RX2_BUF, tim5, tim5_isr>>

\* A thread clears the buffer with memset.
ClearBuf ==
  /\ tim5_isr = "out"
  /\ USART_RX2_BUF' = [i \in Index |-> NUL]
  /\ UNCHANGED <<USART_RX2_STA, tim5, tim5_isr, unread>>

Next ==
  \/ \E f \in Frames : USART2_IRQHandler(f)
  \/ TIM5_Flag
  \/ TIM5_Stop
  \/ ClearSta
  \/ ClearBuf

Spec == Init /\ [][Next]_vars

\* The modem falls silent now and then, and a handler that started ends.
Fairness == WF_vars(TIM5_Flag) /\ WF_vars(TIM5_Stop)

FairSpec == Spec /\ Fairness

-----------------------------------------------------------------------------
(* Properties.                                                             *)

\* Type invariant: in particular USART_RX2_STA never holds an index and the
\* flag at once.
TypeOK ==
  /\ USART_RX2_STA \in Index \cup {DONE}
  /\ USART_RX2_BUF \in [Index -> Frames \cup {NUL}]
  /\ tim5 \in BOOLEAN
  /\ tim5_isr \in {"out", "flagged", "hit"}
  /\ unread \in BOOLEAN

\* Every byte is stored inside USART_RX2_BUF (usart.c 288), also the one that
\* arrives while the flag is set and the index bits read 0.
StoreInBounds == Place \in Index

\* While a frame is partly received the timer that ends it is running, so no
\* frame stays half received: whatever threads write to USART_RX2_STA and
\* wherever a byte hits TIM5_IRQHandler.
PartialTimed == USART_RX2_STA \in 1 .. USART_REC_LEN - 1 => tim5

\* A frame that has begun is flagged in the end (bsp_timer.c 44).
FrameFlagged ==
  USART_RX2_STA \in 1 .. USART_REC_LEN - 1 ~> USART_RX2_STA = DONE

\* The comments at usart.c 285 and bsp_timer.c 44 say that silence after a byte
\* makes the timer overflow and mark the reception complete: bytes that were not
\* consumed are flagged, or the timer is still going to flag them.
UnreadReported == unread => USART_RX2_STA = DONE \/ tim5

\* Byte by byte, the two handlers give the threads the frame channel.
Rx == IF USART_RX2_STA = DONE THEN "complete"
      ELSE IF tim5 /\ tim5_isr = "out" THEN "receiving" ELSE "idle"
Text == {USART_RX2_BUF[i] : i \in Index} \ {NUL}

Channel == INSTANCE FrameChannel WITH rx <- Rx, text <- Text
RefinesChannel == Channel!Spec
=============================================================================
