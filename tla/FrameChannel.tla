---------------------------- MODULE FrameChannel ----------------------------
(***************************************************************************)
(* What the receive side of USART2 promises the GSM threads: frames of the *)
(* modem arrive in a shared buffer, and the silence after a frame raises a *)
(* flag.  It is not a queue: a frame that arrives before the flag of the   *)
(* last one was consumed takes that flag back and may overwrite any of the *)
(* text.  Usart2 implements it byte by byte; Gsm is built on it.           *)
(***************************************************************************)
CONSTANT Frames   \* what the modem may send

VARIABLES
  rx,     \* "idle", "receiving" (a frame is coming in), "complete" (flag set)
  text    \* the frames that can be found in the buffer

cvars == <<rx, text>>

Init == rx = "idle" /\ text = {}

\* A frame, or the next part of one, arrives.  It overwrites some of the old
\* text, and it is found itself unless it is torn.  The flag of an unread frame
\* is lost, and in the worst case (a byte in the middle of the timer's handler)
\* nothing is left to raise it again.
Byte(f) ==
  /\ rx' \in IF rx = "complete" THEN {"receiving", "idle"} ELSE {"receiving"}
  /\ \E keep \in SUBSET text : text' \in {keep, keep \cup {f}}

\* The line has been silent for long enough.
Silence ==
  /\ rx = "receiving"
  /\ rx' = "complete"
  /\ UNCHANGED text

\* A thread writes USART_RX2_STA = 0: a set flag is consumed, a frame that is
\* coming in will still raise its own.
Consume == rx' = IF rx = "complete" THEN "idle" ELSE rx

\* A thread clears the buffer with memset.
Clear == text' = {}

Next ==
  \/ \E f \in Frames : Byte(f)
  \/ Silence
  \/ Consume /\ UNCHANGED text
  \/ Clear /\ UNCHANGED rx

Spec == Init /\ [][Next]_cvars

\* Type invariant of the channel.
ChannelTypeOK == rx \in {"idle", "receiving", "complete"} /\ text \subseteq Frames
=============================================================================
