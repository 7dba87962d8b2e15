------------------------------- MODULE Panel --------------------------------
(***************************************************************************)
(* What the control panel promises its user: a mode, a lamp in the         *)
(* corridor, and an LCD on which both are changed at once with what they   *)
(* describe.  In the code a change and its label are two moments, with     *)
(* other threads and the clock's interrupt around; Home implements this.   *)
(*                                                                         *)
(* Three things are promised less than one would like: in mode OUT the     *)
(* corridor line says OFF whatever the lamp does, the dialogue that sets   *)
(* the time switches the lamp, and when it ends the LCD says HOME.         *)
(***************************************************************************)
VARIABLES
  mode,     \* "HOME" or "OUT"
  lamp,     \* the corridor lamp is lit
  says,     \* the mode that the LCD says
  line,     \* what the LCD says of the lamp, "ON" or "OFF"
  setting   \* the time is being set

pvars == <<mode, lamp, says, line, setting>>

Init ==
  /\ mode = "HOME" /\ says = "HOME"
  /\ lamp = FALSE /\ line = "OFF"
  /\ setting = FALSE

\* Somebody sets the mode: by the remote, the touch screen, the web page or a
\* short message.
SetMode(m) ==
  /\ ~setting
  /\ mode' = m /\ says' = m
  /\ UNCHANGED <<lamp, line, setting>>

\* Somebody, or the corridor's thread, switches the lamp.
Switch(on) ==
  /\ ~setting
  /\ lamp' = on
  /\ line' = IF on THEN "ON" ELSE "OFF"
  /\ UNCHANGED <<mode, says, setting>>

\* Nobody is at home.
SayOff ==
  /\ ~setting
  /\ mode = "OUT"
  /\ line' = "OFF"
  /\ UNCHANGED <<mode, lamp, says, setting>>

OpenSetting ==
  /\ ~setting
  /\ setting' = TRUE
  /\ UNCHANGED <<mode, lamp, says, line>>

\* A field of the dialogue is touched.
TouchField ==
  /\ setting
  /\ lamp' = ~lamp
  /\ UNCHANGED <<mode, says, line, setting>>

CloseSetting ==
  /\ setting
  /\ setting' = FALSE
  /\ lamp' = FALSE /\ line' = "OFF"
  /\ says' = "HOME"
  /\ UNCHANGED mode

Next ==
  \/ \E m \in {"HOME", "OUT"} : SetMode(m)
  \/ \E on \in BOOLEAN : Switch(on)
  \/ SayOff
  \/ OpenSetting \/ TouchField \/ CloseSetting

Spec == Init /\ [][Next]_pvars
=============================================================================
