-------------------------------- MODULE Home --------------------------------
(***************************************************************************)
(* The control panel of the house (applications/main.c, bsp_led.c, lcd.c,  *)
(* rtc.c and the CGI handlers of httpd_cgi_ssi.c): the mode HOME or OUT,   *)
(* the corridor lamp, the siren, and the labels on the LCD that show them. *)
(* Eight threads and the RTC interrupt share this state and the colour     *)
(* POINT_COLOR that everything is drawn in.  Most threads lock the         *)
(* scheduler around an update; the web server and the sensor thread do     *)
(* not, and the lock does not keep the interrupt out.                      *)
(*                                                                         *)
(* Left out: RED_LED, the lamp of the bedroom and of the living room.      *)
(* Every byte from the modem toggles it (usart.c 287), so nothing can be   *)
(* said about it; what is drawn for it matters only by its colour.  The    *)
(* sensors are inputs, read anew wherever the code reads them.             *)
(***************************************************************************)
EXTENDS Naturals

VARIABLES
  sys_status,   \* the mode, "HOME" or "OUT"
  lamp,         \* the corridor lamp is lit (CORRIDOR_LIGHT = 0)
  BEEP,         \* the siren sounds
  POINT_COLOR,  \* the colour that LCD_ShowString draws in
  modeLabel,    \* the mode on the LCD
  lampLabel,    \* the corridor line on the LCD: what it says, in which colour
  pc,           \* per thread, where it is
  job,          \* per thread, the label it is about to draw
  lock,         \* the thread that locked the scheduler, or "none"
  redrawn,      \* Draw_window came after the last change of mode (history)
  late          \* intruder alarms begun in mode HOME since it was set (history)

house  == <<sys_status, lamp, BEEP>>
screen == <<POINT_COLOR, modeLabel, lampLabel>>
vars   == <<house, screen, pc, job, lock, redrawn, late>>

Modes   == {"HOME", "OUT"}
Colours == {"RED", "GREEN", "BLACK"}

\* A label to draw: of the mode, of the corridor lamp, or another one.
Job(l, t) == [label |-> l, text |-> t]
NoLabel == Job("other", "none")
Jobs  == {NoLabel} \cup {Job("mode", m) : m \in Modes}
                 \cup {Job("lamp", t) : t \in {"ON", "OFF"}}

ModeColour(m) == IF m = "HOME" THEN "GREEN" ELSE "RED"
LampText(on)   == IF on THEN "ON" ELSE "OFF"
LampColour(on) == IF on THEN "RED" ELSE "BLACK"
Opposite(m)    == IF m = "HOME" THEN "OUT" ELSE "HOME"

-----------------------------------------------------------------------------
(* Threads and their scheduling.                                           *)

\* Faulty variant: the web server is the least urgent thread.
PriorityWebLast ==
  [web |-> 20, sensor |-> 3, irda |-> 4, touch |-> 5, nrf |-> 6, read |-> 8,
   light |-> 12, security |-> 19]

\* RT_LWIP_TCPTHREAD_PRIORITY (rtconfig.h) for the web server, whose handlers
\* run in the tcpip thread; THREAD_PRIORITY + offset for the others.  A
\* smaller number runs first.
Priority ==
  [web |-> 1, sensor |-> 3, irda |-> 4, touch |-> 5, nrf |-> 6, read |-> 8,
   light |-> 12, security |-> 19]

Threads == {"web", "sensor", "irda", "touch", "nrf", "read", "light", "security"}

\* Where a thread sleeps, between two passes or inside one.
Asleep == {"rest", "sampling", "lit", "burst", "gap", "siren1", "siren2", "siren3"}
Midway(t) == pc[t] \notin Asleep

\* rt_schedule: a sleeping thread may wake at any time, and runs unless a more
\* urgent one is in the middle of something or the scheduler is locked.
CanRun(t) ==
  /\ lock \in {"none", t}
  /\ lock = "none" => \A u \in Threads \ {t} : Midway(u) => Priority[t] < Priority[u]

Goto(t, l) == pc' = [pc EXCEPT ![t] = l]

Init ==
  /\ sys_status = "HOME"
  /\ lamp = FALSE
  /\ BEEP = FALSE
  /\ POINT_COLOR = "GREEN"
  /\ modeLabel = "HOME"
  /\ lampLabel = [text |-> "OFF", colour |-> "BLACK"]
  /\ pc = [t \in Threads |-> "rest"]
  /\ job = [t \in Threads |-> NoLabel]
  /\ lock = "none"
  /\ redrawn = FALSE
  /\ late = 0

-----------------------------------------------------------------------------
(* Drawing: first the colour is set, then LCD_ShowString draws in it.  The *)
(* RTC interrupt may come between.                                         *)

\* Thread t has chosen colour c for job j; locked tells whether it is inside
\* rt_enter_critical.
Choose(t, c, j, locked) ==
  /\ POINT_COLOR' = c
  /\ job' = [job EXCEPT ![t] = j]
  /\ Goto(t, "draw")
  /\ lock' = IF locked THEN t ELSE lock
  /\ UNCHANGED <<modeLabel, lampLabel>>

\* LCD_ShowString.
LCD_ShowString(j) ==
  /\ modeLabel' = IF j.label = "mode" THEN j.text ELSE modeLabel
  /\ lampLabel' = IF j.label = "lamp" THEN [text |-> j.text, colour |-> POINT_COLOR]
                                      ELSE lampLabel
  /\ UNCHANGED POINT_COLOR

\* Faulty variant: whoever lights the lamp sleeps.
AfterOn(t) == IF job[t].text = "ON" THEN "lit" ELSE "rest"

\* Where a thread goes on after drawing: the corridor thread sleeps for 8.5 s
\* once the lamp is lit.
After(t) == IF t = "light" /\ job[t].text = "ON" THEN "lit" ELSE "rest"

\* Thread t draws, and leaves the critical section if it is in one.
\* IRDA_thread and touch_thread set sys_status after drawing the mode.
\* GSM_read_thread silences the siren.
Draw(t) ==
  /\ CanRun(t)
  /\ pc[t] = "draw"
  /\ LCD_ShowString(job[t])
  /\ sys_status' = IF t \in {"irda", "touch"} /\ job[t].label = "mode"
                     THEN job[t].text ELSE sys_status
  /\ BEEP' = (BEEP /\ t # "read")
  /\ redrawn' = (redrawn /\ job[t].label # "mode")
  /\ late' = IF sys_status' # sys_status THEN 0 ELSE late
  /\ Goto(t, After(t))
  /\ job' = [job EXCEPT ![t] = NoLabel]
  /\ lock' = IF lock = t THEN "none" ELSE lock
  /\ UNCHANGED lamp

\* RTC_IRQHandler, every second: clock_demo draws the time in red and leaves
\* POINT_COLOR so.  The dialogue that sets the time disables it.
RTC_IRQHandler ==
  /\ pc["touch"] # "dialogue"
  /\ POINT_COLOR' = "RED"
  /\ UNCHANGED <<house, modeLabel, lampLabel, pc, job, lock, redrawn, late>>

\* A label that shows no part of this state: a lamp on RED_LED, a curtain
\* button, a reading.
OtherLabel(t, c, locked) ==
  /\ CanRun(t)
  /\ pc[t] = "rest"
  /\ Choose(t, c, NoLabel, locked)
  /\ UNCHANGED <<house, redrawn, late>>

-----------------------------------------------------------------------------
(* The mode.                                                               *)

\* The key powr of the remote, or the MODE area of the touch screen.
ToggleMode(t) ==
  /\ CanRun(t)
  /\ pc[t] = "rest"
  /\ Choose(t, ModeColour(Opposite(sys_status)), Job("mode", Opposite(sys_status)), TRUE)
  /\ UNCHANGED <<house, redrawn, late>>

\* sys_status = m, by the short message or by the web page.
SetMode(t, m, locked) ==
  /\ CanRun(t)
  /\ pc[t] = "rest"
  /\ sys_status' = m
  /\ late' = IF m # sys_status THEN 0 ELSE late
  /\ Choose(t, ModeColour(m), Job("mode", m), locked)
  /\ UNCHANGED <<lamp, BEEP, redrawn>>

\* GSM_read_thread obeys "home" or "out"; MODE_CGI_Handler takes no lock.
SmsMode(m)          == SetMode("read", m, TRUE)
MODE_CGI_Handler(m) == SetMode("web", m, FALSE)

-----------------------------------------------------------------------------
(* The corridor lamp.                                                      *)

\* Faulty variant: without rt_enter_critical.
Light_ControlUnlocked(t) ==
  /\ CanRun(t)
  /\ pc[t] = "rest"
  /\ lamp' = ~lamp
  /\ Choose(t, LampColour(~lamp), Job("lamp", LampText(~lamp)), FALSE)
  /\ UNCHANGED <<sys_status, BEEP, redrawn, late>>

\* Light_Control(3), by the remote or the touch screen.
Light_Control(t) ==
  /\ CanRun(t)
  /\ pc[t] = "rest"
  /\ lamp' = ~lamp
  /\ Choose(t, LampColour(~lamp), Job("lamp", LampText(~lamp)), TRUE)
  /\ UNCHANGED <<sys_status, BEEP, redrawn, late>>

\* Corridor_lightON or Corridor_lightOFF of the web page.
LEDS_CGI_Handler(on) ==
  /\ CanRun("web")
  /\ pc["web"] = "rest"
  /\ lamp' = on
  /\ Choose("web", LampColour(on), Job("lamp", LampText(on)), FALSE)
  /\ UNCHANGED <<sys_status, BEEP, redrawn, late>>

\* Corridor_Light_thread in mode HOME: it sleeps while it samples the light.
LightSamples ==
  /\ sys_status = "HOME"
  /\ pc["light"] = "rest"
  /\ Goto("light", "sampling")
  /\ UNCHANGED <<house, screen, job, lock>>

\* Daylight, or nobody in the corridor.
LightPasses ==
  /\ pc["light"] = "sampling"
  /\ Goto("light", "rest")
  /\ UNCHANGED <<house, screen, job, lock>>

\* It is night and somebody passes.
LightOn ==
  /\ pc["light"] = "sampling"
  /\ lamp' = TRUE
  /\ Choose("light", "RED", Job("lamp", "ON"), TRUE)
  /\ UNCHANGED <<sys_status, BEEP>>

\* Faulty variant: the thread forgets to switch the lamp off.
LightOffLabelOnly ==
  /\ pc["light"] = "lit"
  /\ Choose("light", "BLACK", Job("lamp", "OFF"), TRUE)
  /\ UNCHANGED house

\* 8.5 s later.
LightOff ==
  /\ pc["light"] = "lit"
  /\ lamp' = FALSE
  /\ Choose("light", "BLACK", Job("lamp", "OFF"), TRUE)
  /\ UNCHANGED <<sys_status, BEEP>>

\* Faulty variant: the label is drawn without rt_enter_critical.
LightOutUnlocked ==
  /\ sys_status = "OUT"
  /\ pc["light"] = "rest"
  /\ Choose("light", "BLACK", Job("lamp", "OFF"), FALSE)
  /\ UNCHANGED house

\* Mode OUT: the label says OFF, the lamp stays as it is.
LightOut ==
  /\ sys_status = "OUT"
  /\ pc["light"] = "rest"
  /\ Choose("light", "BLACK", Job("lamp", "OFF"), TRUE)
  /\ UNCHANGED house

Corridor_Light_thread ==
  /\ CanRun("light")
  /\ LightSamples \/ LightPasses \/ LightOn \/ LightOff \/ LightOut
  /\ UNCHANGED <<redrawn, late>>

-----------------------------------------------------------------------------
(* The siren.                                                              *)

\* beep_warning: bursts in the web server's thread, which sleeps meanwhile.
\* BEEP_CGI_Handler silences the siren first.
BeepStarts ==
  /\ pc["web"] \in {"rest", "gap"}
  /\ BEEP' = TRUE
  /\ Goto("web", "burst")

BeepPauses ==
  /\ pc["web"] = "burst"
  /\ BEEP' = FALSE
  /\ Goto("web", "gap")

BeepEnds ==
  /\ pc["web"] = "gap"
  /\ Goto("web", "rest")
  /\ UNCHANGED BEEP

\* BEEPOFF.
BeepOff ==
  /\ pc["web"] = "rest"
  /\ BEEP' = FALSE
  /\ UNCHANGED pc

BEEP_CGI_Handler ==
  /\ CanRun("web")
  /\ BeepStarts \/ BeepPauses \/ BeepEnds \/ BeepOff
  /\ UNCHANGED <<sys_status, lamp, screen, job, lock, redrawn, late>>

\* security_thread reads the mode, then the motion sensors.
SecurityLooks ==
  /\ pc["security"] = "rest"
  /\ \/ sys_status = "OUT" /\ Goto("security", "intruder")
     \/ Goto("security", "gas")
  /\ UNCHANGED <<BEEP, late>>

\* The mail Invaiding, then the siren for 200 ms.  The mode may have changed.
IntruderAlarm ==
  /\ pc["security"] = "intruder"
  /\ BEEP' = TRUE
  /\ late' = IF sys_status = "HOME" THEN late + 1 ELSE late
  /\ Goto("security", "siren1")

\* Faulty variant: while the alarm lasts the mode is not looked at again.
SirenEndsRearmed ==
  \/ /\ pc["security"] = "siren1"
     /\ Goto("security", "gas") \/ Goto("security", "intruder")
     /\ BEEP' = FALSE
     /\ UNCHANGED late
  \/ /\ pc["security"] \in {"siren2", "siren3"}
     /\ Goto("security", IF pc["security"] = "siren2" THEN "fire" ELSE "rest")
     /\ BEEP' = FALSE
     /\ UNCHANGED late

\* Faulty variant: the siren is not switched off.
SirenEndsLoud ==
  /\ pc["security"] \in {"siren1", "siren2", "siren3"}
  /\ Goto("security", IF pc["security"] = "siren3" THEN "rest" ELSE "gas")
  /\ UNCHANGED <<BEEP, late>>

\* A siren ends: after the intruder comes the gas, after the gas the fire.
SirenEnds ==
  /\ \/ pc["security"] = "siren1" /\ Goto("security", "gas")
     \/ pc["security"] = "siren2" /\ Goto("security", "fire")
     \/ pc["security"] = "siren3" /\ Goto("security", "rest")
  /\ BEEP' = FALSE
  /\ UNCHANGED late

\* mq between 0.3 and 3.4, or hz above 0 and up to 1.0: a mail and the siren, 150 ms.
GasOrFireAlarm ==
  /\ \/ pc["security"] = "gas" /\ Goto("security", "siren2")
     \/ pc["security"] = "fire" /\ Goto("security", "siren3")
  /\ BEEP' = TRUE
  /\ UNCHANGED late

NoGasOrFire ==
  /\ \/ pc["security"] = "gas" /\ Goto("security", "fire")
     \/ pc["security"] = "fire" /\ Goto("security", "rest")
  /\ UNCHANGED <<BEEP, late>>

security_thread ==
  /\ CanRun("security")
  /\ SecurityLooks \/ IntruderAlarm \/ SirenEnds \/ GasOrFireAlarm \/ NoGasOrFire
  /\ UNCHANGED <<sys_status, lamp, screen, job, lock, redrawn>>

-----------------------------------------------------------------------------
(* The dialogue that sets the time, entered from touch_thread.             *)

\* The TIME area: Set_Time with the scheduler locked and the RTC interrupt off.
OpenDialogue ==
  /\ CanRun("touch")
  /\ pc["touch"] = "rest"
  /\ Goto("touch", "dialogue")
  /\ lock' = "touch"
  /\ POINT_COLOR' = "BLACK"
  /\ UNCHANGED <<house, modeLabel, lampLabel, job, redrawn, late>>

\* Touching a field other than the year toggles GREEN_LED, the corridor lamp.
TouchField ==
  /\ CanRun("touch")
  /\ pc["touch"] = "dialogue"
  /\ lamp' = ~lamp
  /\ UNCHANGED <<sys_status, BEEP, screen, pc, job, lock, redrawn, late>>

\* OK or CANCLE: Draw_window, whatever the mode is, and GREEN_LED = 1.
Draw_window ==
  /\ CanRun("touch")
  /\ pc["touch"] = "dialogue"
  /\ POINT_COLOR' = "BLACK"
  /\ modeLabel' = "HOME"
  /\ lampLabel' = [text |-> "OFF", colour |-> "BLACK"]
  /\ lamp' = FALSE
  /\ redrawn' = TRUE
  /\ lock' = "none"
  /\ Goto("touch", "rest")
  /\ UNCHANGED <<sys_status, BEEP, job, late>>

Next ==
  \/ RTC_IRQHandler
  \/ \E t \in Threads : Draw(t)
  \/ \E c \in {"RED", "GREEN"} : OtherLabel("sensor", c, FALSE)
  \/ \E c \in {"RED", "BLACK"} : \/ OtherLabel("web", c, FALSE)
                                 \/ \E t \in {"irda", "touch", "nrf"} : OtherLabel(t, c, TRUE)
  \/ \E t \in {"irda", "touch"} : ToggleMode(t) \/ Light_Control(t)
  \/ \E m \in Modes : SmsMode(m) \/ MODE_CGI_Handler(m)
  \/ \E on \in BOOLEAN : LEDS_CGI_Handler(on)
  \/ Corridor_Light_thread
  \/ BEEP_CGI_Handler
  \/ security_thread
  \/ OpenDialogue \/ TouchField \/ Draw_window

Spec == Init /\ [][Next]_vars

-----------------------------------------------------------------------------

\* What runs with the scheduler locked, or in the most urgent thread, goes on;
\* so the user leaves the dialogue.  Sleeps end, and the less urgent threads
\* run at last because every other one sleeps for 5 ms or more in each pass,
\* once the user lets go of the key or the screen.
Fairness ==
  /\ WF_vars(Draw_window \/ \E t \in Threads \ {"sensor"} : Draw(t))
  /\ SF_vars(Draw("sensor"))
  /\ SF_vars(CanRun("light") /\ LightOff /\ UNCHANGED <<redrawn, late>>)
  /\ SF_vars(security_thread)
  /\ SF_vars(BEEP_CGI_Handler /\ BeepPauses)

FairSpec == Spec /\ Fairness

-----------------------------------------------------------------------------
(* Properties.                                                             *)

LightPlaces    == {"rest", "sampling", "draw", "lit"}
SecurityPlaces == {"rest", "intruder", "siren1", "gas", "siren2", "fire", "siren3"}

\* Type invariant.
TypeOK ==
  /\ sys_status \in Modes
  /\ lamp \in BOOLEAN
  /\ BEEP \in BOOLEAN
  /\ POINT_COLOR \in Colours
  /\ modeLabel \in Modes
  /\ lampLabel \in [text : {"ON", "OFF"}, colour : Colours]
  /\ pc \in [Threads -> Asleep \cup LightPlaces \cup SecurityPlaces \cup {"dialogue"}]
  /\ pc["light"] \in LightPlaces
  /\ pc["security"] \in SecurityPlaces
  /\ pc["web"] \in {"rest", "draw", "burst", "gap"}
  /\ pc["touch"] \in {"rest", "draw", "dialogue"}
  /\ \A t \in {"sensor", "irda", "nrf", "read"} : pc[t] \in {"rest", "draw"}
  /\ job \in [Threads -> Jobs]
  /\ lock \in Threads \cup {"none"}
  /\ redrawn \in BOOLEAN
  /\ late \in Nat

\* Nobody is in the middle of an update of the label.
Settled(l) == /\ \A t \in Threads : pc[t] = "draw" => job[t].label # l
              /\ pc["touch"] # "dialogue"

\* Every way of changing the mode (main.c 322, 419, 527, httpd_cgi_ssi.c 451)
\* leaves the LCD showing the mode in force: two updates never mix, although
\* the web server takes no lock.  Draw_window, after the time was set, is the
\* only thing that spoils it, until the next change of mode.
ModeShown == Settled("mode") /\ ~redrawn => modeLabel = sys_status

\* The corridor line never says ON for a lamp that is off (bsp_led.c 119,
\* main.c 604, httpd_cgi_ssi.c 303), whoever switched last and however the
\* switching falls into the 8.5 s of Corridor_Light_thread.
OnMeansLit == Settled("lamp") /\ lampLabel.text = "ON" => lamp

\* What the LCD says once the label in hand is drawn.  The remote and the touch
\* screen are not among these: they set sys_status only after drawing.
ModeSaid ==
  IF \E t \in {"read", "web"} : job[t].label = "mode" THEN sys_status ELSE modeLabel

LineSaid ==
  IF \E t \in Threads : job[t] = Job("lamp", "ON") THEN "ON"
  ELSE IF \E t \in Threads : job[t] = Job("lamp", "OFF") THEN "OFF"
  ELSE lampLabel.text

House == INSTANCE Panel WITH mode <- sys_status, says <- ModeSaid, line <- LineSaid,
                             setting <- pc["touch"] = "dialogue"

\* The house is the simple one of Panel: a change of the mode or of the lamp
\* and its label on the LCD are one, although each takes several steps in the
\* code (main.c 322, 419, 527, 604, bsp_led.c 119, httpd_cgi_ssi.c 303, 451) and
\* the threads of all of them share the colour and the labels.
RefinesPanel == House!Spec

\* The corridor line is drawn in its own colour or in the clock's (main.c 600:
\* the lock is there so that the colour is not disturbed): no thread's colour
\* gets into it, and ON is never drawn in black.
LabelColour == lampLabel.colour \in {"RED", LampColour(lampLabel.text = "ON")}

\* The mode that security_thread read may be stale when the siren starts
\* (main.c 454 and 460), but after HOME is set it raises one intruder alarm
\* at most.
OneLateAlarm == late <= 1

\* The siren does not sound for ever, whoever started it (main.c 463, 478,
\* 489, beep.c 29).
SirenStops == BEEP ~> ~BEEP

\* A lamp that Corridor_Light_thread lit goes out (main.c 611), even if it is
\* switched by others or the mode changes meanwhile.
LampGoesOut == pc["light"] = "lit" ~> ~lamp
=============================================================================
