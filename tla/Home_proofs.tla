---------------------------- MODULE Home_proofs -----------------------------
(***************************************************************************)
(* The invariants of the control panel.  ModeShown, OnMeansLit and         *)
(* LabelColour say nothing while somebody draws; IInv says what a thread   *)
(* that draws has in hand, and why nobody disturbs it: the scheduler is    *)
(* locked, or the thread is the web server, which no other thread          *)
(* interrupts (Exclusive).  The sensor thread alone can be interrupted     *)
(* between its colour and its label, and its label shows none of this      *)
(* state (InHand).                                                         *)
(***************************************************************************)
EXTENDS Home, TLAPS

Engaged(t) == pc[t] \in {"draw", "dialogue"}

Unlocking == {"web", "sensor"}

\* Whoever draws has locked the scheduler, but for the two threads that never
\* do, which run only while it is not locked.
Exclusive ==
  /\ \A t \in Threads : Engaged(t) => lock = IF t \in Unlocking THEN "none" ELSE t
  /\ \A t \in Threads : lock = t => Engaged(t)

\* What a thread is about to draw: the mode in force, or the one that it will
\* set; ON only for a lamp that is lit, and in a colour of its own.
InHand ==
  /\ \A t \in Threads : pc[t] # "draw" => job[t] = NoLabel
  /\ job["sensor"] = NoLabel
  /\ \A t \in Threads \ {"irda", "touch"} :
       job[t].label = "mode" => job[t].text = sys_status
  /\ \A t \in Threads :
       job[t].label = "lamp" =>
         /\ job[t].text = "ON" => lamp
         /\ POINT_COLOR \in {"RED", LampColour(job[t].text = "ON")}

\* The alarm for which security_thread has read the mode OUT is the first
\* since the mode became HOME.
FirstAlarm == pc["security"] = "intruder" /\ sys_status = "HOME" => late = 0

Shown == ModeShown /\ OnMeansLit /\ LabelColour
Alarm == FirstAlarm /\ OneLateAlarm
IInv  == TypeOK /\ Exclusive /\ InHand /\ Shown /\ Alarm
-----------------------------------------------------------------------------
\* While t runs, at most the sensor thread is in the middle of a label.
LEMMA RunsAlone ==
  ASSUME Exclusive, NEW t \in Threads, CanRun(t), NEW u \in Threads \ {t}, Engaged(u)
  PROVE  u = "sensor" /\ t = "web"
<1>1. CASE lock = t
  BY <1>1 DEF Exclusive, Threads, Unlocking
<1>2. CASE lock = "none"
  <2>1. u \in Unlocking
    BY <1>2 DEF Exclusive, Threads, Unlocking
  <2>2. Midway(u)
    BY DEF Midway, Engaged, Asleep
  <2>3. Priority[t] < Priority[u]
    BY <1>2, <2>2 DEF CanRun
  <2> QED BY <2>1, <2>3 DEF Unlocking, Priority, Threads
<1> QED BY <1>1, <1>2 DEF CanRun

\* So no other thread has a label of this state in hand, or a dialogue open.
LEMMA OthersIdle ==
  ASSUME TypeOK, Exclusive, InHand, NEW t \in Threads, CanRun(t)
  PROVE  /\ \A u \in Threads \ {t} : job[u] = NoLabel
         /\ t # "touch" => pc["touch"] # "dialogue"
<1>1. ASSUME NEW u \in Threads \ {t} PROVE job[u] = NoLabel
  <2>1. CASE pc[u] = "draw"
    BY <2>1, RunsAlone DEF Engaged, InHand
  <2> QED BY <2>1 DEF InHand
<1>2. ASSUME t # "touch" PROVE pc["touch"] # "dialogue"
  BY <1>2, RunsAlone DEF Engaged, Threads
<1> QED BY <1>1, <1>2

\* A label that shows none of this state.
LEMMA NoLabelIs == NoLabel.label = "other" /\ NoLabel.text = "none" /\ NoLabel \in Jobs
BY DEF NoLabel, Job, Jobs

\* Only the sensor thread may have its colour overwritten, so a label is
\* settled when the thread that runs does not draw it.
LEMMA SettledBy ==
  ASSUME TypeOK, NEW t \in Threads, NEW l \in {"mode", "lamp"},
         \A u \in Threads \ {t} : job[u] = NoLabel,
         t # "touch" => pc["touch"] # "dialogue"
  PROVE  Settled(l) <=> /\ pc[t] = "draw" => job[t].label # l
                        /\ pc["touch"] # "dialogue"
BY NoLabelIs DEF Settled

-----------------------------------------------------------------------------
\* A thread moves and neither draws nor locks; what the labels show, and the
\* lock, stay as they are.
LEMMA MoveKeeps ==
  ASSUME TypeOK, Exclusive, InHand, Shown, NEW t \in Threads, ~Engaged(t), NEW l,
         l \notin {"draw", "dialogue"}, pc' = [pc EXCEPT ![t] = l],
         UNCHANGED <<sys_status, lamp, screen, job, lock, redrawn>>
  PROVE  Exclusive' /\ InHand' /\ Shown'
<1>1. pc \in [Threads -> Asleep \cup LightPlaces \cup SecurityPlaces \cup {"dialogue"}]
  BY DEF TypeOK
<1>2. \A u \in Threads : (pc'[u] = "draw" <=> pc[u] = "draw")
                      /\ (pc'[u] = "dialogue" <=> pc[u] = "dialogue")
  BY <1>1 DEF Engaged
<1>3. Exclusive'
  BY <1>2 DEF Exclusive, Engaged
<1>4. InHand'
  BY <1>2 DEF InHand, screen
<1>5. \A x \in {"mode", "lamp"} : Settled(x)' <=> Settled(x)
  BY <1>2 DEF Settled, Threads
<1> QED BY <1>3, <1>4, <1>5 DEF Shown, ModeShown, OnMeansLit, LabelColour, screen

\* A thread chooses a colour for a label, with what it has changed already.
LEMMA ChooseKeeps ==
  ASSUME TypeOK, Exclusive, InHand, Shown,
         NEW t \in Threads, CanRun(t), ~Engaged(t), NEW c, NEW j \in Jobs, NEW locked \in BOOLEAN,
         Choose(t, c, j, locked), locked <=> t \notin Unlocking,
         t = "sensor" => j = NoLabel,
         t \notin {"irda", "touch"} /\ j.label = "mode" => j.text = sys_status',
         j.label = "lamp" => (j.text = "ON" => lamp') /\ c \in {"RED", LampColour(j.text = "ON")},
         j.label # "mode" => UNCHANGED sys_status,
         j.label # "lamp" => UNCHANGED lamp,
         UNCHANGED redrawn
  PROVE  Exclusive' /\ InHand' /\ Shown'
<1>1. pc \in [Threads -> Asleep \cup LightPlaces \cup SecurityPlaces \cup {"dialogue"}]
      /\ job \in [Threads -> Jobs]
  BY DEF TypeOK
<1>2. /\ POINT_COLOR' = c /\ job' = [job EXCEPT ![t] = j] /\ pc' = [pc EXCEPT ![t] = "draw"]
      /\ lock' = IF locked THEN t ELSE lock
      /\ UNCHANGED <<modeLabel, lampLabel>>
  BY DEF Choose, Goto
<1>3. /\ \A u \in Threads \ {t} : job[u] = NoLabel
      /\ pc["touch"] # "dialogue"
  BY OthersIdle DEF Engaged
<1>4. lock = "none"
  BY DEF CanRun, Exclusive
<1>5. \A u \in Threads \ {t} : Engaged(u) => u = "sensor" /\ t = "web"
  BY RunsAlone
<1>6. Exclusive'
  <2>1. ASSUME NEW u \in Threads, Engaged(u)'
        PROVE  lock' = IF u \in Unlocking THEN "none" ELSE u
    <3>1. CASE u = t
      BY <1>2, <1>4, <3>1
    <3>2. CASE u # t
      BY <1>1, <1>2, <1>4, <1>5, <2>1, <3>2 DEF Engaged, Unlocking
    <3> QED BY <3>1, <3>2
  <2>2. ASSUME NEW u \in Threads, lock' = u PROVE Engaged(u)'
    BY <1>1, <1>2, <1>4, <2>2 DEF Engaged, Threads
  <2> QED BY <2>1, <2>2 DEF Exclusive
<1>7. \A u \in Threads \ {t} : job'[u] = NoLabel
  BY <1>1, <1>2, <1>3
<1>8. job'[t] = j /\ pc'[t] = "draw" /\ pc'["touch"] # "dialogue"
  BY <1>1, <1>2, <1>3 DEF Threads
<1>9. InHand'
  <2>1. \A u \in Threads : pc'[u] # "draw" => job'[u] = NoLabel
    BY <1>7, <1>8
  <2>2. job'["sensor"] = NoLabel
    BY <1>7, <1>8 DEF Threads
  <2>3. \A u \in Threads \ {"irda", "touch"} : job'[u].label = "mode" => job'[u].text = sys_status'
    BY <1>7, <1>8, NoLabelIs
  <2>4. \A u \in Threads :
          job'[u].label = "lamp" =>
            /\ job'[u].text = "ON" => lamp'
            /\ POINT_COLOR' \in {"RED", LampColour(job'[u].text = "ON")}
    BY <1>2, <1>7, <1>8, NoLabelIs
  <2> QED BY <2>1, <2>2, <2>3, <2>4 DEF InHand
<1>10. ModeShown'
  <2>1. CASE j.label = "mode"
    BY <1>8, <2>1 DEF ModeShown, Settled
  <2>2. CASE j.label # "mode" /\ Settled("mode")
    BY <1>2, <2>2 DEF Shown, ModeShown
  <2>3. Settled("mode")
    BY <1>3, NoLabelIs DEF Settled, Engaged
  <2> QED BY <2>1, <2>2, <2>3
<1>11. OnMeansLit'
  <2>1. CASE j.label = "lamp"
    BY <1>8, <2>1 DEF OnMeansLit, Settled
  <2>2. CASE j.label # "lamp" /\ Settled("lamp")
    BY <1>2, <2>2 DEF Shown, OnMeansLit
  <2>3. Settled("lamp")
    BY <1>3, NoLabelIs DEF Settled, Engaged
  <2> QED BY <2>1, <2>2, <2>3
<1>12. LabelColour'
  BY <1>2 DEF Shown, LabelColour
<1> QED BY <1>6, <1>9, <1>10, <1>11, <1>12 DEF Shown

\* A thread draws its label, and is not in the middle of anything any more.
LEMMA DrawKeeps ==
  ASSUME TypeOK, Exclusive, InHand, Shown, NEW t \in Threads, Draw(t)
  PROVE  Exclusive' /\ InHand' /\ Shown'
<1>1. pc \in [Threads -> Asleep \cup LightPlaces \cup SecurityPlaces \cup {"dialogue"}]
      /\ job \in [Threads -> Jobs]
  BY DEF TypeOK
<1>2. CanRun(t) /\ pc[t] = "draw" /\ UNCHANGED <<lamp, POINT_COLOR>>
  BY DEF Draw, LCD_ShowString
<1>3. PICK l \in {"lit", "rest"} : pc' = [pc EXCEPT ![t] = l]
  BY DEF Draw, After, Goto
<1>4. job' = [job EXCEPT ![t] = NoLabel] /\ lock' = IF lock = t THEN "none" ELSE lock
  BY DEF Draw
<1>5. /\ \A u \in Threads \ {t} : job[u] = NoLabel
      /\ pc["touch"] # "dialogue"
  BY <1>2, OthersIdle
<1>6. \A u \in Threads : job'[u] = NoLabel
  BY <1>1, <1>4, <1>5
<1>7. \A u \in Threads \ {t} : Engaged(u) => u = "sensor" /\ t = "web"
  BY <1>2, RunsAlone
<1>8. Exclusive'
  <2>1. lock' = "none"
    BY <1>2, <1>4 DEF Exclusive, Engaged
  <2>2. \A u \in Threads : Engaged(u)' => u \in Unlocking
    BY <1>1, <1>3, <1>7 DEF Engaged, Unlocking
  <2> QED BY <2>1, <2>2 DEF Exclusive, Threads
<1>9. InHand'
  BY <1>6, NoLabelIs DEF InHand, Threads
<1>10. ModeShown'
  <2>1. CASE job[t].label = "mode"
    <3>1. modeLabel' = job[t].text
      BY <2>1 DEF Draw, LCD_ShowString
    <3>2. sys_status' = job[t].text
      BY <2>1 DEF Draw, InHand
    <3> QED BY <3>1, <3>2 DEF ModeShown
  <2>2. CASE job[t].label # "mode"
    <3>1. Settled("mode")
      BY <1>5, <2>2, NoLabelIs DEF Settled
    <3>2. UNCHANGED <<modeLabel, sys_status>> /\ (redrawn => redrawn')
      BY <2>2 DEF Draw, LCD_ShowString
    <3> QED BY <3>1, <3>2 DEF Shown, ModeShown
  <2> QED BY <2>1, <2>2
<1>11. OnMeansLit' /\ LabelColour'
  <2>1. CASE job[t].label = "lamp"
    <3>1. lampLabel' = [text |-> job[t].text, colour |-> POINT_COLOR]
      BY <2>1 DEF Draw, LCD_ShowString
    <3>2. job[t].text = "ON" => lamp'
      BY <1>2, <2>1 DEF InHand
    <3>3. POINT_COLOR \in {"RED", LampColour(job[t].text = "ON")}
      BY <2>1 DEF InHand
    <3> QED BY <3>1, <3>2, <3>3 DEF OnMeansLit, LabelColour
  <2>2. CASE job[t].label # "lamp"
    <3>1. Settled("lamp")
      BY <1>5, <2>2, NoLabelIs DEF Settled
    <3>2. UNCHANGED lampLabel
      BY <2>2 DEF Draw, LCD_ShowString
    <3> QED BY <1>2, <3>1, <3>2 DEF Shown, OnMeansLit, LabelColour
  <2> QED BY <2>1, <2>2
<1> QED BY <1>8, <1>9, <1>10, <1>11 DEF Shown

\* The interrupt of the clock, and the dialogue that sets the time.
LEMMA ClockKeeps ==
  ASSUME TypeOK, Exclusive, InHand, Shown,
         RTC_IRQHandler \/ OpenDialogue \/ TouchField \/ Draw_window
  PROVE  Exclusive' /\ InHand' /\ Shown'
<1>0. pc \in [Threads -> Asleep \cup LightPlaces \cup SecurityPlaces \cup {"dialogue"}]
      /\ "touch" \in Threads
  BY DEF TypeOK, Threads
<1>1. CASE RTC_IRQHandler
  <2>1. UNCHANGED <<sys_status, lamp, modeLabel, lampLabel, pc, job, lock, redrawn>>
        /\ POINT_COLOR' = "RED"
    BY <1>1 DEF RTC_IRQHandler, house
  <2>2. Exclusive' /\ InHand'
    BY <2>1 DEF Exclusive, InHand, Engaged
  <2> QED BY <2>1, <2>2 DEF Shown, ModeShown, OnMeansLit, LabelColour, Settled
<1>2. CASE OpenDialogue
  <2>1. /\ CanRun("touch") /\ pc["touch"] = "rest" /\ pc' = [pc EXCEPT !["touch"] = "dialogue"]
        /\ lock' = "touch" /\ UNCHANGED <<sys_status, lamp, modeLabel, lampLabel, job, redrawn>>
    BY <1>2 DEF OpenDialogue, Goto, house
  <2>2. \A u \in Threads \ {"touch"} : ~Engaged(u) /\ job[u] = NoLabel
    BY <2>1, <1>0, RunsAlone, OthersIdle
  <2>3. \A u \in Threads : job[u] = NoLabel
    BY <2>1, <2>2 DEF InHand
  <2>4. Exclusive'
    BY <1>0, <2>1, <2>2 DEF Exclusive, Engaged, Unlocking
  <2>5. InHand'
    BY <2>1, <2>3, NoLabelIs DEF InHand, Threads
  <2>6. pc'["touch"] = "dialogue"
    BY <1>0, <2>1
  <2> QED BY <2>1, <2>4, <2>5, <2>6 DEF Shown, ModeShown, OnMeansLit, LabelColour, Settled
<1>3. CASE TouchField \/ Draw_window
  <2>1. CanRun("touch") /\ pc["touch"] = "dialogue" /\ UNCHANGED <<sys_status, job>>
    BY <1>3 DEF TouchField, Draw_window
  <2>2. \A u \in Threads \ {"touch"} : ~Engaged(u) /\ job[u] = NoLabel
    BY <2>1, <1>0, RunsAlone, OthersIdle
  <2>3. \A u \in Threads : job[u] = NoLabel
    BY <2>1, <2>2 DEF InHand
  <2>4. InHand'
    BY <2>1, <2>3, NoLabelIs DEF InHand, Threads
  <2>5. CASE TouchField
    <3>1. UNCHANGED <<modeLabel, lampLabel, pc, lock, redrawn>>
      BY <2>5 DEF TouchField, screen
    <3>2. Exclusive'
      BY <3>1 DEF Exclusive, Engaged
    <3> QED BY <2>1, <2>4, <3>1, <3>2 DEF Shown, ModeShown, OnMeansLit, LabelColour, Settled
  <2>6. CASE Draw_window
    <3>1. /\ pc' = [pc EXCEPT !["touch"] = "rest"] /\ lock' = "none" /\ redrawn'
          /\ lampLabel' = [text |-> "OFF", colour |-> "BLACK"]
      BY <2>6 DEF Draw_window, Goto
    <3>2. Exclusive'
      BY <1>0, <2>2, <3>1 DEF Exclusive, Engaged, Threads
    <3>3. Shown'
      BY <3>1 DEF Shown, ModeShown, OnMeansLit, LabelColour, LampColour
    <3> QED BY <2>4, <3>2, <3>3
  <2> QED BY <1>3, <2>5, <2>6
<1> QED BY <1>1, <1>2, <1>3

-----------------------------------------------------------------------------
Places == Asleep \cup LightPlaces \cup SecurityPlaces \cup {"dialogue"}

\* Where each thread may be.
PlacesOf(t) ==
  CASE t = "light"    -> LightPlaces
    [] t = "security" -> SecurityPlaces
    [] t = "web"      -> {"rest", "draw", "burst", "gap"}
    [] t = "touch"    -> {"rest", "draw", "dialogue"}
    [] OTHER          -> {"rest", "draw"}

PcOK ==
  /\ pc \in [Threads -> Places]
  /\ pc["light"] \in LightPlaces
  /\ pc["security"] \in SecurityPlaces
  /\ pc["web"] \in {"rest", "draw", "burst", "gap"}
  /\ pc["touch"] \in {"rest", "draw", "dialogue"}
  /\ \A t \in {"sensor", "irda", "nrf", "read"} : pc[t] \in {"rest", "draw"}

LEMMA GotoType ==
  ASSUME PcOK, NEW t \in Threads, NEW l \in PlacesOf(t), pc' = [pc EXCEPT ![t] = l]
  PROVE  PcOK'
<1>1. l \in Places
  BY DEF PlacesOf, Places, Asleep, LightPlaces, SecurityPlaces, Threads
<1>2. pc' \in [Threads -> Places]
  BY <1>1 DEF PcOK
<1> QED BY <1>2 DEF PcOK, PlacesOf, Threads

\* A thread that draws is not security_thread.
LEMMA ChooseType ==
  ASSUME TypeOK, NEW t \in Threads \ {"security"}, NEW c \in Colours, NEW j \in Jobs,
         NEW locked \in BOOLEAN, Choose(t, c, j, locked)
  PROVE  /\ PcOK' /\ POINT_COLOR' \in Colours /\ job' \in [Threads -> Jobs]
         /\ lock' \in Threads \cup {"none"} /\ UNCHANGED <<modeLabel, lampLabel>>
<1>1. PcOK
  BY DEF TypeOK, PcOK, Places
<1>2. "draw" \in PlacesOf(t)
  BY DEF PlacesOf, LightPlaces, Threads
<1>3. PcOK'
  BY <1>1, <1>2, GotoType DEF Choose, Goto
<1> QED BY <1>3 DEF Choose, TypeOK

Rest ==
  /\ sys_status \in Modes /\ lamp \in BOOLEAN /\ BEEP \in BOOLEAN
  /\ POINT_COLOR \in Colours /\ modeLabel \in Modes
  /\ lampLabel \in [text : {"ON", "OFF"}, colour : Colours]
  /\ job \in [Threads -> Jobs]
  /\ lock \in Threads \cup {"none"}
  /\ redrawn \in BOOLEAN
  /\ late \in Nat

LEMMA TypeParts ==
  /\ TypeOK <=> PcOK /\ Rest
  /\ TypeOK' <=> PcOK' /\ Rest'
BY DEF TypeOK, PcOK, Rest, Places

\* The labels that the actions choose, and their colours.
LEMMA LabelTypes ==
  /\ \A m \in Modes : Job("mode", m) \in Jobs /\ ModeColour(m) \in Colours /\ Opposite(m) \in Modes
  /\ \A on \in BOOLEAN : Job("lamp", LampText(on)) \in Jobs /\ LampColour(on) \in Colours
  /\ Job("lamp", "ON") \in Jobs /\ Job("lamp", "OFF") \in Jobs
  /\ {"RED", "GREEN", "BLACK"} \subseteq Colours
BY DEF Modes, Colours, Jobs, ModeColour, Opposite, LampText, LampColour

\* The steps in which a thread chooses a label.
Chooses(t, c, j, locked) ==
  /\ CanRun(t) /\ ~Engaged(t) /\ Choose(t, c, j, locked)
  /\ \/ /\ j = NoLabel \/ (j.label = "mode" /\ t \in {"irda", "touch"})
        /\ UNCHANGED <<sys_status, lamp, late>>
     \/ /\ j.label = "mode" /\ t \in {"web", "read"}
        /\ sys_status' = j.text
        /\ late' = IF j.text # sys_status THEN 0 ELSE late
        /\ UNCHANGED lamp
     \/ /\ j.label = "lamp" /\ t \in {"irda", "touch", "web", "light"}
        /\ j.text = "ON" => lamp'
        /\ lamp' \in BOOLEAN
        /\ \/ lamp' = (j.text = "ON")
           \/ j.text = "OFF" /\ sys_status = "OUT" /\ UNCHANGED lamp
        /\ c = LampColour(j.text = "ON")
        /\ UNCHANGED <<sys_status, late>>
  /\ UNCHANGED <<BEEP, redrawn>>

ChoiceStep ==
  \E t \in Threads \ {"security"}, c \in Colours, j \in Jobs, locked \in BOOLEAN :
    Chooses(t, c, j, locked) /\ (locked <=> t \notin Unlocking)

LEMMA LampLabels ==
  ASSUME NEW on \in BOOLEAN
  PROVE  LET j == Job("lamp", LampText(on)) IN
         /\ j.label = "lamp" /\ (j.text = "ON" <=> on) /\ (j.text = "ON") = on
         /\ ~on => j.text = "OFF"
         /\ LampColour(on) = LampColour(j.text = "ON")
BY DEF Job, LampText, LampColour

\* Every action that chooses a label is one of them.
LEMMA ChoiceSteps ==
  ASSUME TypeOK,
         \/ \E c \in {"RED", "GREEN"} : OtherLabel("sensor", c, FALSE)
         \/ \E c \in {"RED", "BLACK"} : \/ OtherLabel("web", c, FALSE)
                                        \/ \E t \in {"irda", "touch", "nrf"} :
                                             OtherLabel(t, c, TRUE)
         \/ \E t \in {"irda", "touch"} : ToggleMode(t) \/ Light_Control(t)
         \/ \E m \in Modes : SmsMode(m) \/ MODE_CGI_Handler(m)
         \/ \E on \in BOOLEAN : LEDS_CGI_Handler(on)
         \/ CanRun("light") /\ (LightOn \/ LightOff \/ LightOut) /\ UNCHANGED <<redrawn, late>>
  PROVE  ChoiceStep
<1> USE DEF Engaged, house
<1>1. ASSUME NEW t \in {"sensor", "web", "irda", "touch", "nrf"}, NEW c \in Colours,
             OtherLabel(t, c, t \notin Unlocking)
      PROVE  ChoiceStep
  <2>1. Chooses(t, c, NoLabel, t \notin Unlocking)
    BY <1>1 DEF OtherLabel, Chooses
  <2>2. t \in Threads \ {"security"} /\ (t \notin Unlocking) \in BOOLEAN
    BY DEF Threads
  <2> QED BY <2>1, <2>2, NoLabelIs DEF ChoiceStep
<1>2. ASSUME NEW t \in {"irda", "touch"}, ToggleMode(t) PROVE ChoiceStep
  <2> DEFINE m == Opposite(sys_status)
  <2>1. m \in Modes
    BY LabelTypes DEF TypeOK
  <2> HIDE DEF m
  <2>2. Job("mode", m).label = "mode"
    BY DEF Job
  <2>3. Chooses(t, ModeColour(m), Job("mode", m), TRUE)
    BY <1>2, <2>2 DEF ToggleMode, Chooses, m
  <2> QED BY <2>1, <2>3, LabelTypes DEF ChoiceStep, Threads, Unlocking
<1>3. ASSUME NEW t \in {"read", "web"}, NEW m \in Modes, SetMode(t, m, t = "read") PROVE ChoiceStep
  <2>1. Job("mode", m).label = "mode" /\ Job("mode", m).text = m
    BY DEF Job
  <2>2. Chooses(t, ModeColour(m), Job("mode", m), t = "read")
    BY <1>3, <2>1 DEF SetMode, Chooses
  <2> QED BY <2>2, LabelTypes DEF ChoiceStep, Threads, Unlocking
<1>4. ASSUME NEW t \in {"irda", "touch", "web"}, NEW on \in BOOLEAN, CanRun(t), pc[t] = "rest",
             lamp' = on, Choose(t, LampColour(on), Job("lamp", LampText(on)), t # "web"),
             UNCHANGED <<sys_status, BEEP, redrawn, late>>
      PROVE  ChoiceStep
  <2>1. Chooses(t, LampColour(on), Job("lamp", LampText(on)), t # "web")
    BY <1>4, LampLabels DEF Chooses
  <2> QED BY <2>1, LabelTypes DEF ChoiceStep, Threads, Unlocking
<1>5. ASSUME CanRun("light"), LightOn \/ LightOff \/ LightOut, UNCHANGED <<redrawn, late>>
      PROVE  ChoiceStep
  <2>1. PICK on \in BOOLEAN : /\ Choose("light", LampColour(on), Job("lamp", LampText(on)), TRUE)
                              /\ on => lamp'
                              /\ \/ lamp' = on
                                 \/ ~on /\ sys_status = "OUT" /\ UNCHANGED lamp
    BY <1>5 DEF LightOn, LightOff, LightOut, LampColour, LampText, house
  <2>2. lamp' \in BOOLEAN /\ UNCHANGED <<sys_status, BEEP>> /\ ~Engaged("light")
    BY <1>5 DEF LightOn, LightOff, LightOut, TypeOK
  <2>3. Chooses("light", LampColour(on), Job("lamp", LampText(on)), TRUE)
    BY <1>5, <2>1, <2>2, LampLabels DEF Chooses
  <2> QED BY <2>3, LabelTypes DEF ChoiceStep, Threads, Unlocking
<1>6. ASSUME NEW t \in {"irda", "touch"}, Light_Control(t) PROVE ChoiceStep
  BY <1>4, <1>6 DEF Light_Control, TypeOK
<1>7. ASSUME NEW on \in BOOLEAN, LEDS_CGI_Handler(on) PROVE ChoiceStep
  BY <1>4, <1>7 DEF LEDS_CGI_Handler
<1>8. ASSUME NEW m \in Modes, SmsMode(m) \/ MODE_CGI_Handler(m) PROVE ChoiceStep
  BY <1>3, <1>8 DEF SmsMode, MODE_CGI_Handler
<1>9. ASSUME NEW c \in {"RED", "GREEN", "BLACK"},
             \/ OtherLabel("sensor", c, FALSE) \/ OtherLabel("web", c, FALSE)
             \/ \E t \in {"irda", "touch", "nrf"} : OtherLabel(t, c, TRUE)
      PROVE  ChoiceStep
  BY <1>1, <1>9 DEF Unlocking, Colours
<1> QED BY <1>2, <1>5, <1>6, <1>7, <1>8, <1>9

\* The steps in which a thread moves on without drawing or locking.
Moves(t, l) ==
  /\ ~Engaged(t) /\ l \notin {"draw", "dialogue"}
  /\ pc' = [pc EXCEPT ![t] = l]
  /\ UNCHANGED <<sys_status, lamp, screen, job, lock, redrawn>>

LEMMA MoveSteps ==
  ASSUME TypeOK,
         \/ (LightSamples \/ LightPasses) /\ UNCHANGED <<redrawn, late>>
         \/ BEEP_CGI_Handler \/ security_thread
  PROVE  /\ \E t \in Threads : \E l \in PlacesOf(t) : Moves(t, l)
         /\ BEEP' \in BOOLEAN /\ late' \in Nat
<1>1. CASE (LightSamples \/ LightPasses) /\ UNCHANGED <<redrawn, late>>
  <2>1. PICK l \in {"rest", "sampling"} : Moves("light", l)
    BY <1>1 DEF LightSamples, LightPasses, Moves, Engaged, Goto, house
  <2>2. UNCHANGED <<BEEP, late>>
    BY <1>1 DEF LightSamples, LightPasses, house
  <2> QED BY <2>1, <2>2 DEF PlacesOf, LightPlaces, Threads, TypeOK
<1>2. CASE BEEP_CGI_Handler
  <2>1. PICK l \in {"rest", "burst", "gap"} : Moves("web", l)
    <3>1. UNCHANGED <<sys_status, lamp, screen, job, lock, redrawn>>
      BY <1>2 DEF BEEP_CGI_Handler
    <3>2. CASE BeepOff
      <4>1. pc' = [pc EXCEPT !["web"] = "rest"] /\ pc["web"] = "rest"
        BY <3>2 DEF BeepOff, TypeOK
      <4> QED BY <3>1, <4>1 DEF Moves, Engaged
    <3>3. CASE BeepStarts \/ BeepPauses \/ BeepEnds
      BY <3>1, <3>3 DEF BeepStarts, BeepPauses, BeepEnds, Goto, Moves, Engaged
    <3> QED BY <1>2, <3>2, <3>3 DEF BEEP_CGI_Handler
  <2>2. BEEP' \in BOOLEAN /\ UNCHANGED late
    BY <1>2 DEF BEEP_CGI_Handler, BeepStarts, BeepPauses, BeepEnds, BeepOff, TypeOK
  <2> QED BY <2>1, <2>2 DEF PlacesOf, Threads, TypeOK
<1>3. CASE security_thread
  <2>1. PICK l \in SecurityPlaces : Moves("security", l)
    BY <1>3 DEF security_thread, SecurityLooks, IntruderAlarm, SirenEnds, GasOrFireAlarm,
       NoGasOrFire, Goto, Moves, Engaged, SecurityPlaces
  <2>2. BEEP' \in BOOLEAN
    BY <1>3 DEF security_thread, SecurityLooks, IntruderAlarm, SirenEnds, GasOrFireAlarm,
       NoGasOrFire, TypeOK
  <2>3. late' \in Nat
    BY <1>3 DEF security_thread, SecurityLooks, IntruderAlarm, SirenEnds, GasOrFireAlarm,
       NoGasOrFire, TypeOK
  <2> QED BY <2>1, <2>2, <2>3 DEF PlacesOf, Threads
<1> QED BY <1>1, <1>2, <1>3

\* Every step is of one of these kinds.
LEMMA StepKinds ==
  ASSUME TypeOK, Next
  PROVE  \/ ChoiceStep
         \/ (LightSamples \/ LightPasses) /\ UNCHANGED <<redrawn, late>>
         \/ BEEP_CGI_Handler \/ security_thread
         \/ \E t \in Threads : Draw(t)
         \/ RTC_IRQHandler \/ OpenDialogue \/ TouchField \/ Draw_window
BY ChoiceSteps DEF Next, Corridor_Light_thread

LEMMA StepKeepsType ==
  ASSUME IInv, Next
  PROVE  TypeOK'
<1>0. TypeOK /\ PcOK /\ Rest
  BY TypeParts DEF IInv
<1>1. CASE ChoiceStep
  <2>1. PICK t \in Threads \ {"security"}, c \in Colours, j \in Jobs, locked \in BOOLEAN :
           Chooses(t, c, j, locked)
    BY <1>1 DEF ChoiceStep
  <2>2. /\ PcOK' /\ POINT_COLOR' \in Colours /\ job' \in [Threads -> Jobs]
        /\ lock' \in Threads \cup {"none"} /\ UNCHANGED <<modeLabel, lampLabel>>
    BY <1>0, <2>1, ChooseType DEF Chooses
  <2>3. UNCHANGED <<BEEP, redrawn>> /\ lamp' \in BOOLEAN
    BY <1>0, <2>1 DEF Chooses, Rest
  <2>4. late' \in Nat
    BY <1>0, <2>1 DEF Chooses, Rest
  <2>5. sys_status' \in Modes
    BY <1>0, <2>1 DEF Chooses, Rest, Jobs, Job, NoLabel, Modes
  <2> QED BY <1>0, <2>2, <2>3, <2>4, <2>5, TypeParts DEF Rest
<1>2. CASE \/ (LightSamples \/ LightPasses) /\ UNCHANGED <<redrawn, late>>
           \/ BEEP_CGI_Handler \/ security_thread
  <2>1. PICK t \in Threads : \E l \in PlacesOf(t) : Moves(t, l)
    BY <1>0, <1>2, MoveSteps
  <2>2. PcOK' /\ UNCHANGED <<sys_status, lamp, POINT_COLOR, modeLabel, lampLabel, job,
                             lock, redrawn>>
    BY <1>0, <2>1, GotoType DEF Moves, screen
  <2>3. BEEP' \in BOOLEAN /\ late' \in Nat
    BY <1>0, <1>2, MoveSteps
  <2> QED BY <1>0, <2>2, <2>3, TypeParts DEF Rest
<1>3. ASSUME NEW t \in Threads, Draw(t) PROVE TypeOK'
  <2>0. job[t] \in Jobs /\ pc[t] = "draw"
    BY <1>0, <1>3 DEF Rest, Draw
  <2>1. PcOK'
    <3>1. After(t) \in PlacesOf(t)
      BY <1>0, <2>0 DEF After, PlacesOf, PcOK, LightPlaces, SecurityPlaces, Threads
    <3> QED BY <1>0, <1>3, <3>1, GotoType DEF Draw, Goto
  <2>2. modeLabel' \in Modes /\ sys_status' \in Modes
    BY <1>0, <1>3, <2>0 DEF Draw, LCD_ShowString, Rest, Jobs, Job, NoLabel
  <2>3. lampLabel' \in [text : {"ON", "OFF"}, colour : Colours]
    <3>1. job[t].label = "lamp" => job[t].text \in {"ON", "OFF"}
      BY <2>0 DEF Jobs, Job, NoLabel
    <3> QED BY <1>0, <1>3, <3>1 DEF Draw, LCD_ShowString, Rest
  <2>4. job' \in [Threads -> Jobs] /\ lock' \in Threads \cup {"none"} /\ late' \in Nat
    BY <1>0, <1>3, NoLabelIs DEF Draw, Rest
  <2>5. UNCHANGED <<lamp, POINT_COLOR>>
    BY <1>3 DEF Draw, LCD_ShowString
  <2>6. BEEP' \in BOOLEAN /\ redrawn' \in BOOLEAN
    BY <1>3 DEF Draw
  <2> QED BY <1>0, <2>1, <2>2, <2>3, <2>4, <2>5, <2>6, TypeParts DEF Rest
<1>4. CASE RTC_IRQHandler
  <2>1. POINT_COLOR' \in Colours
        /\ UNCHANGED <<sys_status, lamp, BEEP, modeLabel, lampLabel, pc, job, lock, redrawn, late>>
    BY <1>4 DEF RTC_IRQHandler, house, Colours
  <2> QED BY <1>0, <2>1, TypeParts DEF Rest, PcOK
<1>5. CASE OpenDialogue
  <2>1. PcOK'
    BY <1>0, <1>5, GotoType DEF OpenDialogue, Goto, PlacesOf, Threads
  <2>2. POINT_COLOR' \in Colours /\ lock' \in Threads \cup {"none"}
        /\ UNCHANGED <<sys_status, lamp, BEEP, modeLabel, lampLabel, job, redrawn, late>>
    BY <1>5 DEF OpenDialogue, house, Colours, Threads
  <2> QED BY <1>0, <2>1, <2>2, TypeParts DEF Rest
<1>6. CASE TouchField
  <2>1. UNCHANGED <<sys_status, BEEP, POINT_COLOR, modeLabel, lampLabel, pc, job, lock,
                    redrawn, late>>
    BY <1>6 DEF TouchField, screen
  <2>2. lamp' \in BOOLEAN
    BY <1>6 DEF TouchField
  <2> QED BY <1>0, <2>1, <2>2, TypeParts DEF Rest, PcOK
<1>7. CASE Draw_window
  <2>1. PcOK'
    BY <1>0, <1>7, GotoType DEF Draw_window, Goto, PlacesOf, Threads
  <2>2. /\ POINT_COLOR' \in Colours /\ modeLabel' \in Modes /\ lock' \in Threads \cup {"none"}
        /\ lampLabel' \in [text : {"ON", "OFF"}, colour : Colours]
        /\ UNCHANGED <<sys_status, BEEP, job, late>>
    BY <1>7 DEF Draw_window, Colours, Modes
  <2>3. lamp' \in BOOLEAN /\ redrawn' \in BOOLEAN
    BY <1>7 DEF Draw_window
  <2> QED BY <1>0, <2>1, <2>2, <2>3, TypeParts DEF Rest
<1> QED BY <1>0, <1>1, <1>2, <1>3, <1>4, <1>5, <1>6, <1>7, StepKinds

LEMMA StepKeepsShown ==
  ASSUME IInv, Next
  PROVE  Exclusive' /\ InHand' /\ Shown'
<1>0. TypeOK /\ Exclusive /\ InHand /\ Shown
  BY DEF IInv
<1>1. CASE ChoiceStep
  <2>1. PICK t \in Threads \ {"security"}, c \in Colours, j \in Jobs, locked \in BOOLEAN :
           Chooses(t, c, j, locked) /\ (locked <=> t \notin Unlocking)
    BY <1>1 DEF ChoiceStep
  <2>2. /\ CanRun(t) /\ ~Engaged(t) /\ Choose(t, c, j, locked) /\ UNCHANGED redrawn
        /\ t = "sensor" => j = NoLabel
        /\ t \notin {"irda", "touch"} /\ j.label = "mode" => j.text = sys_status'
        /\ j.label = "lamp" => (j.text = "ON" => lamp') /\ c \in {"RED", LampColour(j.text = "ON")}
        /\ j.label # "mode" => UNCHANGED sys_status
        /\ j.label # "lamp" => UNCHANGED lamp
    BY <2>1, NoLabelIs DEF Chooses
  <2> QED BY <1>0, <2>1, <2>2, ChooseKeeps
<1>2. CASE \/ (LightSamples \/ LightPasses) /\ UNCHANGED <<redrawn, late>>
           \/ BEEP_CGI_Handler \/ security_thread
  <2>1. PICK t \in Threads : \E l \in PlacesOf(t) : Moves(t, l)
    BY <1>0, <1>2, MoveSteps
  <2> QED BY <1>0, <2>1, MoveKeeps DEF Moves
<1> QED BY <1>0, <1>1, <1>2, DrawKeeps, ClockKeeps, StepKinds

LEMMA StepKeepsAlarm ==
  ASSUME IInv, Next
  PROVE  Alarm'
<1>0. TypeOK /\ sys_status \in Modes /\ late \in Nat /\ Alarm
      /\ pc \in [Threads -> Places] /\ "security" \in Threads
  BY DEF IInv, TypeOK, Places, Threads
<1>1. ASSUME pc'["security"] = pc["security"] \/ pc'["security"] # "intruder",
             IF sys_status' = sys_status THEN late' = late ELSE late' = 0
      PROVE  Alarm'
  BY <1>0, <1>1 DEF Alarm, FirstAlarm, OneLateAlarm
<1>2. CASE ChoiceStep
  <2>1. PICK t \in Threads \ {"security"}, c \in Colours, j \in Jobs, locked \in BOOLEAN :
           Chooses(t, c, j, locked)
    BY <1>2 DEF ChoiceStep
  <2>2. pc'["security"] = pc["security"]
    BY <1>0, <2>1 DEF Chooses, Choose, Goto
  <2>3. IF sys_status' = sys_status THEN late' = late ELSE late' = 0
    BY <2>1 DEF Chooses
  <2> QED BY <1>1, <2>2, <2>3
<1>3. ASSUME NEW t \in Threads, Draw(t) PROVE Alarm'
  <2>1. pc'["security"] = pc["security"] \/ pc'["security"] # "intruder"
    BY <1>0, <1>3 DEF Draw, After, Goto
  <2>2. IF sys_status' = sys_status THEN late' = late ELSE late' = 0
    BY <1>3 DEF Draw
  <2> QED BY <1>1, <2>1, <2>2
<1>4. CASE \/ (LightSamples \/ LightPasses) /\ UNCHANGED <<redrawn, late>>
           \/ BEEP_CGI_Handler
           \/ RTC_IRQHandler \/ OpenDialogue \/ TouchField \/ Draw_window
  <2>1. pc'["security"] = pc["security"]
    BY <1>0, <1>4 DEF LightSamples, LightPasses, BEEP_CGI_Handler, BeepStarts, BeepPauses,
       BeepEnds, BeepOff, RTC_IRQHandler, OpenDialogue, TouchField, Draw_window, Goto
  <2>2. UNCHANGED <<sys_status, late>>
    BY <1>4 DEF LightSamples, LightPasses, BEEP_CGI_Handler, RTC_IRQHandler, OpenDialogue,
       TouchField, Draw_window, house
  <2> QED BY <1>1, <2>1, <2>2
<1>5. CASE security_thread
  <2>1. UNCHANGED sys_status
    BY <1>5 DEF security_thread
  <2>2. CASE SecurityLooks
    BY <1>0, <2>1, <2>2 DEF SecurityLooks, Goto, Alarm, FirstAlarm, OneLateAlarm
  <2>3. CASE IntruderAlarm
    BY <1>0, <2>1, <2>3 DEF IntruderAlarm, Goto, Alarm, FirstAlarm, OneLateAlarm, Modes
  <2>4. CASE SirenEnds \/ GasOrFireAlarm \/ NoGasOrFire
    <3>1. pc'["security"] # "intruder" /\ UNCHANGED late
      BY <1>0, <2>4 DEF SirenEnds, GasOrFireAlarm, NoGasOrFire, Goto
    <3> QED BY <1>1, <2>1, <3>1
  <2> QED BY <1>5, <2>2, <2>3, <2>4 DEF security_thread
<1> QED BY <1>0, <1>2, <1>3, <1>4, <1>5, StepKinds

LEMMA InitIInv == Init => IInv
<1> SUFFICES ASSUME Init PROVE IInv
  OBVIOUS
<1>1. TypeOK
  <2>1. PcOK
    BY DEF Init, PcOK, Places, Asleep, LightPlaces, SecurityPlaces, Threads
  <2>2. Rest
    <3>1. lamp \in BOOLEAN /\ BEEP \in BOOLEAN /\ redrawn \in BOOLEAN
      BY Zenon DEF Init
    <3> QED BY <3>1, NoLabelIs DEF Init, Rest, Modes, Colours
  <2> QED BY <2>1, <2>2, TypeParts
<1>2. Exclusive
  BY DEF Init, Exclusive, Engaged, Threads
<1>3. InHand
  BY NoLabelIs DEF Init, InHand, Threads
<1>4. Shown /\ Alarm
  BY DEF Init, Shown, Alarm, ModeShown, OnMeansLit, LabelColour, LampColour, FirstAlarm,
     OneLateAlarm
<1> QED BY <1>1, <1>2, <1>3, <1>4 DEF IInv

LEMMA IInvariance == Spec => []IInv
<1>1. IInv /\ [Next]_vars => IInv'
  <2> SUFFICES ASSUME IInv, [Next]_vars PROVE IInv'
    OBVIOUS
  <2>1. CASE Next
    BY <2>1, StepKeepsType, StepKeepsShown, StepKeepsAlarm DEF IInv
  <2>2. CASE UNCHANGED vars
    <3>1. TypeOK' /\ Exclusive' /\ InHand'
      BY <2>2 DEF IInv, TypeOK, Exclusive, Engaged, InHand, vars, house, screen
    <3>2. Shown' /\ Alarm'
      BY <2>2 DEF IInv, Shown, Alarm, ModeShown, OnMeansLit, LabelColour, Settled, FirstAlarm,
         OneLateAlarm, vars, house, screen
    <3> QED BY <3>1, <3>2 DEF IInv
  <2> QED BY <2>1, <2>2
<1> QED BY <1>1, InitIInv, PTL DEF Spec

-----------------------------------------------------------------------------
\* TypeOK: every thread of main.c stays within its own places.
THEOREM TypeCorrect == Spec => []TypeOK
<1>1. IInv => TypeOK
  BY DEF IInv
<1> QED BY <1>1, IInvariance, PTL

\* Exclusive: a thread between its colour and its label, or in the dialogue,
\* holds the scheduler's lock; the web server and the sensor thread never hold
\* it, and are there only while nobody does.
THEOREM DrawingIsExclusive == Spec => []Exclusive
<1>1. IInv => Exclusive
  BY DEF IInv
<1> QED BY <1>1, IInvariance, PTL

\* ModeShown: the LCD shows the mode in force, whoever changed it last and
\* whatever was drawn meanwhile, unless Draw_window came after the change.
THEOREM ModeIsShown == Spec => []ModeShown
<1>1. IInv => ModeShown
  BY DEF IInv, Shown
<1> QED BY <1>1, IInvariance, PTL

\* OnMeansLit: the corridor line never says ON for a lamp that is off.
THEOREM OnIsLit == Spec => []OnMeansLit
<1>1. IInv => OnMeansLit
  BY DEF IInv, Shown
<1> QED BY <1>1, IInvariance, PTL

\* LabelColour: the corridor line is in its own colour or in the clock's.
THEOREM ColourIsOwn == Spec => []LabelColour
<1>1. IInv => LabelColour
  BY DEF IInv, Shown
<1> QED BY <1>1, IInvariance, PTL

\* OneLateAlarm: the stale mode of security_thread costs one alarm at most.
THEOREM LateAlarmOnce == Spec => []OneLateAlarm
<1>1. IInv => OneLateAlarm
  BY DEF IInv, Alarm
<1> QED BY <1>1, IInvariance, PTL
-----------------------------------------------------------------------------
(* The house of Home is the one of Panel.                                  *)

\* The jobs that are said when t alone may have a label of this state in hand.
LEMMA OneJob ==
  ASSUME NEW t \in Threads, NEW j, j[t] \in Jobs, \A u \in Threads \ {t} : j[u] = NoLabel
  PROVE  /\ (\E u \in {"read", "web"} : j[u].label = "mode")
              <=> t \in {"read", "web"} /\ j[t].label = "mode"
         /\ \A x \in {"ON", "OFF"} : (\E u \in Threads : j[u] = Job("lamp", x))
                                        <=> j[t].label = "lamp" /\ j[t].text = x
         /\ j[t].label = "lamp" => j[t].text \in {"ON", "OFF"}
<1>1. "read" \in Threads /\ "web" \in Threads
  BY DEF Threads
<1>2. NoLabel # Job("lamp", "ON") /\ NoLabel # Job("lamp", "OFF")
  BY DEF NoLabel, Job
<1>3. /\ j[t].label = "lamp" => j[t] \in {Job("lamp", "ON"), Job("lamp", "OFF")}
      /\ \A x : j[t] = Job("lamp", x) => j[t].label = "lamp" /\ j[t].text = x
      /\ Job("lamp", "ON").text = "ON" /\ Job("lamp", "OFF").text = "OFF"
  BY DEF Jobs, NoLabel, Job
<1>4. (\E u \in {"read", "web"} : j[u].label = "mode")
        <=> t \in {"read", "web"} /\ j[t].label = "mode"
  BY <1>1, NoLabelIs
<1>5. ASSUME NEW x \in {"ON", "OFF"}
      PROVE  (\E u \in Threads : j[u] = Job("lamp", x)) <=> j[t].label = "lamp" /\ j[t].text = x
  BY <1>2, <1>3
<1> QED BY <1>3, <1>4, <1>5

LEMMA SaidBy ==
  ASSUME NEW t \in Threads, job[t] \in Jobs, \A u \in Threads \ {t} : job[u] = NoLabel
  PROVE  /\ ModeSaid = IF t \in {"read", "web"} /\ job[t].label = "mode"
                         THEN sys_status ELSE modeLabel
         /\ LineSaid = IF job[t].label = "lamp" THEN job[t].text ELSE lampLabel.text
BY OneJob DEF ModeSaid, LineSaid

LEMMA SaidByNext ==
  ASSUME NEW t \in Threads, job'[t] \in Jobs, \A u \in Threads \ {t} : job'[u] = NoLabel
  PROVE  /\ ModeSaid' = IF t \in {"read", "web"} /\ job'[t].label = "mode"
                          THEN sys_status' ELSE modeLabel'
         /\ LineSaid' = IF job'[t].label = "lamp" THEN job'[t].text ELSE lampLabel'.text
BY OneJob DEF ModeSaid, LineSaid

\* A change of the mode or of the lamp begins when its label is chosen.
LEMMA ChoiceRefines ==
  ASSUME TypeOK, Exclusive, InHand, ChoiceStep
  PROVE  [House!Next]_(House!pvars)
<1>1. PICK t \in Threads \ {"security"}, c \in Colours, j \in Jobs, locked \in BOOLEAN :
         Chooses(t, c, j, locked)
  BY DEF ChoiceStep
<1>2. /\ CanRun(t) /\ ~Engaged(t) /\ job' = [job EXCEPT ![t] = j]
      /\ pc' = [pc EXCEPT ![t] = "draw"] /\ UNCHANGED <<modeLabel, lampLabel>>
  BY <1>1 DEF Chooses, Choose, Goto
<1>3. job \in [Threads -> Jobs] /\ pc \in [Threads -> Places] /\ sys_status \in Modes
  BY DEF TypeOK, Places
<1>4. (\A u \in Threads \ {t} : job[u] = NoLabel) /\ job[t] = NoLabel
  BY <1>2, OthersIdle DEF InHand, Engaged
<1>5. pc["touch"] # "dialogue" /\ pc'["touch"] # "dialogue"
  BY <1>2, <1>3, OthersIdle DEF Engaged, Threads
<1>6. ModeSaid = modeLabel /\ LineSaid = lampLabel.text
  BY <1>4, SaidBy, NoLabelIs
<1>7. /\ ModeSaid' = IF t \in {"read", "web"} /\ j.label = "mode" THEN sys_status' ELSE modeLabel
      /\ LineSaid' = IF j.label = "lamp" THEN j.text ELSE lampLabel.text
  <2>1. (\A u \in Threads \ {t} : job'[u] = NoLabel) /\ job'[t] = j
    BY <1>2, <1>3, <1>4
  <2>2. /\ ModeSaid' = IF t \in {"read", "web"} /\ job'[t].label = "mode"
                         THEN sys_status' ELSE modeLabel'
        /\ LineSaid' = IF job'[t].label = "lamp" THEN job'[t].text ELSE lampLabel'.text
    BY <2>1, SaidByNext
  <2> QED BY <1>2, <2>1, <2>2
<1>8. CASE /\ j = NoLabel \/ (j.label = "mode" /\ t \in {"irda", "touch"})
           /\ UNCHANGED <<sys_status, lamp>>
  <2>1. ModeSaid' = ModeSaid /\ LineSaid' = LineSaid
    BY <1>6, <1>7, <1>8, NoLabelIs
  <2> QED BY <1>5, <1>8, <2>1 DEF House!pvars
<1>9. CASE j.label = "mode" /\ t \in {"web", "read"} /\ sys_status' = j.text /\ UNCHANGED lamp
  <2>1. j.text \in {"HOME", "OUT"}
    BY <1>9 DEF Jobs, Job, NoLabel, Modes
  <2>2. ModeSaid' = j.text /\ LineSaid' = LineSaid
    BY <1>6, <1>7, <1>9
  <2>3. House!SetMode(j.text)
    BY <1>5, <1>9, <2>2 DEF House!SetMode
  <2> QED BY <2>1, <2>3 DEF House!Next
<1>10. CASE /\ j.label = "lamp" /\ lamp' \in BOOLEAN /\ UNCHANGED sys_status
            /\ \/ lamp' = (j.text = "ON")
               \/ j.text = "OFF" /\ sys_status = "OUT" /\ UNCHANGED lamp
  <2>1. ModeSaid' = ModeSaid /\ LineSaid' = j.text
    BY <1>6, <1>7, <1>10
  <2>2. j.text \in {"ON", "OFF"}
    BY <1>10 DEF Jobs, Job, NoLabel
  <2>3. CASE lamp' = (j.text = "ON")
    <3>1. House!Switch(lamp')
      BY <1>5, <1>10, <2>1, <2>2, <2>3 DEF House!Switch
    <3> QED BY <1>10, <3>1 DEF House!Next
  <2>4. CASE j.text = "OFF" /\ sys_status = "OUT" /\ UNCHANGED lamp
    <3>1. House!SayOff
      BY <1>5, <1>10, <2>1, <2>4 DEF House!SayOff
    <3> QED BY <3>1 DEF House!Next
  <2> QED BY <1>10, <2>3, <2>4
<1> QED BY <1>1, <1>8, <1>9, <1>10 DEF Chooses

\* Drawing says what was said already, unless it sets the mode.
LEMMA DrawRefines ==
  ASSUME TypeOK, Exclusive, InHand, NEW t \in Threads, Draw(t)
  PROVE  [House!Next]_(House!pvars)
<1>1. /\ CanRun(t) /\ pc[t] = "draw" /\ job' = [job EXCEPT ![t] = NoLabel] /\ UNCHANGED lamp
      /\ sys_status' = IF t \in {"irda", "touch"} /\ job[t].label = "mode"
                         THEN job[t].text ELSE sys_status
      /\ modeLabel' = IF job[t].label = "mode" THEN job[t].text ELSE modeLabel
      /\ lampLabel'.text = IF job[t].label = "lamp" THEN job[t].text ELSE lampLabel.text
  BY DEF Draw, LCD_ShowString
<1>2. job \in [Threads -> Jobs] /\ pc \in [Threads -> Places]
  BY DEF TypeOK, Places
<1>3. job[t] \in Jobs /\ \A u \in Threads \ {t} : job[u] = NoLabel
  BY <1>1, <1>2, OthersIdle
<1>4. pc["touch"] # "dialogue" /\ pc'["touch"] # "dialogue"
  <2>1. pc["touch"] # "dialogue"
    BY <1>1, <1>3, OthersIdle DEF Threads
  <2>2. PICK l \in {"lit", "rest"} : pc' = [pc EXCEPT ![t] = l]
    BY DEF Draw, After, Goto
  <2> QED BY <1>2, <2>1, <2>2 DEF Threads
<1>5. /\ ModeSaid = IF t \in {"read", "web"} /\ job[t].label = "mode"
                      THEN sys_status ELSE modeLabel
      /\ LineSaid = IF job[t].label = "lamp" THEN job[t].text ELSE lampLabel.text
  BY <1>3, SaidBy
<1>6. ModeSaid' = modeLabel' /\ LineSaid' = lampLabel'.text
  <2>1. (\A u \in Threads \ {t} : job'[u] = NoLabel) /\ job'[t] = NoLabel
    BY <1>1, <1>2, <1>3
  <2> QED BY <2>1, SaidByNext, NoLabelIs
<1>7. CASE job[t].label # "mode"
  <2>1. ModeSaid' = ModeSaid /\ LineSaid' = LineSaid /\ UNCHANGED sys_status
    BY <1>1, <1>5, <1>6, <1>7
  <2> QED BY <1>1, <1>4, <2>1 DEF House!pvars
<1>8. CASE job[t].label = "mode"
  <2>1. job[t].text \in {"HOME", "OUT"}
    BY <1>3, <1>8 DEF Jobs, Job, NoLabel, Modes
  <2>2. sys_status' = job[t].text /\ ModeSaid' = job[t].text /\ LineSaid' = LineSaid
    BY <1>1, <1>5, <1>6, <1>8 DEF InHand
  <2>3. House!SetMode(job[t].text)
    BY <1>1, <1>4, <2>2 DEF House!SetMode
  <2> QED BY <2>1, <2>3 DEF House!Next
<1> QED BY <1>7, <1>8

\* The interrupt of the clock changes nothing that is said; the dialogue is the
\* one of Panel.
LEMMA ClockRefines ==
  ASSUME TypeOK, Exclusive, InHand, RTC_IRQHandler \/ OpenDialogue \/ TouchField \/ Draw_window
  PROVE  [House!Next]_(House!pvars)
<1>0. pc \in [Threads -> Places] /\ "touch" \in Threads
  BY DEF TypeOK, Places, Threads
<1>1. CASE RTC_IRQHandler
  <2>1. UNCHANGED <<sys_status, lamp, modeLabel, lampLabel, pc, job>>
    BY <1>1 DEF RTC_IRQHandler, house
  <2> QED BY <2>1 DEF House!pvars, ModeSaid, LineSaid
<1>2. CASE OpenDialogue
  <2>1. /\ pc["touch"] = "rest" /\ pc'["touch"] = "dialogue"
        /\ UNCHANGED <<sys_status, lamp, modeLabel, lampLabel, job>>
    BY <1>0, <1>2 DEF OpenDialogue, Goto, house
  <2>2. ModeSaid' = ModeSaid /\ LineSaid' = LineSaid
    BY <2>1 DEF ModeSaid, LineSaid
  <2>3. House!OpenSetting
    BY <2>1, <2>2 DEF House!OpenSetting
  <2> QED BY <2>3 DEF House!Next
<1>3. CASE TouchField
  <2>1. /\ pc["touch"] = "dialogue" /\ lamp' = ~lamp
        /\ UNCHANGED <<sys_status, modeLabel, lampLabel, pc, job>>
    BY <1>3 DEF TouchField, screen
  <2>2. ModeSaid' = ModeSaid /\ LineSaid' = LineSaid
    BY <2>1 DEF ModeSaid, LineSaid
  <2>3. House!TouchField
    BY <2>1, <2>2 DEF House!TouchField
  <2> QED BY <2>3 DEF House!Next
<1>4. CASE Draw_window
  <2>1. /\ CanRun("touch") /\ pc["touch"] = "dialogue" /\ pc'["touch"] = "rest"
        /\ modeLabel' = "HOME" /\ lampLabel'.text = "OFF" /\ lamp' = FALSE
        /\ UNCHANGED <<sys_status, job>>
    BY <1>0, <1>4 DEF Draw_window, Goto
  <2>2. \A u \in Threads : job'[u] = NoLabel
    BY <1>0, <2>1, OthersIdle DEF InHand
  <2>3. ModeSaid' = "HOME" /\ LineSaid' = "OFF"
    BY <1>0, <2>1, <2>2, SaidByNext, NoLabelIs
  <2>4. House!CloseSetting
    BY <2>1, <2>3 DEF House!CloseSetting
  <2> QED BY <2>4 DEF House!Next
<1> QED BY <1>1, <1>2, <1>3, <1>4

\* RefinesPanel: a change of the mode or of the lamp and its label on the LCD
\* are one, whatever the other threads and the clock do meanwhile.
THEOREM HomeRefinesPanel == Spec => RefinesPanel
<1>1. Init => House!Init
  <2> SUFFICES ASSUME Init PROVE House!Init
    OBVIOUS
  <2>1. /\ sys_status = "HOME" /\ lamp = FALSE /\ modeLabel = "HOME" /\ lampLabel.text = "OFF"
        /\ pc["touch"] # "dialogue" /\ \A t \in Threads : job[t] = NoLabel
    BY DEF Init, Threads
  <2>2. ModeSaid = "HOME" /\ LineSaid = "OFF"
    BY <2>1, SaidBy, NoLabelIs DEF Threads
  <2> QED BY <2>1, <2>2 DEF House!Init
<1>2. IInv /\ [Next]_vars => [House!Next]_(House!pvars)
  <2> SUFFICES ASSUME IInv, [Next]_vars PROVE [House!Next]_(House!pvars)
    OBVIOUS
  <2>1. TypeOK /\ Exclusive /\ InHand
    BY DEF IInv
  <2>2. CASE \/ (LightSamples \/ LightPasses) /\ UNCHANGED <<redrawn, late>>
             \/ BEEP_CGI_Handler \/ security_thread
    <3>1. PICK t \in Threads : \E l \in PlacesOf(t) : Moves(t, l)
      BY <2>1, <2>2, MoveSteps
    <3>2. UNCHANGED <<sys_status, lamp, modeLabel, lampLabel, job>>
      BY <3>1 DEF Moves, screen
    <3>3. (pc["touch"] = "dialogue")' = (pc["touch"] = "dialogue")
      BY <2>1, <3>1 DEF Moves, Engaged, TypeOK, Threads
    <3> QED BY <3>2, <3>3 DEF House!pvars, ModeSaid, LineSaid
  <2>3. CASE UNCHANGED vars
    BY <2>3 DEF vars, house, screen, House!pvars, ModeSaid, LineSaid
  <2> QED BY <2>1, <2>2, <2>3, StepKinds, ChoiceRefines, DrawRefines, ClockRefines
<1> QED BY <1>1, <1>2, IInvariance, PTL DEF Spec, RefinesPanel, House!Spec
=============================================================================
