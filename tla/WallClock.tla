------------------------------ MODULE WallClock -----------------------------
(***************************************************************************)
(* What a clock promises to whom looks at it: the screen shows the date    *)
(* and the time of the counter when it was last read, and nothing is kept  *)
(* besides the counter and the screen.  It is read when the board starts,  *)
(* when time passes, unless the time is just being set, and when it was    *)
(* set.  A reading that is not an interrupt's may be torn: it lags by the  *)
(* range of the low half of the counter.  Rtc implements it.               *)
(***************************************************************************)
EXTENDS Integers

CONSTANTS
  Days, Seconds,    \* the days that are followed, the seconds of a day
  DaySize,          \* how many seconds a day has
  LowSize,          \* range of the low half of the counter
  Calendar(_, _),   \* what is shown of a day and a second of the day
  Blank             \* what is shown before the clock was read

VARIABLES
  day, sec,  \* the counter
  screen,    \* what is shown
  setting    \* the time is being set

wvars == <<day, sec, screen, setting>>

Init == day \in Days /\ sec \in Seconds /\ screen = Blank /\ setting = FALSE

\* The counter goes on.
Later == day' > day \/ (day' = day /\ sec' >= sec)

Exact == screen' = Calendar(day', sec')

\* LowSize seconds ago it was the same day, or the one before.
Torn ==
  \E k \in 0 .. 1 :
    LET d == day' - k
        s == sec' + k * DaySize - LowSize
    IN  d \in Days /\ s \in Seconds /\ screen' = Calendar(d, s)

\* The board starts: the counter is read, or it is set and read.
Start ==
  /\ screen = Blank
  /\ Exact \/ Torn
  /\ UNCHANGED setting

Pass ==
  /\ screen # Blank
  /\ Later
  /\ IF setting THEN UNCHANGED screen ELSE Exact
  /\ UNCHANGED setting

Open ==
  /\ screen # Blank
  /\ ~setting /\ setting'
  /\ UNCHANGED <<day, sec, screen>>

Cancel ==
  /\ setting /\ ~setting'
  /\ UNCHANGED <<day, sec, screen>>

Set ==
  /\ setting /\ ~setting'
  /\ Exact \/ Torn

PowerLoss ==
  /\ screen # Blank
  /\ Later
  /\ screen' = Blank
  /\ ~setting'

Next == Start \/ Pass \/ Open \/ Cancel \/ Set \/ PowerLoss

Spec == Init /\ [][Next]_wvars
=============================================================================
