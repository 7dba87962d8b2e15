-------------------------------- MODULE Rtc ---------------------------------
(***************************************************************************)
(* The clock (applications/rtc.c): a counter of seconds since 1970 that a  *)
(* battery keeps running, the calendar that RTC_Get computes from it once  *)
(* a second, with a cache of the day, and the dialogue in which the user   *)
(* dials a date and a time, digit by digit, while the interrupt is off.    *)
(*                                                                         *)
(* The counter is kept as a day and the second of the day.                 *)
(***************************************************************************)
EXTENDS Integers

CONSTANTS
  StartDays,   \* days that the counter may be at when the board starts
  OpenDays,    \* days on which the user opens the dialogue
  Digits,      \* digits that the user touches
  MaxTouches,  \* touches of the dialogues
  Spans,       \* seconds that pass in one step
  MaxSpans,    \* steps in which time passes
  Garbage      \* days that RTC_Set may add up past the end of mon_table

ASSUME RtcAssumption ==
  /\ OpenDays \subseteq Nat
  /\ Digits \subseteq 0 .. 9 /\ Spans \subseteq Nat /\ Garbage \subseteq Nat
  /\ MaxTouches \in Nat /\ MaxSpans \in Nat

Fields == {"year", "mon", "day", "hour", "min", "sec"}

VARIABLES
  day, sec,      \* the counter: day * 86400 + sec
  calendar,      \* what the LCD shows
  daycnt,        \* the day that calendar's date was computed for
  open,          \* the dialogue is open, and the interrupt off
  flag,          \* time_flag_flash: the field that digits go to
  set_value,     \* the number dialled so far
  Set_time,      \* the fields as dialled
  typed,         \* the fields as the user means them (history)
  begun,         \* a field or a digit was touched in this dialogue (history)
  spoilt,        \* what the user means is unclear (history)
  want,          \* what was set, until time passes (history)
  fresh,         \* calendar was read since the counter moved (history)
  touches, spans \* so far

counter  == <<day, sec>>
reading  == <<calendar, daycnt, fresh>>
dialogue == <<open, flag, set_value, Set_time, typed, begun, spoilt>>
vars     == <<counter, reading, dialogue, want, touches, spans>>

-----------------------------------------------------------------------------
(* The calendar.                                                           *)

Is_Leap_Year(y) == y % 4 = 0 /\ (y % 100 # 0 \/ y % 400 = 0)

mon_table == <<31, 28, 31, 30, 31, 30, 31, 31, 30, 31, 30, 31>>
table_week == <<0, 3, 3, 6, 1, 4, 6, 2, 5, 0, 3, 5>>

LastDay == 49710
AllDays == 0 .. LastDay   \* what 32 bits of seconds hold
AllYears == 1970 .. 2107
SetYears == 1970 .. 2099  \* the years that RTC_Set takes

\* Bound: the counter is not followed before its second day (0 is the day that
\* daycnt starts with), nor to the day in 2106 on which it returns to 0.
CounterDays == 1 .. LastDay - 1

ASSUME StartAssumption == StartDays \subseteq CounterDays

\* The first loop of RTC_Get: the year, and the days that are left.
Years[t \in AllDays, y \in AllYears] ==
  CASE t < 365                    -> <<y, t>>
    [] t >= 365 /\ ~Is_Leap_Year(y) -> Years[t - 365, y + 1]
    [] t = 365 /\ Is_Leap_Year(y)   -> <<y, t>>
    [] t > 365 /\ Is_Leap_Year(y)   -> Years[t - 366, y + 1]

MonthDays(y, m) == IF m = 2 /\ Is_Leap_Year(y) THEN 29 ELSE mon_table[m]

\* The second loop: the month, and the days that are left.
Months[t \in 0 .. 365, y \in AllYears, m \in 1 .. 12] ==
  IF t < MonthDays(y, m) THEN <<m, t>> ELSE Months[t - MonthDays(y, m), y, m + 1]

\* RTC_Get_Week.
RTC_Get_Week(y, m, d) ==
  LET yearL == (y % 100) + (IF y \div 100 > 19 THEN 100 ELSE 0)
      temp2 == ((yearL + yearL \div 4) % 7) + d + table_week[m]
  IN  (IF yearL % 4 = 0 /\ m < 3 THEN temp2 - 1 ELSE temp2) % 7

\* The date that both loops find for day d.
Computed(d) ==
  LET y == Years[d, 1970]
      m == Months[y[2], y[1], 1]
  IN  [year |-> y[1], mon |-> m[1], day |-> m[2] + 1]

\* Faulty variant: the date is computed anew only when the day has grown.
DateForward(d) ==
  IF d <= daycnt
    THEN [year |-> calendar.year, mon |-> calendar.mon, day |-> calendar.day]
    ELSE Computed(d)

\* The date of RTC_Get, computed when the day is not the one it cached.
Date(d) ==
  IF d = daycnt
    THEN [year |-> calendar.year, mon |-> calendar.mon, day |-> calendar.day]
    ELSE Computed(d)

DaySeconds == 86400
Seconds == 0 .. DaySeconds - 1

\* The time of a second of the day, and the second of a time.
Hour(s)   == s \div 3600
Minute(s) == (s % 3600) \div 60
Second(s) == s % 60
SecondAt(h, m, s) == h * 3600 + m * 60 + s

\* RTC_Get for the counter d, s.
Read(d, s) ==
  /\ d \in CounterDays
  /\ LET t == Date(d)
     IN  calendar' = [year |-> t.year, mon |-> t.mon, day |-> t.day,
                      hour |-> Hour(s), min |-> Minute(s), sec |-> Second(s),
                      week |-> RTC_Get_Week(t.year, t.mon, t.day)]
  /\ daycnt' = d

\* The day and the second of the day, s seconds after day d.
DayOf(d, s) == d + s \div DaySeconds
SecOf(s) == s % DaySeconds

\* CNTL is about to return to 0 (86400 is 20864 modulo 2^16).
CntlSize == 65536
LowFull(d, s) == (d * 20864 + s + 1) % CntlSize = 0

\* RTC_Get outside the interrupt.  It reads CNTH before CNTL, and a second
\* may pass between: CNTH is then the old one, and CNTL 0.
RTC_Get(d, s) ==
  \/ /\ Read(d, s)
     /\ day' = d /\ sec' = s
     /\ fresh' = TRUE
  \/ /\ LowFull(d, s)
     /\ Read(DayOf(d, s + 1 - CntlSize), SecOf(s + 1 - CntlSize))
     /\ day' = DayOf(d, s + 1) /\ sec' = SecOf(s + 1)
     /\ fresh' = FALSE

\* The days before year y, and before month m of it, in RTC_Set.
YearDays[y \in AllYears] ==
  IF y = 1970 THEN 0 ELSE YearDays[y - 1] + (IF Is_Leap_Year(y - 1) THEN 366 ELSE 365)

DaysBefore[y \in AllYears, m \in 1 .. 13] ==
  IF m = 1 THEN 0 ELSE DaysBefore[y, m - 1] + MonthDays(y, m - 1)

MonthStart(y, m) == YearDays[y] + DaysBefore[y, m]
DayNumber(y, m, d) == MonthStart(y, m) + d - 1

\* The days that RTC_Set adds up.  Month 0 becomes 255, and the loop adds
\* whatever lies behind mon_table.
SetDays(t) ==
  IF t.mon = 0
    THEN {YearDays[t.year] + g + t.day - 1 : g \in Garbage}
    ELSE {DayNumber(t.year, t.mon, t.day)}

\* RTC_Set.  It refuses a year that it does not know, and nobody looks.
RTC_Set(t) ==
  \/ /\ t.year \notin SetYears
     /\ UNCHANGED <<counter, reading>>
  \/ /\ t.year \in SetYears
     /\ LET s == SecondAt(t.hour, t.min, t.sec)
        IN  \E d \in SetDays(t) : RTC_Get(DayOf(d, s), SecOf(s))

\* The day of a date, by the formula for Julian day numbers.
JulianDay(y, m, d) ==
  LET a == (14 - m) \div 12
      b == y + 4800 - a
  IN  d + (153 * (m + 12 * a - 3) + 2) \div 5
        + 365 * b + b \div 4 - b \div 100 + b \div 400 - 32045 - 2440588

\* What the loops of RTC_Get and the formula of RTC_Get_Week find for a day.
DateRight(d, t) ==
  /\ t.year \in AllYears /\ t.mon \in 1 .. 12 /\ t.day \in 1 .. 31
  /\ t.year < 2100 => /\ t.day \in 1 .. MonthDays(t.year, t.mon)
                      /\ JulianDay(t.year, t.mon, t.day) = d
                      /\ RTC_Get_Week(t.year, t.mon, t.day) = (d + 4) % 7

ConversionRight == \A d \in CounterDays : DateRight(d, Computed(d))

\* RTC_Get finds the date for which RTC_Set added up the days.
SetRight ==
  \A y \in SetYears, m \in 1 .. 12 :
    /\ YearDays[y] \in Nat /\ MonthStart(y, m) \in Nat
    /\ \A d \in 1 .. MonthDays(y, m) :
         DayNumber(y, m, d) \in CounterDays =>
           Computed(DayNumber(y, m, d)) = [year |-> y, mon |-> m, day |-> d]

\* Both hold for every day and every date: TLC evaluates them, for they speak
\* of no parameter and of no variable.
ASSUME CalendarAssumption == ConversionRight /\ SetRight

FirstTime == [year |-> 2017, mon |-> 5, day |-> 27, hour |-> 17, min |-> 7, sec |-> 0]

-----------------------------------------------------------------------------
NoTime == [f \in Fields |-> 0]
NoCalendar == [year |-> 0, mon |-> 0, day |-> 0, hour |-> 0, min |-> 0, sec |-> 0,
               week |-> 0]

\* The variables of a program that has just started.
Statics ==
  /\ calendar = NoCalendar /\ daycnt = 0 /\ fresh = FALSE
  /\ open = FALSE /\ flag = "year" /\ set_value = 0 /\ Set_time = NoTime
  /\ typed = NoTime /\ begun = FALSE /\ spoilt = FALSE
  /\ want = NoTime

Init ==
  /\ day \in StartDays /\ sec \in {0, 86399}
  /\ Statics
  /\ touches = 0 /\ spans = 0

Started == daycnt # 0

\* RTC_Init: the marker in BKP->DR1 is there, and the counter has gone on; or
\* the battery was empty, and the time is set for the first time.
RTC_Init ==
  /\ ~Started
  /\ RTC_Get(day, sec) \/ RTC_Set(FirstTime)
  /\ UNCHANGED <<dialogue, want, touches, spans>>

\* The board loses its power, and starts again s seconds later.
Restart(s) ==
  /\ Started
  /\ spans < MaxSpans
  /\ spans' = spans + 1
  /\ day' = DayOf(day, sec + s) /\ sec' = SecOf(sec + s)
  /\ day' \in CounterDays
  /\ calendar' = NoCalendar /\ daycnt' = 0 /\ fresh' = FALSE
  /\ open' = FALSE /\ flag' = "year" /\ set_value' = 0 /\ Set_time' = NoTime
  /\ typed' = NoTime /\ begun' = FALSE /\ spoilt' = FALSE
  /\ want' = NoTime
  /\ UNCHANGED touches

\* s seconds pass.  The last interrupt (RTC_IRQHandler) reads the counter,
\* unless the dialogue has switched it off.
Elapse(s) ==
  /\ Started
  /\ spans < MaxSpans
  /\ spans' = spans + 1
  /\ day' = DayOf(day, sec + s) /\ sec' = SecOf(sec + s)
  /\ day' \in CounterDays
  /\ want' = NoTime
  /\ IF open
       THEN fresh' = FALSE /\ UNCHANGED <<calendar, daycnt>>
       ELSE fresh' = TRUE /\ Read(day', sec')
  /\ UNCHANGED <<dialogue, touches>>

-----------------------------------------------------------------------------
(* Set_Time.                                                               *)

Open ==
  /\ Started
  /\ ~open
  /\ day \in OpenDays
  /\ touches < MaxTouches
  /\ open' = TRUE
  /\ Set_time' = [f \in Fields |-> calendar[f]]
  /\ typed' = Set_time'
  /\ begun' = FALSE /\ spoilt' = FALSE
  /\ UNCHANGED <<counter, reading, flag, set_value, want, touches, spans>>

Touch ==
  /\ open
  /\ touches < MaxTouches
  /\ touches' = touches + 1
  /\ begun' = TRUE

\* Faulty variant: the number dialled so far goes on in the next field.
FieldKeeps(f) ==
  /\ Touch
  /\ flag' = f
  /\ Set_time' = [Set_time EXCEPT ![f] = IF f = "year" THEN 2000 ELSE 0]
  /\ typed' = [typed EXCEPT ![f] = IF f = "year" THEN 2000 ELSE 0]
  /\ UNCHANGED <<counter, reading, open, set_value, spoilt, want, spans>>

\* A field is touched: it starts again from 0.
Field(f) ==
  /\ Touch
  /\ flag' = f
  /\ set_value' = 0
  /\ Set_time' = [Set_time EXCEPT ![f] = IF f = "year" THEN 2000 ELSE 0]
  /\ typed' = [typed EXCEPT ![f] = IF f = "year" THEN 2000 ELSE 0]
  /\ UNCHANGED <<counter, reading, open, spoilt, want, spans>>

\* SET_WEEK: the weekday may be dialled, and is not used.
Week ==
  /\ Touch
  /\ flag' = "week"
  /\ set_value' = 0
  /\ UNCHANGED <<counter, reading, open, Set_time, typed, spoilt, want, spans>>

Limit(f) == CASE f = "year" -> 100
              [] f = "mon"  -> 13
              [] f = "day"  -> 32
              [] f = "hour" -> 24
              [] f \in {"min", "sec"} -> 61

Century(f) == IF f = "year" THEN 2000 ELSE 0

\* Faulty variant: nothing is too large.
AppendedAny(f, d) == set_value * 10 + d

\* What the number becomes with one more digit: 0 when it is too large.
Appended(f, d) ==
  IF set_value * 10 + d < Limit(f) THEN set_value * 10 + d ELSE 0

Meant(f) == IF begun THEN typed[f] - Century(f) ELSE 0

\* A digit is touched, for the field that flashes.  time_flag_flash and
\* set_value are static: in a later dialogue they are those of the last one.
Digit(d) ==
  /\ Touch
  /\ flag # "week"
  /\ set_value' = Appended(flag, d)
  /\ Set_time' = [Set_time EXCEPT ![flag] = Century(flag) + Appended(flag, d)]
  /\ typed' = [typed EXCEPT ![flag] = Century(flag) + Meant(flag) * 10 + d]
  /\ spoilt' = (\/ spoilt
                \/ Meant(flag) * 10 + d >= Limit(flag)
                \/ ~begun /\ (flag # "year" \/ set_value # 0))
  /\ UNCHANGED <<counter, reading, open, flag, want, spans>>

\* For the weekday a digit changes nothing that is kept.
WeekDigit ==
  /\ Touch
  /\ flag = "week"
  /\ UNCHANGED <<counter, reading, open, flag, set_value, Set_time, typed, spoilt,
                 want, spans>>

\* The dialogue ends, and the interrupt is on again.  Set_time is not used
\* any more, and forgotten.
Close ==
  /\ open
  /\ open' = FALSE
  /\ Set_time' = NoTime /\ typed' = NoTime
  /\ begun' = FALSE /\ spoilt' = FALSE
  /\ UNCHANGED <<flag, set_value, touches, spans>>

\* CANCLE.
Cancel ==
  /\ Close
  /\ UNCHANGED <<counter, reading, want>>

\* A date and a time that exist, and that RTC_Set takes.
Real(t) == /\ t.year \in SetYears
           /\ t.mon \in 1 .. 12
           /\ t.day \in 1 .. MonthDays(t.year, t.mon)
           /\ t.min < 60 /\ t.sec < 60

\* OK: the counter is set.
OK ==
  /\ Close
  /\ RTC_Set(Set_time)
  /\ want' = IF ~spoilt /\ Real(typed) THEN typed ELSE NoTime

Set_Time ==
  \/ Open \/ Week \/ WeekDigit \/ Cancel \/ OK
  \/ \E f \in Fields : Field(f)
  \/ \E d \in Digits : Digit(d)

Next ==
  \/ RTC_Init
  \/ \E s \in Spans : Elapse(s) \/ Restart(s)
  \/ Set_Time

Spec == Init /\ [][Next]_vars

-----------------------------------------------------------------------------
(* Properties.                                                             *)

\* Type invariant.
TypeOK ==
  /\ day \in AllDays /\ sec \in Seconds
  /\ calendar.mon \in 0 .. 12 /\ calendar.day \in 0 .. 31 /\ calendar.hour \in 0 .. 23
  /\ calendar.min \in 0 .. 59 /\ calendar.sec \in 0 .. 59 /\ calendar.week \in 0 .. 6
  /\ daycnt \in AllDays
  /\ flag \in Fields \cup {"week"} /\ set_value \in 0 .. 99
  /\ \A f \in Fields : Set_time[f] \in Nat /\ typed[f] \in Nat

\* The calendar that was read last is the date, the time and the weekday of
\* the counter, for every day of 1970 to 2099 (rtc.c 226-276): the cache of the
\* day is right after midnight, after a restart, after the user set the time
\* and after a reading that was torn between CNTH and CNTL.
CalendarRight ==
  fresh /\ calendar.year < 2100 =>
    /\ calendar.mon \in 1 .. 12
    /\ calendar.day \in 1 .. MonthDays(calendar.year, calendar.mon)
    /\ JulianDay(calendar.year, calendar.mon, calendar.day) = day
    /\ SecondAt(calendar.hour, calendar.min, calendar.sec) = sec
    /\ calendar.week = (day + 4) % 7

\* The date, the time and the weekday of second s of day d, computed without
\* the cache.
CalendarAt(d, s) ==
  LET t == Computed(d)
  IN  [year |-> t.year, mon |-> t.mon, day |-> t.day,
       hour |-> Hour(s), min |-> Minute(s), sec |-> Second(s),
       week |-> RTC_Get_Week(t.year, t.mon, t.day)]

Wall == INSTANCE WallClock WITH Days <- CounterDays, DaySize <- DaySeconds,
                                LowSize <- CntlSize, Calendar <- CalendarAt,
                                Blank <- NoCalendar, screen <- calendar,
                                setting <- open

\* For whom looks at the LCD the cache of the day is not there (rtc.c 232): in
\* every order of interrupts, settings and restarts the calendar is the one
\* that the loops would find for the counter, or for the counter 65536 seconds
\* ago when CNTL ran over between the two reads of RTC_Get.
RefinesClock == Wall!Spec

\* The date and the time that the user dials are the ones that the LCD shows
\* after OK (rtc.c 1286), if they exist and each field was touched before its
\* digits; untouched fields keep what they showed when the dialogue opened.
SetShown == want # NoTime /\ fresh => \A f \in Fields : calendar[f] = want[f]
=============================================================================
