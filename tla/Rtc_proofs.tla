----------------------------- MODULE Rtc_proofs -----------------------------
(***************************************************************************)
(* Proofs about Rtc.  What the loops of RTC_Get and RTC_Set compute is a   *)
(* finite matter and CalendarAssumption states it; what is proved here is  *)
(* that the cache of the day and the dialogue, in every order of readings, *)
(* settings, restarts and touches, always show what the loops would.       *)
(***************************************************************************)
EXTENDS Rtc, TLAPS

Calendar == [year : Nat, mon : 0 .. 12, day : 0 .. 31, hour : 0 .. 23, min : 0 .. 59,
             sec : 0 .. 59, week : 0 .. 6]

\* The date of the calendar is the one of day d, its time the one of second s.
ShowsDay(d) ==
  /\ calendar.year = Computed(d).year
  /\ calendar.mon = Computed(d).mon
  /\ calendar.day = Computed(d).day
  /\ calendar.week = RTC_Get_Week(calendar.year, calendar.mon, calendar.day)

ShowsSecond(s) ==
  /\ calendar.hour = Hour(s) /\ calendar.min = Minute(s) /\ calendar.sec = Second(s)

\* The counter and what was read of it.  The cached date is the one of daycnt,
\* whatever the counter does meanwhile.
CounterInv ==
  /\ day \in AllDays /\ sec \in Seconds
  /\ calendar \in Calendar /\ daycnt \in CounterDays \cup {0} /\ fresh \in BOOLEAN
  /\ Started => ShowsDay(daycnt)
  /\ fresh => Started /\ daycnt = day /\ ShowsSecond(sec)

\* The dialogue.  As long as it is clear what the user means, Set_time is that,
\* and set_value is what was dialled for the field that flashes.
DialogueInv ==
  /\ open \in BOOLEAN /\ begun \in BOOLEAN /\ spoilt \in BOOLEAN
  /\ open => Started
  /\ flag \in Fields \cup {"week"} /\ set_value \in 0 .. 99
  /\ Set_time \in [Fields -> Nat] /\ typed \in [Fields -> Nat]
  /\ Set_time["mon"] <= 12 /\ Set_time["hour"] <= 23
  /\ begun /\ flag # "week" => typed[flag] >= Century(flag)
  /\ ~spoilt => Set_time = typed
  /\ ~spoilt /\ begun /\ flag # "week" => set_value = typed[flag] - Century(flag)

\* What was set is on the LCD.
WantInv ==
  /\ ~Started => want = NoTime
  /\ SetShown

IInv == CounterInv /\ DialogueInv /\ WantInv

-----------------------------------------------------------------------------
(* The arithmetic of a day.                                                *)

LEMMA SecondsType == \A s \in Seconds : s \in Nat /\ s < 86400
<1>1. DaySeconds = 86400
  BY SMT DEF DaySeconds
<1>2. DaySeconds \in Int
  BY <1>1, SMT
<1>3. \A s \in Seconds : s \in Nat /\ s < DaySeconds
  BY <1>2, SMT DEF Seconds
<1> QED
  BY <1>1, <1>3, SMT

LEMMA SecondsIntro == \A s \in Nat : s < 86400 => s \in Seconds
<1>1. DaySeconds = 86400
  BY SMT DEF DaySeconds
<1>2. DaySeconds \in Int
  BY <1>1, SMT
<1>3. \A s \in Nat : s < DaySeconds => s \in Seconds
  BY <1>2, SMT DEF Seconds
<1> QED
  BY <1>1, <1>3, SMT

LEMMA TimeParts ==
  ASSUME NEW h \in Int, NEW m \in Nat, m < 60, NEW c \in Nat, c < 60
  PROVE  /\ Hour(SecondAt(h, m, c)) = h
         /\ Minute(SecondAt(h, m, c)) = m
         /\ Second(SecondAt(h, m, c)) = c
<1>1. PICK r \in Nat : r = 60 * m + c /\ r < 3600
  BY SMT
<1>2. PICK s : s = SecondAt(h, m, c)
  OBVIOUS
<1>3. s = 3600 * h + r /\ s = 60 * (60 * h + m) + c /\ s \in Int
  BY <1>1, <1>2, SMT DEF SecondAt
<1>4. s \div 3600 = h /\ s % 3600 = r
  BY <1>1, <1>3, SMT
<1>5. r \div 60 = m
  BY <1>1, SMT
<1>6. s % 60 = c
  BY <1>3, SMT
<1>7. (s % 3600) \div 60 = m
  BY <1>4, <1>5, SMT
<1>8. Hour(s) = h /\ Minute(s) = m /\ Second(s) = c
  BY <1>4, <1>6, <1>7, SMT DEF Hour, Minute, Second
<1> QED
  BY <1>2, <1>8, SMT

LEMMA SecondOfTime ==
  ASSUME NEW h \in Nat, h < 24, NEW m \in Nat, m < 60, NEW c \in Nat, c < 60
  PROVE  SecondAt(h, m, c) \in Seconds
<1>1. SecondAt(h, m, c) \in Nat /\ SecondAt(h, m, c) < 86400
  BY SMT DEF SecondAt
<1> QED
  BY <1>1, SecondsIntro, SMT

LEMMA TimeOfDay ==
  ASSUME NEW s \in Seconds
  PROVE  /\ Hour(s) \in 0 .. 23 /\ Minute(s) \in 0 .. 59 /\ Second(s) \in 0 .. 59
         /\ SecondAt(Hour(s), Minute(s), Second(s)) = s
<1>1. s \in Nat /\ s < 86400
  BY SecondsType, SMT
<1>2. PICK q \in Nat, c \in Nat : q = s \div 60 /\ c = s % 60
  <2>1. s \div 60 \in Nat /\ s % 60 \in Nat
    BY <1>1, SMT
  <2> QED
    BY <2>1
<1>3. PICK h \in Nat, m \in Nat : h = q \div 60 /\ m = q % 60
  <2>1. q \div 60 \in Nat /\ q % 60 \in Nat
    BY SMT
  <2> QED
    BY <2>1
<1>4. c < 60 /\ m < 60 /\ s = 60 * q + c /\ q = 60 * h + m
  BY <1>1, <1>2, <1>3, SMT
<1>5. s = SecondAt(h, m, c) /\ h < 24
  BY <1>1, <1>4, SMT DEF SecondAt
<1>6. Hour(s) = h /\ Minute(s) = m /\ Second(s) = c
  BY <1>4, <1>5, TimeParts, SMT
<1> QED
  BY <1>4, <1>5, <1>6, SMT

LEMMA SmallSecond ==
  ASSUME NEW d \in Int, NEW s \in Seconds
  PROVE  DayOf(d, s) = d /\ SecOf(s) = s
<1>1. s \in Nat /\ s < 86400
  BY SecondsType, SMT
<1>2. s \div 86400 = 0 /\ s % 86400 = s
  BY <1>1, SMT
<1> QED
  BY <1>2, SMT DEF DayOf, SecOf, DaySeconds

LEMMA DayAndSecond ==
  ASSUME NEW d \in Int, NEW s \in Int
  PROVE  DayOf(d, s) \in Int /\ SecOf(s) \in Seconds
<1>1. s \div 86400 \in Int /\ s % 86400 \in Nat /\ s % 86400 < 86400
  BY SMT
<1>2. SecOf(s) \in Nat /\ SecOf(s) < 86400
  BY <1>1, SMT DEF SecOf, DaySeconds
<1>3. DayOf(d, s) \in Int
  BY <1>1, SMT DEF DayOf, DaySeconds
<1> QED
  BY <1>2, <1>3, SecondsIntro, SMT

\* What CalendarAssumption says of one day.
LEMMA Conversion == \A d \in CounterDays : DateRight(d, Computed(d))
BY CalendarAssumption DEF ConversionRight

LEMMA WeekType ==
  ASSUME NEW y \in Nat, NEW m \in 1 .. 12, NEW d \in Nat
  PROVE  RTC_Get_Week(y, m, d) \in 0 .. 6
<1>1. table_week[m] \in Int
  BY DEF table_week
<1> QED
  BY <1>1 DEF RTC_Get_Week

-----------------------------------------------------------------------------
(* RTC_Get: the reading, with the date from the cache or from the loops.   *)

LEMMA ReadShows ==
  ASSUME CounterInv, NEW d, NEW s \in Seconds, Read(d, s)
  PROVE  /\ d \in CounterDays /\ daycnt' = d
         /\ calendar' \in Calendar
         /\ ShowsDay(d)' /\ ShowsSecond(s)'
<1>1. d \in CounterDays /\ daycnt' = d
  BY DEF Read
<1>2. /\ Date(d).year = Computed(d).year /\ Date(d).mon = Computed(d).mon
      /\ Date(d).day = Computed(d).day
  <2>1. CASE d = daycnt
    <3>1. Started
      BY <1>1, <2>1 DEF Started, CounterDays
    <3>2. ShowsDay(daycnt)
      BY <3>1 DEF CounterInv
    <3> QED
      BY <2>1, <3>2 DEF Date, ShowsDay
  <2>2. CASE d # daycnt
    BY <2>2 DEF Date
  <2> QED
    BY <2>1, <2>2
<1> DEFINE y == Date(d).year  m == Date(d).mon  c == Date(d).day
<1>3. y \in Nat /\ m \in 1 .. 12 /\ c \in 1 .. 31
  BY <1>1, <1>2, Conversion DEF AllYears, DateRight
<1>4. calendar' = [year |-> y, mon |-> m, day |-> c, hour |-> Hour(s),
                   min |-> Minute(s), sec |-> Second(s),
                   week |-> RTC_Get_Week(y, m, c)]
  BY DEF Read
<1> HIDE DEF y, m, c
<1>5. RTC_Get_Week(y, m, c) \in 0 .. 6
  BY <1>3, WeekType
<1>6. calendar' \in Calendar
  BY <1>3, <1>4, <1>5, TimeOfDay DEF Calendar
<1>7. ShowsDay(d)'
  BY <1>2, <1>4 DEF ShowsDay, y, m, c
<1>8. ShowsSecond(s)'
  BY <1>4 DEF ShowsSecond
<1> QED
  BY <1>1, <1>6, <1>7, <1>8

\* A second passes while the counter is read: the day read is the day that the
\* counter then has, or the one before.
LEMMA TornDay ==
  ASSUME NEW d \in Int, NEW s \in Int
  PROVE  DayOf(d, s + 1) - DayOf(d, s + 1 - CntlSize) \in 0 .. 1
<1>1. PICK q \in Int : q = (s + 1) \div 86400
  BY SMT
<1>2. PICK p \in Int : p = (s - 65535) \div 86400
  BY SMT
<1>3. q - p \in 0 .. 1
  BY <1>1, <1>2, SMT
<1>4. DayOf(d, s + 1) = d + q /\ DayOf(d, s + 1 - CntlSize) = d + p
  BY <1>1, <1>2, SMT DEF DayOf, DaySeconds, CntlSize
<1> QED
  BY <1>3, <1>4, SMT

LEMMA DaysType ==
  /\ LastDay \in Nat
  /\ \A d \in CounterDays : d \in Nat /\ d # 0 /\ d \in AllDays /\ d + 1 \in AllDays
  /\ \A d \in AllDays : d \in Nat
<1>1. LastDay \in Nat
  BY SMT DEF LastDay
<1> QED
  BY <1>1, SMT DEF CounterDays, AllDays

LEMMA GetKeeps ==
  ASSUME CounterInv, NEW d \in Int, NEW s \in Seconds, RTC_Get(d, s)
  PROVE  /\ CounterInv' /\ Started'
         /\ fresh' => day' = d /\ sec' = s
<1>1. CASE Read(d, s) /\ day' = d /\ sec' = s /\ fresh' = TRUE
  <2>1. /\ d \in CounterDays /\ daycnt' = d /\ calendar' \in Calendar
        /\ ShowsDay(d)' /\ ShowsSecond(s)'
    BY <1>1, ReadShows
  <2>2. d \in AllDays /\ d # 0
    BY <2>1, DaysType
  <2>3. ShowsDay(daycnt)' /\ ShowsSecond(sec)'
    BY <1>1, <2>1 DEF ShowsDay, ShowsSecond
  <2> QED
    BY <1>1, <2>1, <2>2, <2>3 DEF CounterInv, Started
<1>2. CASE /\ Read(DayOf(d, s + 1 - CntlSize), SecOf(s + 1 - CntlSize))
           /\ day' = DayOf(d, s + 1) /\ sec' = SecOf(s + 1)
           /\ fresh' = FALSE
  <2>e. PICK e : e = DayOf(d, s + 1 - CntlSize)
    OBVIOUS
  <2>r. PICK r : r = SecOf(s + 1 - CntlSize)
    OBVIOUS
  <2>1. s \in Int /\ s + 1 \in Int /\ s + 1 - CntlSize \in Int
    BY SecondsType, SMT DEF CntlSize
  <2>2. e \in Int /\ r \in Seconds /\ DayOf(d, s + 1) \in Int /\ sec' \in Seconds
    BY <1>2, <2>1, <2>e, <2>r, DayAndSecond
  <2>3. day' - e \in 0 .. 1
    BY <1>2, <2>1, <2>e, TornDay
  <2>4. Read(e, r)
    BY <1>2, <2>e, <2>r
  <2>5. /\ e \in CounterDays /\ daycnt' = e /\ calendar' \in Calendar /\ ShowsDay(e)'
    BY <2>2, <2>4, ReadShows
  <2>6. day' \in AllDays /\ e # 0
    <3>1. day' = e \/ day' = e + 1
      BY <1>2, <2>2, <2>3, SMT
    <3> QED
      BY <2>5, <3>1, DaysType
  <2>7. ShowsDay(daycnt)'
    BY <2>5 DEF ShowsDay
  <2> QED
    BY <1>2, <2>2, <2>5, <2>6, <2>7 DEF CounterInv, Started
<1> QED
  BY <1>1, <1>2 DEF RTC_Get

-----------------------------------------------------------------------------
(* RTC_Set.                                                                *)

LEMMA SetDaysType ==
  ASSUME NEW t, t.year \in SetYears, t.mon \in 0 .. 12, t.day \in Nat
  PROVE  \A d \in SetDays(t) : d \in Int
<1>1. SetRight
  BY CalendarAssumption
<1>2. /\ YearDays[t.year] \in Nat
      /\ t.mon # 0 => MonthStart(t.year, t.mon) \in Nat
  <2>1. \A m \in 1 .. 12 : YearDays[t.year] \in Nat /\ MonthStart(t.year, m) \in Nat
    BY <1>1 DEF SetRight
  <2>2. t.mon # 0 => t.mon \in 1 .. 12
    BY SMT
  <2>3. 1 \in 1 .. 12
    BY SMT
  <2> QED
    BY <2>1, <2>2, <2>3
<1>3. Garbage \subseteq Nat
  BY RtcAssumption
<1> QED
  BY <1>2, <1>3 DEF SetDays, DayNumber

LEMMA SetKeeps ==
  ASSUME CounterInv, NEW t, Started \/ t.year \in SetYears, t.mon \in 0 .. 12, t.day \in Nat,
         t.hour \in Nat, t.min \in Nat, t.sec \in Nat, RTC_Set(t)
  PROVE  CounterInv' /\ Started'
<1>1. CASE t.year \notin SetYears /\ UNCHANGED <<counter, reading>>
  BY <1>1 DEF CounterInv, Started, ShowsDay, ShowsSecond, counter, reading
<1>2. ASSUME t.year \in SetYears,
             NEW d \in SetDays(t), NEW s, s = SecondAt(t.hour, t.min, t.sec),
             RTC_Get(DayOf(d, s), SecOf(s))
      PROVE  CounterInv' /\ Started'
  <2>1. d \in Int
    BY <1>2, SetDaysType
  <2>2. s \in Int
    BY <1>2, SMT DEF SecondAt
  <2> QED
    BY <1>2, <2>1, <2>2, DayAndSecond, GetKeeps
<1> QED
  BY <1>1, <1>2 DEF RTC_Set

\* A date and a time that exist are shown when they have been set.
LEMMA SetShows ==
  ASSUME CounterInv, NEW t, Real(t), t.day \in Nat, t.hour \in Nat, t.hour <= 23,
         t.min \in Nat, t.sec \in Nat, RTC_Set(t), fresh'
  PROVE  /\ calendar'.year = t.year /\ calendar'.mon = t.mon /\ calendar'.day = t.day
         /\ calendar'.hour = t.hour /\ calendar'.min = t.min /\ calendar'.sec = t.sec
<1> DEFINE s == SecondAt(t.hour, t.min, t.sec)
           n == DayNumber(t.year, t.mon, t.day)
<1>1. t.year \in SetYears /\ t.mon \in 1 .. 12 /\ t.day \in 1 .. MonthDays(t.year, t.mon)
      /\ t.min < 60 /\ t.sec < 60
  BY DEF Real
<1>2. /\ s \in Seconds
      /\ Hour(s) = t.hour /\ Minute(s) = t.min /\ Second(s) = t.sec
  BY <1>1, SecondOfTime, TimeParts, SMT
<1>3. n \in Int /\ SetDays(t) = {n}
  <2>1. SetDays(t) = {n}
    BY <1>1 DEF SetDays
  <2>2. t.mon \in 0 .. 12
    BY <1>1, SMT
  <2> QED
    BY <1>1, <2>1, <2>2, SetDaysType
<1>4. RTC_Get(DayOf(n, s), SecOf(s))
  BY <1>1, <1>3 DEF RTC_Set
<1> HIDE DEF s, n
<1>5. RTC_Get(n, s)
  BY <1>2, <1>3, <1>4, SmallSecond
<1>6. CounterInv' /\ day' = n /\ sec' = s
  BY <1>2, <1>3, <1>5, GetKeeps
<1>7. daycnt' = n /\ ShowsDay(n)' /\ ShowsSecond(s)' /\ n \in CounterDays
  BY <1>6 DEF CounterInv, Started, ShowsDay, ShowsSecond
<1>8. Computed(n) = [year |-> t.year, mon |-> t.mon, day |-> t.day]
  BY <1>1, <1>7, CalendarAssumption DEF SetRight, n
<1> QED
  BY <1>2, <1>7, <1>8 DEF ShowsDay, ShowsSecond

-----------------------------------------------------------------------------
(* The dialogue.                                                           *)

LEMMA FieldsDef ==
  /\ "year" \in Fields /\ "mon" \in Fields /\ "day" \in Fields
  /\ "hour" \in Fields /\ "min" \in Fields /\ "sec" \in Fields
  /\ "week" \notin Fields
BY DEF Fields

LEMMA LimitType ==
  ASSUME NEW f \in Fields
  PROVE  Limit(f) \in 1 .. 100 /\ Century(f) \in Nat
BY DEF Fields, Limit, Century

LEMMA AppendedType ==
  ASSUME DialogueInv, NEW f \in Fields, NEW d \in Digits
  PROVE  /\ Appended(f, d) \in 0 .. 99 /\ Appended(f, d) < Limit(f)
         /\ d \in Nat /\ d < 10
<1>1. d \in Nat /\ d < 10
  BY RtcAssumption
<1>2. set_value \in Nat
  BY DEF DialogueInv
<1> QED
  BY <1>1, <1>2, LimitType DEF Appended

LEMMA DigitKeeps ==
  ASSUME DialogueInv, NEW d \in Digits, Digit(d)
  PROVE  DialogueInv'
<1>1. /\ flag \in Fields /\ flag' = flag /\ flag # "week" /\ begun' = TRUE
      /\ open' = open /\ Started' = Started
      /\ typed' = [typed EXCEPT ![flag] = Century(flag) + Meant(flag) * 10 + d]
      /\ Set_time' = [Set_time EXCEPT ![flag] = Century(flag) + Appended(flag, d)]
      /\ set_value' = Appended(flag, d)
  BY DEF Digit, Touch, DialogueInv, Started, reading
<1> DEFINE a == Appended(flag, d)  n == Meant(flag) * 10 + d  c == Century(flag)
<1>2. a \in 0 .. 99 /\ a < Limit(flag) /\ d \in Nat /\ d < 10
  BY <1>1, AppendedType
<1>3. c \in Nat /\ Limit(flag) \in 1 .. 100
  BY <1>1, LimitType
<1>4. Meant(flag) \in Nat
  <2>1. typed[flag] \in Nat /\ (begun => typed[flag] >= Century(flag))
    BY <1>1 DEF DialogueInv
  <2> QED
    BY <1>3, <2>1 DEF Meant
<1>5. n \in Nat
  BY <1>2, <1>4
<1>6. ~spoilt' => a = n /\ ~spoilt
  <2> SUFFICES ASSUME ~spoilt' PROVE a = n /\ ~spoilt
    OBVIOUS
  <2>1. ~spoilt /\ n < Limit(flag) /\ (begun \/ set_value = 0)
    BY <1>2, <1>3, <1>5 DEF Digit
  <2>2. set_value = Meant(flag)
    BY <1>1, <2>1 DEF DialogueInv, Meant
  <2> QED
    BY <2>1, <2>2 DEF Appended
<1>7. spoilt' \in BOOLEAN
  BY Zenon DEF Digit
<1>8. Set_time \in [Fields -> Nat] /\ typed \in [Fields -> Nat]
  BY DEF DialogueInv
<1>a. typed' = [typed EXCEPT ![flag] = c + n] /\ Set_time' = [Set_time EXCEPT ![flag] = c + a]
  <2>1. Century(flag) + Meant(flag) * 10 + d = c + n
    BY <1>2, <1>3, <1>4
  <2> QED
    BY <1>1, <2>1, Zenon
<1> HIDE DEF a, n, c
<1>9. Set_time' \in [Fields -> Nat] /\ typed' \in [Fields -> Nat]
  BY <1>1, <1>2, <1>3, <1>5, <1>8, <1>a
<1>10. typed'[flag] = c + n /\ Set_time'[flag] = c + a
  BY <1>1, <1>8, <1>a
<1>11. ~spoilt' => Set_time' = typed'
  <2>1. ~spoilt => Set_time = typed
    BY DEF DialogueInv
  <2> QED
    BY <1>6, <1>a, <2>1, Zenon
<1>12. Set_time'["mon"] <= 12 /\ Set_time'["hour"] <= 23
  <2>1. Set_time["mon"] <= 12 /\ Set_time["hour"] <= 23
    BY DEF DialogueInv
  <2>2. CASE flag = "mon"
    <3>1. Limit(flag) = 13 /\ c = 0
      BY <2>2 DEF Limit, Century, c
    <3> QED
      BY <1>1, <1>a, <1>2, <1>8, <2>1, <2>2, <3>1, FieldsDef
  <2>3. CASE flag = "hour"
    <3>1. Limit(flag) = 24 /\ c = 0
      BY <2>3 DEF Limit, Century, c
    <3> QED
      BY <1>1, <1>a, <1>2, <1>8, <2>1, <2>3, <3>1, FieldsDef
  <2>4. CASE flag # "mon" /\ flag # "hour"
    BY <1>1, <1>8, <1>a, <2>1, <2>4, FieldsDef
  <2> QED
    BY <2>2, <2>3, <2>4
<1>13. typed'[flag] >= c
  BY <1>3, <1>5, <1>10
<1>14. ~spoilt' => set_value' = typed'[flag] - c
  BY <1>1, <1>2, <1>3, <1>5, <1>6, <1>10 DEF a
<1>15. Started' = Started /\ (open => Started) /\ open \in BOOLEAN
  BY <1>1 DEF DialogueInv
<1> QED
  BY <1>1, <1>2, <1>7, <1>9, <1>11, <1>12, <1>13, <1>14, <1>15 DEF DialogueInv, a, c

LEMMA FieldKeepsDialogue ==
  ASSUME DialogueInv, NEW f \in Fields, Field(f)
  PROVE  DialogueInv'
<1>1. /\ flag' = f /\ f # "week" /\ begun' = TRUE /\ spoilt' = spoilt
      /\ open' = open /\ Started' = Started /\ set_value' = 0
      /\ typed' = [typed EXCEPT ![f] = Century(f)]
      /\ Set_time' = [Set_time EXCEPT ![f] = Century(f)]
  BY FieldsDef DEF Field, Touch, DialogueInv, Started, reading, Century
<1>2. Century(f) \in Nat /\ (f # "year" => Century(f) = 0)
  BY LimitType DEF Century
<1>3. Set_time' \in [Fields -> Nat] /\ typed' \in [Fields -> Nat]
  BY <1>1, <1>2 DEF DialogueInv
<1>4. typed'[f] = Century(f)
  BY <1>1 DEF DialogueInv
<1>5. Set_time'["mon"] <= 12 /\ Set_time'["hour"] <= 23
  BY <1>1, <1>2, FieldsDef DEF DialogueInv
<1>6. ~spoilt' => Set_time' = typed'
  BY <1>1 DEF DialogueInv
<1> QED
  BY <1>1, <1>2, <1>3, <1>4, <1>5, <1>6 DEF DialogueInv

LEMMA OtherTouches ==
  ASSUME DialogueInv, Week \/ WeekDigit
  PROVE  DialogueInv'
<1>1. /\ open' = open /\ begun' = TRUE /\ spoilt' = spoilt /\ Started' = Started
      /\ flag' = "week" /\ set_value' \in {0, set_value}
      /\ Set_time' = Set_time /\ typed' = typed
  BY DEF Week, WeekDigit, Touch, Started, reading
<1>2. open' \in BOOLEAN /\ begun' \in BOOLEAN /\ spoilt' \in BOOLEAN
  BY <1>1, Zenon DEF DialogueInv
<1> QED
  BY <1>1, <1>2 DEF DialogueInv

LEMMA CalendarFields ==
  ASSUME CounterInv
  PROVE  /\ [f \in Fields |-> calendar[f]] \in [Fields -> Nat]
         /\ calendar["mon"] <= 12 /\ calendar["hour"] <= 23
<1>1. \A f \in Fields : calendar[f] \in Nat
  BY DEF CounterInv, Calendar, Fields
<1>2. calendar["mon"] <= 12 /\ calendar["hour"] <= 23
  BY DEF CounterInv, Calendar
<1> QED
  BY <1>1, <1>2

LEMMA OpenKeeps ==
  ASSUME CounterInv, DialogueInv, Open
  PROVE  DialogueInv'
<1>1. /\ open' = TRUE /\ begun' = FALSE /\ spoilt' = FALSE /\ Started'
      /\ flag' = flag /\ set_value' = set_value
      /\ typed' = Set_time' /\ Set_time' = [f \in Fields |-> calendar[f]]
  BY DEF Open, Started, reading
<1>2. /\ Set_time' \in [Fields -> Nat]
      /\ Set_time'["mon"] <= 12 /\ Set_time'["hour"] <= 23
  BY <1>1, CalendarFields, FieldsDef
<1> QED
  BY <1>1, <1>2 DEF DialogueInv

LEMMA CloseKeeps ==
  ASSUME DialogueInv, Close, Started'
  PROVE  DialogueInv'
<1>1. NoTime \in [Fields -> Nat] /\ NoTime["mon"] = 0 /\ NoTime["hour"] = 0
  BY FieldsDef DEF NoTime
<1>2. /\ open' = FALSE /\ begun' = FALSE /\ spoilt' = FALSE
      /\ flag' = flag /\ set_value' = set_value /\ Set_time' = NoTime /\ typed' = NoTime
  BY DEF Close
<1>3. NoTime["mon"] <= 12 /\ NoTime["hour"] <= 23
  BY <1>1
<1> QED
  BY <1>1, <1>2, <1>3, Zenon DEF DialogueInv

-----------------------------------------------------------------------------
(* The invariant.                                                          *)

LEMMA StaticsInv ==
  ASSUME day \in CounterDays, sec \in Seconds, Statics
  PROVE  IInv
<1>1. CounterInv
  <2>1. day \in AllDays
    BY DaysType
  <2>2. NoCalendar \in Calendar
    BY DEF NoCalendar, Calendar
  <2> QED
    BY <2>1, <2>2 DEF CounterInv, Statics, Started
<1>2. DialogueInv
  <2>1. NoTime \in [Fields -> Nat] /\ NoTime["mon"] <= 12 /\ NoTime["hour"] <= 23
    BY FieldsDef DEF NoTime
  <2>2. 0 \in 0 .. 99
    BY SMT
  <2> QED
    BY <2>1, <2>2, FieldsDef, Zenon DEF DialogueInv, Statics
<1>3. WantInv
  BY DEF WantInv, SetShown, Statics
<1> QED
  BY <1>1, <1>2, <1>3 DEF IInv

\* The same in the next state, for Restart.
LEMMA StaticsInvNext ==
  ASSUME day' \in CounterDays, sec' \in Seconds, Statics'
  PROVE  IInv'
<1>1. CounterInv'
  <2>1. day' \in AllDays
    BY DaysType
  <2>2. NoCalendar \in Calendar
    BY DEF NoCalendar, Calendar
  <2> QED
    BY <2>1, <2>2 DEF CounterInv, Statics, Started
<1>2. DialogueInv'
  <2>1. NoTime \in [Fields -> Nat] /\ NoTime["mon"] <= 12 /\ NoTime["hour"] <= 23
    BY FieldsDef DEF NoTime
  <2>2. 0 \in 0 .. 99
    BY SMT
  <2> QED
    BY <2>1, <2>2, FieldsDef, Zenon DEF DialogueInv, Statics
<1>3. WantInv'
  BY DEF WantInv, SetShown, Statics
<1> QED
  BY <1>1, <1>2, <1>3 DEF IInv

LEMMA InitInv == Init => IInv
<1>1. {0, 86399} \subseteq Seconds
  BY SecondsIntro, SMT
<1> QED
  BY <1>1, StartAssumption, StaticsInv DEF Init

\* A step that only touches the dialogue.
LEMMA SameCounter ==
  ASSUME IInv, UNCHANGED <<counter, reading, want>>
  PROVE  CounterInv' /\ WantInv'
<1>1. CounterInv'
  BY DEF IInv, CounterInv, counter, reading, Started, ShowsDay, ShowsSecond
<1>2. WantInv'
  BY DEF IInv, WantInv, counter, reading, Started, SetShown
<1> QED
  BY <1>1, <1>2

\* Whether RTC_Init reads or sets the counter, it shows a calendar at last.
LEMMA InitReads ==
  ASSUME IInv, RTC_Init
  PROVE  CounterInv' /\ Started'
<1>1. CASE RTC_Get(day, sec)
  <2>1. day \in Int /\ sec \in Seconds
    BY DaysType, SMT DEF IInv, CounterInv
  <2> QED
    BY <1>1, <2>1, GetKeeps DEF IInv
<1>2. CASE RTC_Set(FirstTime)
  <2>1. FirstTime.year \in SetYears /\ FirstTime.mon \in 0 .. 12 /\ FirstTime.day \in Nat
        /\ FirstTime.hour \in Nat /\ FirstTime.min \in Nat /\ FirstTime.sec \in Nat
    BY DEF FirstTime, SetYears
  <2> QED
    BY <1>2, <2>1, SetKeeps DEF IInv
<1> QED
  BY <1>1, <1>2 DEF RTC_Init

LEMMA InitStep ==
  ASSUME IInv, RTC_Init
  PROVE  IInv'
<1>1. CounterInv' /\ Started'
  BY InitReads
<1>2. DialogueInv'
  BY <1>1 DEF IInv, DialogueInv, RTC_Init, dialogue
<1>3. WantInv'
  BY <1>1 DEF IInv, WantInv, SetShown, RTC_Init
<1> QED
  BY <1>1, <1>2, <1>3 DEF IInv

LEMMA RestartStep ==
  ASSUME IInv, NEW s \in Spans, Restart(s)
  PROVE  IInv'
<1>1. sec + s \in Int
  <2>1. sec \in Int /\ s \in Nat
    BY RtcAssumption, SecondsType DEF IInv, CounterInv
  <2> QED
    BY <2>1
<1>2. day \in Int
  BY DaysType, SMT DEF IInv, CounterInv
<1>3. day' \in CounterDays /\ sec' \in Seconds
  BY <1>1, <1>2, DayAndSecond DEF Restart
<1>4. Statics'
  BY DEF Restart, Statics
<1> QED
  BY <1>3, <1>4, StaticsInvNext

LEMMA ElapseStep ==
  ASSUME IInv, NEW s \in Spans, Elapse(s)
  PROVE  IInv'
<1>1. sec + s \in Int
  <2>1. sec \in Int /\ s \in Nat
    BY RtcAssumption, SecondsType DEF IInv, CounterInv
  <2> QED
    BY <2>1
<1>2. day \in Int
  BY DaysType, SMT DEF IInv, CounterInv
<1>3. day' \in CounterDays /\ sec' \in Seconds /\ day' \in AllDays
  BY <1>1, <1>2, DayAndSecond, DaysType DEF Elapse
<1>4. CounterInv' /\ Started'
  <2>1. CASE open
    <3>1. fresh' = FALSE /\ calendar' = calendar /\ daycnt' = daycnt /\ Started
      BY <2>1 DEF Elapse
    <3> QED
      BY <1>3, <3>1 DEF IInv, CounterInv, Started, ShowsDay
  <2>2. CASE ~open
    <3>1. PICK d : d = day'
      OBVIOUS
    <3>2. PICK r \in Seconds : r = sec'
      BY <1>3
    <3>3. Read(d, r) /\ fresh' = TRUE
      BY <2>2, <3>1, <3>2 DEF Elapse
    <3>4. /\ d \in CounterDays /\ daycnt' = d /\ calendar' \in Calendar
          /\ ShowsDay(d)' /\ ShowsSecond(r)'
      BY <3>3, ReadShows DEF IInv
    <3>5. ShowsDay(daycnt)' /\ ShowsSecond(sec)'
      BY <3>2, <3>4 DEF ShowsDay, ShowsSecond
    <3>6. d # 0
      BY <3>4, DaysType
    <3> QED
      BY <1>3, <3>1, <3>3, <3>4, <3>5, <3>6 DEF CounterInv, Started
  <2> QED
    BY <2>1, <2>2
<1>5. DialogueInv'
  BY <1>4 DEF IInv, DialogueInv, Elapse, dialogue
<1>6. WantInv'
  BY <1>4 DEF WantInv, SetShown, Elapse
<1> QED
  BY <1>4, <1>5, <1>6 DEF IInv

LEMMA OKStep ==
  ASSUME IInv, OK
  PROVE  IInv'
<1>1. /\ Set_time.mon \in 0 .. 12 /\ Set_time.day \in Nat /\ Set_time.min \in Nat
      /\ Set_time.hour \in Nat /\ Set_time.hour <= 23 /\ Set_time.sec \in Nat
  BY FieldsDef DEF IInv, DialogueInv
<1>2. RTC_Set(Set_time) /\ Started
  BY DEF OK, Close, IInv, DialogueInv
<1>3. CounterInv' /\ Started'
  BY <1>1, <1>2, SetKeeps DEF IInv
<1>4. DialogueInv'
  BY <1>3, CloseKeeps DEF OK, IInv
<1>5. SetShown'
  <2> SUFFICES ASSUME want' # NoTime, fresh'
               PROVE  \A f \in Fields : calendar'[f] = want'[f]
    BY DEF SetShown
  <2>1. ~spoilt /\ Real(typed) /\ want' = typed
    BY DEF OK
  <2>2. Set_time = typed
    BY <2>1 DEF IInv, DialogueInv
  <2>3. PICK t : t = Set_time
    OBVIOUS
  <2>4. /\ calendar'.year = t.year /\ calendar'.mon = t.mon /\ calendar'.day = t.day
        /\ calendar'.hour = t.hour /\ calendar'.min = t.min /\ calendar'.sec = t.sec
    BY <1>1, <1>2, <2>1, <2>2, <2>3, SetShows DEF IInv
  <2> QED
    BY <2>1, <2>2, <2>3, <2>4 DEF Fields
<1> QED
  BY <1>3, <1>4, <1>5 DEF IInv, WantInv

LEMMA NextInv == IInv /\ [Next]_vars => IInv'
<1> SUFFICES ASSUME IInv, [Next]_vars PROVE IInv'
  OBVIOUS
<1>1. CASE RTC_Init
  BY <1>1, InitStep
<1>2. ASSUME NEW s \in Spans, Elapse(s) \/ Restart(s) PROVE IInv'
  BY <1>2, ElapseStep, RestartStep
<1>3. CASE Open
  BY <1>3, OpenKeeps, SameCounter DEF Open, IInv
<1>4. CASE Week \/ WeekDigit
  BY <1>4, OtherTouches, SameCounter DEF Week, WeekDigit, IInv
<1>5. CASE Cancel
  <2>1. UNCHANGED <<counter, reading, want>> /\ Close /\ open
    BY <1>5 DEF Cancel, Close
  <2>2. Started'
    BY <2>1 DEF IInv, DialogueInv, Started, reading
  <2> QED
    BY <2>1, <2>2, CloseKeeps, SameCounter DEF IInv
<1>6. CASE OK
  BY <1>6, OKStep
<1>7. ASSUME NEW f \in Fields, Field(f) PROVE IInv'
  BY <1>7, FieldKeepsDialogue, SameCounter DEF Field, IInv
<1>8. ASSUME NEW d \in Digits, Digit(d) PROVE IInv'
  BY <1>8, DigitKeeps, SameCounter DEF Digit, IInv
<1>9. CASE UNCHANGED vars
  <2>1. UNCHANGED <<counter, reading, want>> /\ UNCHANGED dialogue
    BY <1>9 DEF vars
  <2>2. DialogueInv'
    BY <2>1 DEF IInv, DialogueInv, dialogue, reading, Started
  <2> QED
    BY <2>1, <2>2, SameCounter DEF IInv
<1> QED
  BY <1>1, <1>2, <1>3, <1>4, <1>5, <1>6, <1>7, <1>8, <1>9 DEF Next, Set_Time

-----------------------------------------------------------------------------
(* Theorems.                                                               *)

LEMMA Invariance == Spec => []IInv
BY InitInv, NextInv, PTL DEF Spec

\* The counter, the calendar and the dialogue stay in their ranges, whatever
\* the user dials and wherever the counter is (rtc.c 138, 226, 338).
THEOREM TypeCorrect == Spec => []TypeOK
<1>1. IInv => TypeOK
  <2> SUFFICES ASSUME IInv PROVE TypeOK
    OBVIOUS
  <2>1. \A d \in CounterDays \cup {0} : d \in AllDays
    <3>1. 0 \in AllDays
      BY DaysType, SMT DEF AllDays
    <3> QED
      BY <3>1, DaysType
  <2>2. \A f \in Fields : Set_time[f] \in Nat /\ typed[f] \in Nat
    BY DEF IInv, DialogueInv
  <2> QED
    BY <2>1, <2>2 DEF IInv, CounterInv, DialogueInv, Calendar, TypeOK
<1> QED
  BY <1>1, Invariance, PTL

\* The calendar that was read last is the one of the counter: the cache of the
\* day never shows a date that is not the counter's (rtc.c 226-276).
THEOREM CalendarIsRight == Spec => []CalendarRight
<1>1. IInv => CalendarRight
  <2> SUFFICES ASSUME IInv, fresh, calendar.year < 2100
               PROVE  /\ calendar.mon \in 1 .. 12
                      /\ calendar.day \in 1 .. MonthDays(calendar.year, calendar.mon)
                      /\ JulianDay(calendar.year, calendar.mon, calendar.day) = day
                      /\ SecondAt(calendar.hour, calendar.min, calendar.sec) = sec
                      /\ calendar.week = (day + 4) % 7
    BY DEF CalendarRight
  <2>1. daycnt = day /\ day \in CounterDays /\ ShowsDay(day) /\ ShowsSecond(sec)
    BY DEF IInv, CounterInv, Started, ShowsDay
  <2>2. DateRight(day, Computed(day))
    BY <2>1, Conversion
  <2>3. SecondAt(Hour(sec), Minute(sec), Second(sec)) = sec
    BY TimeOfDay DEF IInv, CounterInv
  <2> QED
    BY <2>1, <2>2, <2>3 DEF DateRight, ShowsDay, ShowsSecond
<1> QED
  BY <1>1, Invariance, PTL

\* What the user dialled is what the LCD shows after OK, for every date that
\* exists and every order of touches (rtc.c 338-1302).
THEOREM SetIsShown == Spec => []SetShown
<1>1. IInv => SetShown
  BY DEF IInv, WantInv
<1> QED
  BY <1>1, Invariance, PTL

-----------------------------------------------------------------------------
(* The clock without the cache.                                            *)

\* Calendars that agree in every field are the same.
LEMMA SameCalendar ==
  ASSUME NEW c \in Calendar, NEW d \in CounterDays, NEW s,
         c.year = Computed(d).year, c.mon = Computed(d).mon, c.day = Computed(d).day,
         c.week = RTC_Get_Week(c.year, c.mon, c.day),
         c.hour = Hour(s), c.min = Minute(s), c.sec = Second(s)
  PROVE  c = CalendarAt(d, s)
<1>1. c = [year |-> c.year, mon |-> c.mon, day |-> c.day, hour |-> c.hour, min |-> c.min,
           sec |-> c.sec, week |-> c.week]
  BY DEF Calendar
<1> QED
  BY <1>1 DEF CalendarAt

\* A reading shows what the loops find for the second that is read.
LEMMA ReadIsCalendarAt ==
  ASSUME CounterInv, NEW d, NEW s \in Seconds, Read(d, s)
  PROVE  d \in CounterDays /\ calendar' = CalendarAt(d, s)
<1>1. /\ d \in CounterDays /\ calendar' \in Calendar
      /\ ShowsDay(d)' /\ ShowsSecond(s)'
  BY ReadShows
<1> QED
  BY <1>1, SameCalendar DEF ShowsDay, ShowsSecond

\* What a torn reading shows was right CntlSize seconds ago.
LEMMA TornSecond ==
  ASSUME NEW d \in Int, NEW s \in Int, NEW k, k = DayOf(d, s + 1) - DayOf(d, s + 1 - CntlSize)
  PROVE  SecOf(s + 1 - CntlSize) = SecOf(s + 1) + k * DaySeconds - CntlSize
<1>1. PICK q \in Int, a \in Int : q = (s + 1) \div 86400 /\ a = (s + 1) % 86400
  BY SMT
<1>2. PICK p \in Int, b \in Int : p = (s - 65535) \div 86400 /\ b = (s - 65535) % 86400
  BY SMT
<1>3. s + 1 = 86400 * q + a /\ s - 65535 = 86400 * p + b
  BY <1>1, <1>2, SMT
<1>4. DayOf(d, s + 1) = d + q /\ DayOf(d, s + 1 - CntlSize) = d + p
      /\ SecOf(s + 1) = a /\ SecOf(s + 1 - CntlSize) = b
  BY <1>1, <1>2, SMT DEF DayOf, SecOf, DaySeconds, CntlSize
<1>5. k = q - p
  BY <1>4, SMT
<1>6. b = a + (q - p) * 86400 - 65536
  BY <1>3, SMT
<1> QED
  BY <1>4, <1>5, <1>6, SMT DEF DaySeconds, CntlSize

LEMMA GetRefines ==
  ASSUME CounterInv, NEW d \in Int, NEW s \in Seconds, RTC_Get(d, s)
  PROVE  Wall!Exact \/ Wall!Torn
<1>1. CASE Read(d, s) /\ day' = d /\ sec' = s /\ fresh' = TRUE
  BY <1>1, ReadIsCalendarAt DEF Wall!Exact
<1>2. CASE /\ Read(DayOf(d, s + 1 - CntlSize), SecOf(s + 1 - CntlSize))
           /\ day' = DayOf(d, s + 1) /\ sec' = SecOf(s + 1)
           /\ fresh' = FALSE
  <2>e. PICK e : e = DayOf(d, s + 1 - CntlSize)
    OBVIOUS
  <2>r. PICK r : r = SecOf(s + 1 - CntlSize)
    OBVIOUS
  <2>1. s \in Int /\ s + 1 \in Int /\ s + 1 - CntlSize \in Int
    BY SecondsType, SMT DEF CntlSize
  <2>2. e \in Int /\ r \in Seconds /\ day' \in Int /\ sec' \in Seconds
    BY <1>2, <2>1, <2>e, <2>r, DayAndSecond
  <2>3. PICK k \in 0 .. 1 : k = day' - e
    BY <1>2, <2>1, <2>e, TornDay
  <2>d. PICK n \in Int : n = day'
    BY <2>2
  <2>4. r = sec' + k * DaySeconds - CntlSize
    BY <1>2, <2>1, <2>e, <2>r, <2>3, TornSecond
  <2>5. e \in CounterDays /\ calendar' = CalendarAt(e, r)
    BY <1>2, <2>2, <2>e, <2>r, ReadIsCalendarAt
  <2>6. e = day' - k
    <3>1. k = n - e
      BY <2>3, <2>d
    <3>2. e = n - k
      BY <2>2, <3>1
    <3> QED
      BY <2>d, <3>2
  <2> QED
    BY <2>2, <2>4, <2>5, <2>6 DEF Wall!Torn
<1> QED
  BY <1>1, <1>2 DEF RTC_Get

\* Setting the time ends with a reading, unless RTC_Set refuses the year.
LEMMA SetRefines ==
  ASSUME CounterInv, NEW t, t.mon \in 0 .. 12, t.day \in Nat,
         t.hour \in Nat, t.min \in Nat, t.sec \in Nat, RTC_Set(t)
  PROVE  \/ t.year \notin SetYears /\ UNCHANGED <<day, sec, calendar>>
         \/ Wall!Exact \/ Wall!Torn
<1>1. CASE t.year \notin SetYears /\ UNCHANGED <<counter, reading>>
  BY <1>1 DEF counter, reading
<1>2. ASSUME t.year \in SetYears,
             NEW d \in SetDays(t), NEW s, s = SecondAt(t.hour, t.min, t.sec),
             RTC_Get(DayOf(d, s), SecOf(s))
      PROVE  Wall!Exact \/ Wall!Torn
  <2>1. d \in Int
    BY <1>2, SetDaysType
  <2>2. s \in Int
    BY <1>2, SMT DEF SecondAt
  <2> QED
    BY <1>2, <2>1, <2>2, DayAndSecond, GetRefines
<1> QED
  BY <1>1, <1>2 DEF RTC_Set

\* The counter goes on when seconds pass.
LEMMA PassesLater ==
  ASSUME NEW d \in Int, NEW s \in Seconds, NEW n \in Nat,
         day = d, sec = s, day' = DayOf(d, s + n), sec' = SecOf(s + n)
  PROVE  Wall!Later
<1>1. s \in Nat /\ s < 86400
  BY SecondsType
<1>2. PICK q \in Int, r \in Int : q = (s + n) \div 86400 /\ r = (s + n) % 86400
  BY <1>1, SMT
<1>3. DayOf(d, s + n) = d + q /\ SecOf(s + n) = r
  BY <1>2, SMT DEF DayOf, SecOf, DaySeconds
<1>4. s + n = 86400 * q + r /\ r >= 0 /\ r < 86400
  BY <1>1, <1>2, SMT
<1>5. q >= 0 /\ (q = 0 => r >= s)
  BY <1>1, <1>4, SMT
<1>6. d + q > d \/ (d + q = d /\ r >= s)
  BY <1>1, <1>5, SMT
<1> QED
  BY <1>3, <1>6 DEF Wall!Later

\* Before the clock was read the LCD shows nothing, and afterwards something.
BlankInv == ~Started => calendar = NoCalendar

LEMMA StartedShows == IInv /\ Started => calendar # NoCalendar
<1> SUFFICES ASSUME IInv, Started PROVE calendar # NoCalendar
  OBVIOUS
<1>1. daycnt \in CounterDays /\ calendar.mon = Computed(daycnt).mon
  BY DEF IInv, CounterInv, Started, ShowsDay
<1>2. calendar.mon \in 1 .. 12
  BY <1>1, Conversion DEF DateRight
<1>3. NoCalendar.mon = 0
  BY DEF NoCalendar
<1> QED
  BY <1>2, <1>3

\* OK sets the clock, which was shown before.
LEMMA OKSets ==
  ASSUME IInv, OK
  PROVE  /\ Started /\ Started'
         /\ \/ UNCHANGED <<day, sec, calendar>>
            \/ Wall!Exact \/ Wall!Torn
<1>1. /\ Set_time.mon \in 0 .. 12 /\ Set_time.day \in Nat /\ Set_time.min \in Nat
      /\ Set_time.hour \in Nat /\ Set_time.sec \in Nat
  BY FieldsDef DEF IInv, DialogueInv
<1>2. RTC_Set(Set_time) /\ Started
  BY DEF OK, Close, IInv, DialogueInv
<1>3. Started'
  BY <1>1, <1>2, SetKeeps DEF IInv
<1> QED
  BY <1>1, <1>2, <1>3, SetRefines DEF IInv

LEMMA BlankNext == IInv /\ BlankInv /\ [Next]_vars => BlankInv'
<1> SUFFICES ASSUME IInv, BlankInv, [Next]_vars PROVE BlankInv'
  OBVIOUS
<1>1. CASE RTC_Init
  BY <1>1, InitReads DEF BlankInv
<1>2. ASSUME NEW s \in Spans, Elapse(s) PROVE BlankInv'
  <2>1. PICK d : d = day'
    OBVIOUS
  <2>2. d \in CounterDays /\ Started /\ daycnt' \in {daycnt, d}
    BY <1>2, <2>1 DEF Elapse, Read
  <2>3. d # 0
    BY <2>2, DaysType
  <2> QED
    BY <2>2, <2>3 DEF BlankInv, Started
<1>3. ASSUME NEW s \in Spans, Restart(s) PROVE BlankInv'
  BY <1>3 DEF BlankInv, Restart
<1>4. CASE OK
  BY <1>4, OKSets DEF BlankInv
<1>5. CASE UNCHANGED reading
  BY <1>5 DEF BlankInv, Started, reading
<1>6. CASE \/ Open \/ Week \/ WeekDigit \/ Cancel \/ UNCHANGED vars
           \/ \E f \in Fields : Field(f)
           \/ \E d \in Digits : Digit(d)
  <2>1. UNCHANGED reading
    BY <1>6 DEF Open, Week, WeekDigit, Cancel, Field, Digit, vars
  <2> QED
    BY <1>5, <2>1
<1> QED
  BY <1>1, <1>2, <1>3, <1>4, <1>6 DEF Next, Set_Time

LEMMA BlankAlways == Spec => []BlankInv
<1>1. Init => BlankInv
  BY DEF Init, Statics, BlankInv
<1> QED
  BY <1>1, BlankNext, Invariance, PTL DEF Spec

\* Each step of the clock and the dialogue is one of the clock without the
\* cache, or changes nothing that it has.
LEMMA ClockStep ==
  ASSUME IInv, BlankInv, [Next]_vars
  PROVE  [Wall!Next]_(Wall!wvars)
<1>0. Started <=> calendar # NoCalendar
  BY StartedShows DEF BlankInv
<1>1. CASE RTC_Init
  <2>1. calendar = NoCalendar /\ open' = open
    BY <1>0, <1>1 DEF RTC_Init, dialogue
  <2>2. Wall!Exact \/ Wall!Torn
    <3>1. CASE RTC_Get(day, sec)
      <4>1. day \in Int /\ sec \in Seconds
        BY DaysType, SMT DEF IInv, CounterInv
      <4> QED
        BY <3>1, <4>1, GetRefines DEF IInv
    <3>2. CASE RTC_Set(FirstTime)
      <4>1. FirstTime.year \in SetYears /\ FirstTime.mon \in 0 .. 12 /\ FirstTime.day \in Nat
            /\ FirstTime.hour \in Nat /\ FirstTime.min \in Nat /\ FirstTime.sec \in Nat
        BY DEF FirstTime, SetYears
      <4> QED
        BY <3>2, <4>1, SetRefines DEF IInv
    <3> QED
      BY <1>1, <3>1, <3>2 DEF RTC_Init
  <2> QED
    BY <2>1, <2>2 DEF Wall!Next, Wall!Start
<1>2. ASSUME NEW s \in Spans, Elapse(s) \/ Restart(s) PROVE Wall!Next
  <2>1. s \in Nat /\ day \in Int /\ sec \in Seconds /\ calendar # NoCalendar
    BY <1>0, <1>2, RtcAssumption, DaysType, SMT DEF IInv, CounterInv, Elapse, Restart
  <2>2. PICK d \in Int, c \in Seconds : d = day /\ c = sec
    BY <2>1
  <2>3. Wall!Later
    <3>1. day' = DayOf(d, c + s) /\ sec' = SecOf(c + s)
      BY <1>2, <2>2 DEF Elapse, Restart
    <3> QED
      BY <2>1, <2>2, <3>1, PassesLater
  <2>4. CASE Restart(s)
    <3>1. calendar' = NoCalendar /\ ~open'
      BY <2>4 DEF Restart
    <3> QED
      BY <2>1, <2>3, <3>1 DEF Wall!Next, Wall!PowerLoss
  <2>5. CASE Elapse(s)
    <3>1. open' = open
      BY <2>5 DEF Elapse, dialogue
    <3>2. open => calendar' = calendar
      BY <2>5 DEF Elapse
    <3>3. ~open => calendar' = CalendarAt(day', sec')
      <4>1. PICK e : e = day'
        OBVIOUS
      <4>2. sec' \in Seconds
        <5>1. c + s \in Int
          BY <2>1, SecondsType
        <5>2. sec' = SecOf(c + s)
          BY <2>2, <2>5 DEF Elapse
        <5> QED
          BY <5>1, <5>2, <2>2, DayAndSecond
      <4>3. PICK r \in Seconds : r = sec'
        BY <4>2
      <4>4. ~open => Read(e, r)
        BY <2>5, <4>1, <4>3 DEF Elapse
      <4> QED
        BY <4>1, <4>3, <4>4, ReadIsCalendarAt DEF IInv
    <3> QED
      BY <2>1, <2>3, <3>1, <3>2, <3>3 DEF Wall!Next, Wall!Pass, Wall!Exact
  <2> QED
    BY <1>2, <2>4, <2>5
<1>3. CASE Open
  <2>1. UNCHANGED <<day, sec, calendar>> /\ ~open /\ open' /\ Started
    BY <1>3 DEF Open, counter, reading
  <2> QED
    BY <1>0, <2>1 DEF Wall!Next, Wall!Open
<1>4. CASE Cancel
  <2>1. UNCHANGED <<day, sec, calendar>> /\ open /\ ~open'
    BY <1>4 DEF Cancel, Close, counter, reading
  <2> QED
    BY <2>1 DEF Wall!Next, Wall!Cancel
<1>5. CASE OK
  <2>1. open /\ ~open'
    BY <1>5 DEF OK, Close
  <2> QED
    BY <1>5, <2>1, OKSets DEF Wall!Next, Wall!Cancel, Wall!Set
<1>6. CASE \/ Week \/ WeekDigit \/ UNCHANGED vars
           \/ \E f \in Fields : Field(f)
           \/ \E d \in Digits : Digit(d)
  <2>1. UNCHANGED <<day, sec, calendar, open>>
    BY <1>6 DEF Week, WeekDigit, Field, Digit, vars, counter, reading, dialogue
  <2> QED
    BY <2>1 DEF Wall!wvars
<1> QED
  BY <1>1, <1>2, <1>3, <1>4, <1>5, <1>6 DEF Next, Set_Time

\* For whom looks at the LCD the cache of the day is not there, whatever the
\* user dials, however long the dialogue is open and whenever the power fails
\* (rtc.c 232).
THEOREM RtcRefinesClock == Spec => RefinesClock
<1>1. Init => Wall!Init
  <2>1. {0, 86399} \subseteq Seconds
    BY SecondsIntro, SMT
  <2> QED
    BY <2>1, StartAssumption DEF Init, Statics, Wall!Init
<1>2. IInv /\ BlankInv /\ [Next]_vars => [Wall!Next]_(Wall!wvars)
  BY ClockStep
<1> QED
  BY <1>1, <1>2, Invariance, BlankAlways, PTL DEF Spec, RefinesClock, Wall!Spec
=============================================================================
