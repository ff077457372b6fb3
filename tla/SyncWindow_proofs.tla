-------------------------- MODULE SyncWindow_proofs --------------------------
(***************************************************************************)
(* The windows of a rule, for every run of the clock and every offset:     *)
(* neither end moves back, and the default window reaches far enough.      *)
(* Both follow from one fact of the calendar: the first day of the next    *)
(* month comes DaysIn days after the first day of this one, also where     *)
(* time.Date carries a month that is out of range into the year.           *)
(***************************************************************************)
EXTENDS SyncWindow, TLAPS

-----------------------------------------------------------------------------
(* Leap years *)

LEMMA By4 ==
    ASSUME NEW y \in Int
    PROVE  (y \div 4) - ((y - 1) \div 4) = IF (y % 4) = 0 THEN 1 ELSE 0
OBVIOUS

LEMMA By100 ==
    ASSUME NEW y \in Int
    PROVE  (y \div 100) - ((y - 1) \div 100) = IF (y % 100) = 0 THEN 1 ELSE 0
OBVIOUS

LEMMA By400 ==
    ASSUME NEW y \in Int
    PROVE  (y \div 400) - ((y - 1) \div 400) = IF (y % 400) = 0 THEN 1 ELSE 0
OBVIOUS

\* The leap days up to a year.
LeapDays(y) == (y \div 4) - (y \div 100) + (y \div 400)

LEMMA LeapDaysInt == ASSUME NEW y \in Int PROVE LeapDays(y) \in Int
BY DEF LeapDays

\* A year has a leap day exactly if it is a leap year.
LEMMA LeapYear ==
    ASSUME NEW y \in Int
    PROVE  LeapDays(y) - LeapDays(y - 1) = IF IsLeap(y) THEN 1 ELSE 0
<1>1. (y % 400) = 0 => (y % 100) = 0
  OBVIOUS
<1>2. (y % 100) = 0 => (y % 4) = 0
  OBVIOUS
<1> DEFINE a == (y \div 4) - ((y - 1) \div 4)
           b == (y \div 100) - ((y - 1) \div 100)
           c == (y \div 400) - ((y - 1) \div 400)
<1>3. LeapDays(y) - LeapDays(y - 1) = (a - b) + c
  BY DEF LeapDays
<1>4. /\ a = IF (y % 4) = 0 THEN 1 ELSE 0
      /\ b = IF (y % 100) = 0 THEN 1 ELSE 0
      /\ c = IF (y % 400) = 0 THEN 1 ELSE 0
  BY By4, By100, By400
<1> HIDE DEF a, b, c
<1>5. CASE (y % 4) # 0
  BY <1>1, <1>2, <1>3, <1>4, <1>5 DEF IsLeap
<1>6. CASE (y % 4) = 0
  BY <1>1, <1>3, <1>4, <1>6 DEF IsLeap
<1> QED
  BY <1>5, <1>6

-----------------------------------------------------------------------------
(* Months *)

LEMMA DaysInRange ==
    ASSUME NEW y, NEW m
    PROVE  DaysIn(y, m) \in 28 .. 31
BY DEF DaysIn

LEMMA FirstDayInt ==
    ASSUME NEW y \in Int, NEW m \in 1 .. 12
    PROVE  FirstDay(y, m) \in Int
BY DEF FirstDay

\* The first day of a month, by the leap days so far and the months since March.
LEMMA FirstDayIs ==
    ASSUME NEW y \in Int, NEW m \in 1 .. 12
    PROVE  FirstDay(y, m) = LET a == IF m <= 2 THEN y - 1 ELSE y
                            IN 365 * a + LeapDays(a) + (153 * ((m + 9) % 12) + 2) \div 5
BY DEF FirstDay, LeapDays

\* The month after a month.
LEMMA MonthLength ==
    ASSUME NEW y \in Int, NEW m \in 1 .. 12
    PROVE  FirstDay(IF m = 12 THEN y + 1 ELSE y, (m % 12) + 1) = FirstDay(y, m) + DaysIn(y, m)
<1> USE FirstDayIs, LeapDaysInt, LeapYear DEF DaysIn
<1>1. CASE m = 1 BY <1>1
<1>2. CASE m = 2 BY <1>2
<1>3. CASE m = 3 BY <1>3
<1>4. CASE m = 4 BY <1>4
<1>5. CASE m = 5 BY <1>5
<1>6. CASE m = 6 BY <1>6
<1>7. CASE m = 7 BY <1>7
<1>8. CASE m = 8 BY <1>8
<1>9. CASE m = 9 BY <1>9
<1>10. CASE m = 10 BY <1>10
<1>11. CASE m = 11 BY <1>11
<1>12. CASE m = 12 BY <1>12
<1> QED
  BY <1>1, <1>2, <1>3, <1>4, <1>5, <1>6, <1>7, <1>8, <1>9, <1>10, <1>11, <1>12

\* time.Date: the first day of the month k months after a month, k of any sign.
First(y, k) == FirstDay(y + (k - 1) \div 12, ((k - 1) % 12) + 1)

LEMMA DateIs ==
    ASSUME NEW y, NEW m, NEW d, NEW h
    PROVE  Date(y, m, d, h) = 24 * (First(y, m) + d - 1) + h
BY DEF Date, First

LEMMA FirstInt ==
    ASSUME NEW y \in Int, NEW k \in Int
    PROVE  First(y, k) \in Int
<1>1. y + (k - 1) \div 12 \in Int /\ ((k - 1) % 12) + 1 \in 1 .. 12
  OBVIOUS
<1> QED
  BY <1>1, FirstDayInt DEF First

LEMMA FirstOfMonth ==
    ASSUME NEW y \in Int, NEW m \in 1 .. 12
    PROVE  First(y, m) = FirstDay(y, m)
<1>1. y + (m - 1) \div 12 = y /\ ((m - 1) % 12) + 1 = m
  OBVIOUS
<1> QED
  BY <1>1 DEF First

\* Whatever the month: the one after it begins 28 to 31 days later.
LEMMA FirstGrows ==
    ASSUME NEW y \in Int, NEW k \in Int
    PROVE  First(y, k + 1) - First(y, k) \in 28 .. 31
<1> DEFINE a == y + (k - 1) \div 12
           m == ((k - 1) % 12) + 1
<1>1. a \in Int /\ m \in 1 .. 12
  OBVIOUS
<1>2. y + k \div 12 = (IF m = 12 THEN a + 1 ELSE a) /\ (k % 12) + 1 = (m % 12) + 1
  OBVIOUS
<1>3. First(y, k) = FirstDay(a, m)
  BY DEF First
<1>4. First(y, k + 1) = FirstDay(y + k \div 12, (k % 12) + 1)
  <2>1. (k + 1) - 1 = k
    OBVIOUS
  <2> QED
    BY <2>1 DEF First
<1> HIDE DEF a, m
<1>5. First(y, k + 1) = FirstDay(a, m) + DaysIn(a, m)
  BY <1>1, <1>2, <1>4, MonthLength
<1>6. FirstDay(a, m) \in Int /\ DaysIn(a, m) \in 28 .. 31
  BY <1>1, FirstDayInt, DaysInRange
<1>7. 28 .. 31 \subseteq Int
  OBVIOUS
<1> QED
  BY <1>3, <1>5, <1>6, <1>7

\* The months of the next year are twelve months further on.
LEMMA FirstOfNextYear ==
    ASSUME NEW y \in Int, NEW k \in Int
    PROVE  First(y + 1, 1 + k) = First(y, 12 + k + 1)
<1>1. /\ (y + 1) + ((1 + k) - 1) \div 12 = y + ((12 + k + 1) - 1) \div 12
      /\ ((1 + k) - 1) % 12 = ((12 + k + 1) - 1) % 12
  OBVIOUS
<1> QED
  BY <1>1 DEF First

LEMMA YearsGrow ==
    ASSUME NEW y \in Int
    PROVE  First(y + 1, 12) >= First(y, 12)
<1>1. (2 - y) \in Int /\ y + 1 \in Int
  OBVIOUS
<1>2. /\ First(y, 12) = 365 * y + LeapDays(y) + (153 * 9 + 2) \div 5
      /\ First(y + 1, 12) = 365 * (y + 1) + LeapDays(y + 1) + (153 * 9 + 2) \div 5
  BY <1>1, FirstOfMonth, FirstDayIs
<1>3. LeapDays(y + 1) - LeapDays(y) \in {0, 1}
  <2>1. (y + 1) - 1 = y
    OBVIOUS
  <2> QED
    BY <1>1, <2>1, LeapYear
<1> QED
  BY <1>1, <1>2, <1>3, LeapDaysInt

-----------------------------------------------------------------------------
(* The clock *)

\* The clock shows a date that exists.
IInv ==
    /\ year \in FirstYear .. LastYear /\ month \in 1 .. 12 /\ hour \in 0 .. 23
    /\ day \in 1 .. DaysIn(year, month)
    /\ StartTime \in SyncTime /\ EndTime \in SyncTime

\* A step that ends a month.
NewMonth ==
    /\ day = DaysIn(year, month) /\ day' = 1
    /\ month' = (month % 12) + 1
    /\ year' = IF month = 12 THEN year + 1 ELSE year

LEMMA InitInv == Init => IInv
BY YearAssumption, DaysInRange DEF Init, IInv

\* The three ways the clock goes on.
LEMMA Steps ==
    ASSUME IInv, Next
    PROVE  /\ UNCHANGED <<StartTime, EndTime>>
           /\ \/ hour' = hour + Step /\ UNCHANGED date
              \/ /\ hour' = hour + Step - 24
                 /\ \/ day < DaysIn(year, month) /\ day' = day + 1 /\ UNCHANGED <<year, month>>
                    \/ NewMonth
<1>1. CASE NextHour
  BY <1>1 DEF Next, NextHour, NextDay, date
<1>2. CASE NextDay
  <2>1. hour + Step >= 24 /\ hour' = (hour + Step) % 24
    BY <1>2 DEF NextDay
  <2>2. hour' = hour + Step - 24
    BY <2>1, StepAssumption DEF IInv
  <2>3. day < DaysIn(year, month) \/ day = DaysIn(year, month)
    BY DaysInRange DEF IInv
  <2> QED
    BY <1>2, <2>2, <2>3, DaysInRange DEF Next, NextDay, NewMonth, IInv, date
<1> QED
  BY <1>1, <1>2 DEF Next

LEMMA StepInv ==
    ASSUME IInv, [Next]_vars
    PROVE  IInv'
<1>1. CASE UNCHANGED vars
  BY <1>1 DEF IInv, vars, date
<1>2. CASE Next
  <2>1. StartTime' \in SyncTime /\ EndTime' \in SyncTime
    BY <1>2, Steps DEF IInv
  <2>2. hour' \in 0 .. 23
    BY <1>2, StepAssumption DEF IInv, Next, NextHour, NextDay
  <2>3. year' \in FirstYear .. LastYear /\ month' \in 1 .. 12
    BY <1>2, YearAssumption DEF IInv, Next, NextHour, NextDay, date
  <2>4. day' \in 1 .. DaysIn(year, month)'
    <3>1. CASE UNCHANGED date
      BY <3>1 DEF IInv, date
    <3>2. CASE day < DaysIn(year, month) /\ day' = day + 1 /\ UNCHANGED <<year, month>>
      BY <3>2, DaysInRange DEF IInv
    <3>3. CASE NewMonth
      BY <3>3, DaysInRange DEF NewMonth
    <3> QED
      BY <1>2, Steps, <3>1, <3>2, <3>3
  <2> QED
    BY <2>1, <2>2, <2>3, <2>4 DEF IInv
<1> QED
  BY <1>1, <1>2

THEOREM ClockIsRight == Spec => []IInv
<1> QED
  BY InitInv, StepInv, PTL DEF Spec

-----------------------------------------------------------------------------
(* The window *)

\* The instant of t in a month y, m, at hour h of day d.
Instant(t, y, m, d, h) ==
    CASE t.identifier = "MonthStart" -> 24 * (First(y, m + t.offset) + 1 - 1) + 0
      [] t.identifier = "MonthEnd"   -> 24 * (First(y, m + t.offset) + DaysIn(y, m) - 1) + 23
      [] t.identifier = "TodayStart" -> 24 * (First(y, m) + (d + t.offset) - 1) + 0
      [] t.identifier = "TodayEnd"   -> 24 * (First(y, m) + (d + t.offset) - 1) + 23
      [] t.identifier = "Now"        -> 24 * (First(y, m) + d - 1) + (h + t.offset)
      [] t.identifier = "YearEnd"    -> 24 * (First(y + t.offset, 12) + 31 - 1) + 23

LEMMA InstantIs ==
    /\ start = Instant(StartTime, year, month, day, hour)
    /\ start' = Instant(StartTime', year', month', day', hour')
    /\ end = Instant(EndTime, year, month, day, hour)
    /\ end' = Instant(EndTime', year', month', day', hour')
BY DateIs DEF start, end, timeFromConfig, Instant, MonthStart, MonthEnd, EndOfDay

\* What the calendar says of a month.
LEMMA MonthFacts ==
    ASSUME NEW y \in Int, NEW m \in 1 .. 12, NEW k \in Int
    PROVE  /\ First(y, m) \in Int /\ First(y, m + k) \in Int /\ First(y + k, 12) \in Int
           /\ DaysIn(y, m) \in Int /\ 28 <= DaysIn(y, m) /\ DaysIn(y, m) <= 31
<1>1. m \in Int /\ m + k \in Int /\ y + k \in Int /\ 12 \in Int
  OBVIOUS
<1>2. First(y, m) \in Int /\ First(y, m + k) \in Int
  BY <1>1, FirstInt
<1>3. First(y + k, 12) \in Int
  BY <1>1, FirstInt
<1>4. DaysIn(y, m) \in 28 .. 31
  BY DaysInRange
<1> QED
  BY <1>2, <1>3, <1>4

\* Nothing moves back while the month lasts.
LEMMA WithinMonth ==
    ASSUME NEW t \in SyncTime, NEW y \in Int, NEW m \in 1 .. 12,
           NEW d \in Int, NEW e \in Int, NEW h \in 0 .. 23, NEW i \in 0 .. 23,
           e > d \/ (e = d /\ i >= h)
    PROVE  Instant(t, y, m, e, i) >= Instant(t, y, m, d, h)
<1>1. t.offset \in Int /\ t.identifier \in Identifiers
  BY StepAssumption DEF SyncTime
<1>2. /\ First(y, m) \in Int /\ First(y, m + t.offset) \in Int /\ First(y + t.offset, 12) \in Int
      /\ DaysIn(y, m) \in Int
  BY <1>1, MonthFacts
<1> QED
  BY <1>1, <1>2 DEF Instant, Identifiers

\* Nor when the next month begins.
LEMMA AcrossMonths ==
    ASSUME NEW t \in SyncTime, NEW y \in Int, NEW m \in 1 .. 12, NEW z \in Int, NEW n \in 1 .. 12,
           NEW h \in 0 .. 23, NEW i \in 0 .. 23,
           n = (m % 12) + 1, z = IF m = 12 THEN y + 1 ELSE y
    PROVE  Instant(t, z, n, 1, i) >= Instant(t, y, m, DaysIn(y, m), h)
<1> DEFINE k == t.offset
<1>1. k \in Int /\ t.identifier \in Identifiers
  BY StepAssumption DEF SyncTime
<1> HIDE DEF k
<1>2. /\ First(y, m) \in Int /\ First(y, m + k) \in Int /\ First(y + k, 12) \in Int
      /\ DaysIn(y, m) \in Int /\ 28 <= DaysIn(y, m) /\ DaysIn(y, m) <= 31
  BY <1>1, MonthFacts
<1>3. /\ First(z, n) \in Int /\ First(z, n + k) \in Int /\ First(z + k, 12) \in Int
      /\ DaysIn(z, n) \in Int /\ 28 <= DaysIn(z, n) /\ DaysIn(z, n) <= 31
  BY <1>1, MonthFacts
<1>4. First(z, n) = First(y, m) + DaysIn(y, m)
  BY FirstOfMonth, MonthLength
<1>5. First(z, n + k) >= First(y, m + k) + 28
  <2>1. m + k \in Int
    BY <1>1
  <2>2. First(y, (m + k) + 1) - First(y, m + k) \in 28 .. 31
    BY <2>1, FirstGrows
  <2>3. First(y, (m + k) + 1) \in Int
    BY <2>1, FirstInt
  <2>4. First(z, n + k) = First(y, (m + k) + 1)
    <3>1. CASE m = 12
      <4>1. First(y + 1, 1 + k) = First(y, 12 + k + 1)
        BY <1>1, FirstOfNextYear
      <4> QED
        BY <3>1, <4>1
    <3>2. CASE m # 12
      <4>1. z = y /\ n = m + 1
        BY <3>2
      <4>2. n + k = (m + k) + 1
        BY <1>1, <4>1
      <4> QED
        BY <4>1, <4>2
    <3> QED
      BY <3>1, <3>2
  <2> QED
    BY <1>2, <2>2, <2>3, <2>4
<1>6. First(z + k, 12) >= First(y + k, 12)
  <2>1. y + k \in Int /\ (y + 1) + k = (y + k) + 1
    BY <1>1
  <2>2. First((y + k) + 1, 12) >= First(y + k, 12)
    BY <2>1, YearsGrow
  <2> QED
    BY <1>2, <2>1, <2>2
<1>7. CASE t.identifier = "MonthStart"
  BY <1>2, <1>3, <1>5, <1>7 DEF Instant, k
<1>8. CASE t.identifier = "MonthEnd"
  BY <1>2, <1>3, <1>5, <1>8 DEF Instant, k
<1>9. CASE t.identifier \in {"TodayStart", "TodayEnd", "Now"}
  BY <1>1, <1>2, <1>3, <1>4, <1>9 DEF Instant, k
<1>10. CASE t.identifier = "YearEnd"
  BY <1>2, <1>3, <1>6, <1>10 DEF Instant, k
<1> QED
  BY <1>1, <1>7, <1>8, <1>9, <1>10 DEF Identifiers

\* No instant of a rule moves back.
LEMMA InstantAdvances ==
    ASSUME IInv, Next, NEW t \in SyncTime
    PROVE  Instant(t, year', month', day', hour') >= Instant(t, year, month, day, hour)
<1>1. IInv'
  BY StepInv
<1>2. /\ year \in Int /\ month \in 1 .. 12 /\ day \in Int /\ hour \in 0 .. 23
      /\ year' \in Int /\ month' \in 1 .. 12 /\ day' \in Int /\ hour' \in 0 .. 23
  BY <1>1, YearAssumption, DaysInRange DEF IInv
<1>3. CASE year' = year /\ month' = month /\ (day' > day \/ (day' = day /\ hour' >= hour))
  <2>1. Instant(t, year, month, day', hour') >= Instant(t, year, month, day, hour)
    BY <1>2, <1>3, WithinMonth
  <2> QED
    BY <1>3, <2>1
<1>4. CASE NewMonth
  <2>1. Instant(t, year', month', 1, hour') >= Instant(t, year, month, DaysIn(year, month), hour)
    BY <1>2, <1>4, AcrossMonths DEF NewMonth
  <2> QED
    BY <1>4, <2>1 DEF NewMonth
<1>5. \/ year' = year /\ month' = month /\ (day' > day \/ (day' = day /\ hour' >= hour))
      \/ NewMonth
  BY <1>2, Steps, StepAssumption DEF date
<1> QED
  BY <1>3, <1>4, <1>5

\* The clock advances by Step.
LEMMA NowAdvances ==
    ASSUME IInv, Next
    PROVE  now' = now + Step
<1>0. IInv'
  BY StepInv
<1>1. /\ year \in Int /\ month \in 1 .. 12 /\ day \in Int /\ hour \in Int
      /\ year' \in Int /\ month' \in 1 .. 12 /\ day' \in Int /\ hour' \in Int /\ Step \in Int
  BY <1>0, YearAssumption, StepAssumption, DaysInRange DEF IInv
<1>2. /\ First(year, month) \in Int /\ First(year', month') \in Int
      /\ DaysIn(year, month) \in Int
  BY <1>1, MonthFacts
<1>3. /\ now = 24 * (First(year, month) + day - 1) + hour
      /\ now' = 24 * (First(year', month') + day' - 1) + hour'
  BY DateIs DEF now
<1>4. NewMonth => First(year', month') = First(year, month) + DaysIn(year, month)
  BY <1>1, FirstOfMonth, MonthLength DEF NewMonth
<1>5. CASE UNCHANGED <<year, month>>
  BY <1>1, <1>2, <1>3, <1>5, Steps DEF date, NewMonth
<1>6. CASE NewMonth /\ hour' = hour + Step - 24
  BY <1>1, <1>2, <1>3, <1>4, <1>6 DEF NewMonth
<1> QED
  BY <1>5, <1>6, Steps DEF date

\* For every rule, whatever its identifiers and offsets, and wherever the clock
\* began: time passes, and neither end of the window moves back (timeFromConfig).
THEOREM WindowNeverMovesBack == Spec => WindowAdvances
<1>1. ASSUME IInv, [Next]_vars
      PROVE  [/\ now' = now + Step /\ start' >= start /\ end' >= end]_vars
  <2>1. CASE UNCHANGED vars
    BY <2>1
  <2>2. CASE Next
    <3>1. StartTime' = StartTime /\ EndTime' = EndTime /\ StartTime \in SyncTime /\ EndTime \in SyncTime
      BY <1>1, <2>2, Steps DEF IInv
    <3>2. start' >= start
      BY <1>1, <2>2, <3>1, InstantIs, InstantAdvances
    <3>3. end' >= end
      BY <1>1, <2>2, <3>1, InstantIs, InstantAdvances
    <3>4. now' = now + Step
      BY <1>1, <2>2, NowAdvances
    <3> QED
      BY <3>2, <3>3, <3>4
  <2> QED
    BY <1>1, <2>1, <2>2
<1> QED
  BY <1>1, ClockIsRight, PTL DEF Spec, WindowAdvances

\* On every date of every year the default window begins exactly with the last
\* month and ends exactly as many days after the end of this month as this month
\* has (timeFromConfig with MonthStart -1 and MonthEnd 1).
THEOREM DefaultWindowReaches == Spec => []DefaultReaches
<1>1. IInv => DefaultReaches
  <2> SUFFICES ASSUME IInv, Default
               PROVE  /\ start = 24 * FirstDay(LastMonth[1], LastMonth[2])
                      /\ end = 24 * (FirstDay(year, month) + 2 * DaysIn(year, month)) - 1
    BY DEF DefaultReaches
  <2>1. year \in Int /\ month \in 1 .. 12
    BY YearAssumption DEF IInv
  <2>2. start = 24 * FirstDay(LastMonth[1], LastMonth[2])
    <3>1. First(year, month + -1) = FirstDay(LastMonth[1], LastMonth[2])
      <4>1. CASE month = 1
        <5> DEFINE k == (month + -1) - 1
        <5>1. k \in Int /\ k + 1 = 0
          BY <4>1
        <5>2. First(year, month + -1) = FirstDay(year + (k \div 12), (k % 12) + 1)
          BY DEF First
        <5> HIDE DEF k
        <5>3. year + (k \div 12) = year - 1 /\ (k % 12) + 1 = 12
          BY <2>1, <5>1
        <5> QED
          BY <4>1, <5>2, <5>3 DEF LastMonth
      <4>2. CASE month # 1
        <5>1. month - 1 \in 1 .. 12 /\ month + -1 = month - 1
          BY <2>1, <4>2
        <5> QED
          BY <2>1, <4>2, <5>1, FirstOfMonth DEF LastMonth
      <4> QED
        BY <4>1, <4>2
    <3>2. start = 24 * (First(year, month + -1) + 1 - 1) + 0
      BY InstantIs DEF Instant, Default
    <3>3. First(year, month + -1) \in Int
      <4>1. month + -1 \in Int
        BY <2>1
      <4> QED
        BY <2>1, <4>1, FirstInt
    <3> QED
      BY <3>1, <3>2, <3>3
  <2>3. end = 24 * (FirstDay(year, month) + 2 * DaysIn(year, month)) - 1
    <3> DEFINE F == FirstDay(year, month)
               next == First(year, month + 1)
               n == DaysIn(year, month)
    <3>1. F \in Int /\ n \in Int
      <4>1. n \in 28 .. 31 /\ 28 .. 31 \subseteq Int
        BY DaysInRange
      <4>2. F \in Int
        BY <2>1, FirstDayInt
      <4> QED
        BY <4>1, <4>2, Zenon
    <3>2. next = F + n
      <4>1. next = FirstDay(IF month = 12 THEN year + 1 ELSE year, (month % 12) + 1)
        <5>1. CASE month = 12
          BY <2>1, <5>1 DEF First
        <5>2. CASE month # 12
          <6>1. month + 1 \in 1 .. 12 /\ (month % 12) + 1 = month + 1
            BY <2>1, <5>2
          <6> QED
            BY <2>1, <5>2, <6>1, FirstOfMonth
        <5> QED
          BY <5>1, <5>2
      <4> QED
        BY <2>1, <4>1, MonthLength
    <3>3. end = 24 * (next + n - 1) + 23
      BY InstantIs DEF Instant, Default
    <3> HIDE DEF F, next, n
    <3>4. end = 24 * (F + 2 * n) - 1
      BY <3>1, <3>2, <3>3
    <3> QED
      BY <3>4 DEF F, n
  <2> QED
    BY <2>2, <2>3
<1> QED
  BY <1>1, ClockIsRight, PTL
=============================================================================
