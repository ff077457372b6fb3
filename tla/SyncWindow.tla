----------------------------- MODULE SyncWindow -----------------------------
(***************************************************************************)
(* The time window of a run: timeFromConfig of the worker turns the        *)
(* identifier and the offset of a rule into an instant.  Instants are      *)
(* hours; time.Date and AddDate normalise a day or a month out of range by *)
(* carrying it into the next unit, as here.                                *)
(***************************************************************************)
EXTENDS Integers

CONSTANTS
    FirstYear, LastYear,   \* the clock runs through these years
    Step,                  \* hours between two looks at the clock
    Back, Ahead            \* the offsets of rules

ASSUME YearAssumption == FirstYear \in Nat /\ LastYear \in Nat /\ FirstYear <= LastYear
ASSUME StepAssumption == Step \in 1 .. 24 /\ Back \in Nat /\ Ahead \in Nat

VARIABLES
    year, month, day, hour,   \* time.Now() in UTC
    StartTime, EndTime        \* the window of the rule

date == <<year, month, day>>
vars == <<date, hour, StartTime, EndTime>>

Identifiers == {"MonthStart", "MonthEnd", "TodayStart", "TodayEnd", "Now", "YearEnd"}
SyncTime    == [identifier : Identifiers, offset : -Back .. Ahead]

-----------------------------------------------------------------------------
(* The calendar of package time *)

IsLeap(y) == y % 4 = 0 /\ (y % 100 # 0 \/ y % 400 = 0)

DaysIn(y, m) == CASE m = 2 -> IF IsLeap(y) THEN 29 ELSE 28
                  [] m \in {4, 6, 9, 11} -> 30
                  [] OTHER -> 31

\* Days from 1 March of the year 0 to day 1 of a month of a year.
FirstDay(y, m) == LET a == IF m <= 2 THEN y - 1 ELSE y    \* years begin in March
                      n == (m + 9) % 12                   \* months since March
                  IN 365 * a + (a \div 4) - (a \div 100) + (a \div 400) + (153 * n + 2) \div 5

\* time.Date(y, m, d, h, ...): the month is carried into the year, and the days
\* into the months that follow.
Date(y, m, d, h) ==
    24 * (FirstDay(y + (m - 1) \div 12, ((m - 1) % 12) + 1) + d - 1) + h

\* 23:59:59 is the last hour of a day.
EndOfDay == 23

-----------------------------------------------------------------------------

\* Mutant: counts the months from today, not from the first of the month.
MonthStartToday(k) == Date(year, month + k, day, 0)

MonthStart(k) == Date(year, month + k, 1, 0)

\* Mutant: the offset is forgotten.
ThisMonthEnd(k) == Date(year, month, DaysIn(year, month), EndOfDay)

\* AddDate keeps the day of the month, whatever the length of the new month.
MonthEnd(k) == Date(year, month + k, DaysIn(year, month), EndOfDay)

timeFromConfig(t) ==
    CASE t.identifier = "MonthStart" -> MonthStart(t.offset)
      [] t.identifier = "MonthEnd"   -> MonthEnd(t.offset)
      [] t.identifier = "TodayStart" -> Date(year, month, day + t.offset, 0)
      [] t.identifier = "TodayEnd"   -> Date(year, month, day + t.offset, EndOfDay)
      [] t.identifier = "Now"        -> Date(year, month, day, hour + t.offset)
      [] t.identifier = "YearEnd"    -> Date(year + t.offset, 12, 31, EndOfDay)

start == timeFromConfig(StartTime)
end   == timeFromConfig(EndTime)
now   == Date(year, month, day, hour)

-----------------------------------------------------------------------------

Init ==
    /\ year = FirstYear /\ month = 1 /\ day = 1 /\ hour = 0
    /\ StartTime \in SyncTime
    /\ EndTime \in SyncTime

NextHour ==
    /\ hour + Step < 24
    /\ hour' = hour + Step
    /\ UNCHANGED date

\* The clock stops at the end of LastYear.
NextDay ==
    /\ hour + Step >= 24
    /\ hour' = (hour + Step) % 24
    /\ IF day < DaysIn(year, month)
       THEN day' = day + 1 /\ UNCHANGED <<year, month>>
       ELSE /\ year < LastYear \/ month < 12
            /\ day' = 1
            /\ month' = (month % 12) + 1
            /\ year' = IF month = 12 THEN year + 1 ELSE year

Next == (NextHour \/ NextDay) /\ UNCHANGED <<StartTime, EndTime>>

Spec == Init /\ [][Next]_vars

-----------------------------------------------------------------------------
(* Properties *)

\* Neither end of a window ever moves back: an event that a run has seen leaves
\* the window only at its start, so that no copy a run has made is out of reach
\* of the next run because the month changed (timeFromConfig).
WindowAdvances == [][/\ now' = now + Step
                     /\ start' >= start
                     /\ end' >= end]_vars

\* The window of a rule that says nothing else, and the month before this one.
Default == /\ StartTime = [identifier |-> "MonthStart", offset |-> -1]
           /\ EndTime = [identifier |-> "MonthEnd", offset |-> 1]

LastMonth == IF month = 1 THEN <<year - 1, 12>> ELSE <<year, month - 1>>

\* The default window begins with the last month, also in January, and it reaches
\* as far beyond the end of this month as this month is long: neither a carry into
\* the year nor the day that AddDate keeps costs it more (timeFromConfig).
DefaultReaches ==
    Default => /\ start = 24 * FirstDay(LastMonth[1], LastMonth[2])
               /\ end = 24 * (FirstDay(year, month) + 2 * DaysIn(year, month)) - 1
=============================================================================
