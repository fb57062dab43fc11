------------------------------ MODULE Calendar ------------------------------
(***************************************************************************)
(* extend/time: the arithmetic of ActorGoTime, which the tests of the      *)
(* repository only log.  A time is its date and its second of the day, in  *)
(* a zone without daylight saving, and beside it its fraction of a second, *)
(* which the moves keep and the starts and ends set to 0.                  *)
(* Go's package time, which normalises dates, is external.                 *)
(***************************************************************************)
EXTENDS Integers

CONSTANTS Times,        \* where a caller starts; may include the zero time
          Amounts,      \* how far it travels, forwards and backwards
          Fractions,    \* nanoseconds of a second
          MaxMoves      \* bound: moves in a row

VARIABLES ct, fraction, \* the ActorGoTime: to the second, and its nanosecond
          was, moved    \* history: the time before the last move, and the move

calendarVars == <<ct, fraction, was, moved>>

DaysPerWeek == 7
MonthsPerYear == 12
SecondsPerDay == 86400
Nanoseconds == 1000000000  \* of a second
-----------------------------------------------------------------------------
(* time.Date, AddDate, Weekday. *)

Leap(y) == y % 400 = 0 \/ (y % 4 = 0 /\ y % 100 # 0)
LeapDay(y) == IF Leap(y) THEN 1 ELSE 0
BeforeYear(y) == 365 * (y - 1) + (y - 1) \div 4 - (y - 1) \div 100 + (y - 1) \div 400
BeforeMonth(y, m) ==
    <<0, 31, 59, 90, 120, 151, 181, 212, 243, 273, 304, 334>>[m] + IF m > 2 THEN LeapDay(y) ELSE 0
LengthOf(t) == (<<31, 28, 31, 30, 31, 30, 31, 31, 30, 31, 30, 31>>)[t.month] + IF t.month = 2 THEN LeapDay(t.year) ELSE 0
DayNumber(t) == BeforeYear(t.year) + BeforeMonth(t.year, t.month) + t.day

\* The dates there are, each with the seconds of its day.
Seconds == 0..SecondsPerDay - 1
Dates == {t \in [year : Int, month : 1..12, day : 1..31, sec : Seconds] : t.day <= LengthOf(t)}

ASSUME CalendarAssumption ==
    Times \subseteq Dates /\ Amounts \subseteq Int /\ MaxMoves \in Nat /\ Fractions \subseteq 0..Nanoseconds - 1

\* The date of a day: 1 is the first day of the year 1.
YearAt(n) ==
    LET least == 400 * (n \div 146097) + ((n % 146097) \div 366) IN
    CHOOSE y \in least .. least + 2 : BeforeYear(y) < n /\ n <= BeforeYear(y + 1)
MonthAt(y, d) == CHOOSE m \in 1..12 : BeforeMonth(y, m) < d /\ (m = 12 \/ d <= BeforeMonth(y, m + 1))
Civil(n, sec) ==
    LET y == YearAt(n) d == n - BeforeYear(y) m == MonthAt(y, d) IN
    [year |-> y, month |-> m, day |-> d - BeforeMonth(y, m), sec |-> sec]

\* Months, days and seconds outside their range are carried over.
Date(year, month, day, sec) ==
    LET y == year + (month - 1) \div 12 m == ((month - 1) % 12) + 1 IN
    Civil(BeforeYear(y) + BeforeMonth(y, m) + day + sec \div SecondsPerDay, sec % SecondsPerDay)
AddDate(t, years, months, days) == Date(t.year + years, t.month + months, t.day + days, t.sec)
Add(t, seconds) == Date(t.year, t.month, t.day, t.sec + seconds)
Weekday(t) == DayNumber(t) % 7
Before(s, t) == DayNumber(s) < DayNumber(t) \/ (DayNumber(s) = DayNumber(t) /\ s.sec < t.sec)
-----------------------------------------------------------------------------
(* time_get.go: the zero time has no parts.  Behind it, the rest of its    *)
(* second is left out: no time with a fraction is in it.  The starts and   *)
(* the ends have the fraction 0.                                           *)

IsZero(t) == t = [year |-> 1, month |-> 1, day |-> 1, sec |-> 0]
Year(t) == IF IsZero(t) THEN 0 ELSE t.year
Month(t) == IF IsZero(t) THEN 0 ELSE t.month
Day(t) == IF IsZero(t) THEN 0 ELSE t.day
IsLeapYear(t) == Leap(Year(t))
DaysInYear(t) == IF IsZero(t) THEN 0 ELSE IF IsLeapYear(t) THEN 366 ELSE 365
DayOfYear(t) == IF IsZero(t) THEN 0 ELSE DayNumber(t) - BeforeYear(t.year)
DayOfWeek(t) == IF IsZero(t) THEN 0 ELSE IF Weekday(t) = 0 THEN DaysPerWeek ELSE Weekday(t)
Quarter(t) ==
    IF Month(t) >= 10 THEN 4 ELSE IF Month(t) >= 7 THEN 3
    ELSE IF Month(t) >= 4 THEN 2 ELSE IF Month(t) >= 1 THEN 1 ELSE 0

StartOfYear(t) == Date(t.year, 1, 1, 0)
EndOfYear(t) == Date(t.year, 12, 31, SecondsPerDay - 1)
StartOfMonth(t) == Date(t.year, t.month, 1, 0)
EndOfMonth(t) == AddDate(Date(t.year, t.month, 1, SecondsPerDay - 1), 0, 1, -1)
StartOfWeek(t) == AddDate(Date(t.year, t.month, t.day, 0), 0, 0, 1 - (IF Weekday(t) = 0 THEN 7 ELSE Weekday(t)))
\* Mutant: Sunday is the first day, as Weekday counts.
EndOfWeek_Sunday(t) == AddDate(Date(t.year, t.month, t.day, SecondsPerDay - 1), 0, 0, 7 - Weekday(t))
EndOfWeek(t) ==
    AddDate(Date(t.year, t.month, t.day, SecondsPerDay - 1), 0, 0, 7 - (IF Weekday(t) = 0 THEN 7 ELSE Weekday(t)))
StartOfDay(t) == Date(t.year, t.month, t.day, 0)
EndOfDay(t) == Date(t.year, t.month, t.day, SecondsPerDay - 1)
StartOfHour(t) == [t EXCEPT !.sec = @ - (@ % 3600)]
EndOfHour(t) == [t EXCEPT !.sec = @ - (@ % 3600) + 3599]
StartOfMinute(t) == [t EXCEPT !.sec = @ - (@ % 60)]
EndOfMinute(t) == [t EXCEPT !.sec = @ - (@ % 60) + 59]
DaysInMonth(t) == IF IsZero(t) THEN 0 ELSE EndOfMonth(t).day
-----------------------------------------------------------------------------
(* time_diff.go: Go divides towards zero. *)

Quotient(a, b) == IF a < 0 THEN -((-a) \div b) ELSE a \div b
Abs(a) == IF a < 0 THEN -a ELSE a

DiffInSeconds(c, end) == (DayNumber(end) - DayNumber(c)) * SecondsPerDay + end.sec - c.sec
DiffInMinutes(c, end) == Quotient(DiffInSeconds(c, end), 60)
DiffInHours(c, end) == Quotient(DiffInSeconds(c, end), 3600)
DiffInDays(c, end) == Quotient(DiffInSeconds(c, end), SecondsPerDay)
DiffInWeeks(c, end) == Quotient(DiffInDays(c, end), DaysPerWeek)
DiffInMonths(c, end) ==
    LET dy == Year(end) - Year(c)
        dd == Day(end) - Day(c)
        dm == Month(end) - Month(c) - (IF dd < 0 THEN 1 ELSE 0) IN
    IF dy = 0 /\ dm = 0 THEN 0
    ELSE IF dy = 0 /\ dd # 0 /\ Abs(DiffInHours(end, c)) < DaysInMonth(c) * 24 THEN 0
    ELSE dy * MonthsPerYear + dm
DiffInYears(c, end) == Quotient(DiffInMonths(c, end), 12)
-----------------------------------------------------------------------------
(* time_traveler.go: Sub* is Add* of the negative amount. *)

AddYears(t, n) == AddDate(t, n, 0, 0)
AddMonths(t, n) == AddDate(t, 0, n, 0)
AddQuarters(t, n) == AddMonths(t, 3 * n)
AddCenturies(t, n) == AddYears(t, 100 * n)
AddDays(t, n) == AddDate(t, 0, 0, n)
AddWeeks(t, n) == AddDays(t, n * DaysPerWeek)
AddHours(t, n) == Add(t, 3600 * n)
AddMinutes(t, n) == Add(t, 60 * n)
AddSeconds(t, n) == Add(t, n)

\* The day of t in the month whose last day is given, or that last day.
WithDay(t, last) == Date(last.year, last.month, IF Day(t) < last.day THEN Day(t) ELSE last.day, t.sec)

AddYearsNoOverflow(t, n) == WithDay(t, AddDate(Date(Year(t) + n, t.month, 1, t.sec), 0, 1, -1))
\* Mutant: AddDate instead of the look at the last day of the month.
AddMonthsNoOverflow_Carries(t, n) == AddDate(t, 0, n, 0)
AddMonthsNoOverflow(t, n) == WithDay(t, AddDate(Date(Year(t), t.month + n, 1, t.sec), 0, 1, -1))
AddQuartersNoOverflow(t, n) == AddMonthsNoOverflow(t, 3 * n)
AddCenturiesNoOverflow(t, n) == AddYearsNoOverflow(t, 100 * n)

Move(kind, months, seconds, to) ==
    /\ moved.count < MaxMoves /\ (fraction = 0 \/ ~IsZero(to)) /\ was' = ct /\ ct' = to /\ UNCHANGED fraction
    /\ moved' = [count |-> moved.count + 1, kind |-> kind, months |-> months, seconds |-> seconds]

\* By each unit, one or several, forwards (Add) or backwards (Sub).
ByCenturies(n) ==
    Move("carry", 1200 * n, 0, AddCenturies(ct, n)) \/ Move("clip", 1200 * n, 0, AddCenturiesNoOverflow(ct, n))
ByYears(n) == Move("carry", 12 * n, 0, AddYears(ct, n)) \/ Move("clip", 12 * n, 0, AddYearsNoOverflow(ct, n))
ByQuarters(n) == Move("carry", 3 * n, 0, AddQuarters(ct, n)) \/ Move("clip", 3 * n, 0, AddQuartersNoOverflow(ct, n))
ByMonths(n) == Move("carry", n, 0, AddMonths(ct, n)) \/ Move("clip", n, 0, AddMonthsNoOverflow(ct, n))
ByWeeks(n) == Move("time", 0, n * 7 * SecondsPerDay, AddWeeks(ct, n))
ByDays(n) == Move("time", 0, n * SecondsPerDay, AddDays(ct, n))
ByHours(n) == Move("time", 0, n * 3600, AddHours(ct, n))
ByMinutes(n) == Move("time", 0, n * 60, AddMinutes(ct, n))
BySeconds(n) == Move("time", 0, n, AddSeconds(ct, n))

CalendarInit ==
    /\ ct \in Times /\ fraction \in Fractions /\ (fraction = 0 \/ ~IsZero(ct))
    /\ was = ct /\ moved = [count |-> 0, kind |-> "none", months |-> 0, seconds |-> 0]
CalendarNext == \E n \in Amounts :
    \/ ByCenturies(n) \/ ByYears(n) \/ ByQuarters(n) \/ ByMonths(n) \/ ByWeeks(n)
    \/ ByDays(n) \/ ByHours(n) \/ ByMinutes(n) \/ BySeconds(n)
CalendarSpec == CalendarInit /\ [][CalendarNext]_calendarVars
-----------------------------------------------------------------------------
MonthIndex(t) == 12 * t.year + t.month

\* One time, with its fraction, is before another.
Earlier(s, m, t, n) == Before(s, t) \/ (s = t /\ m < n)

\* The time is not before the start of its period and before the start of the next one,
\* which is a second behind the end.  The end is the beginning of the last second, in the
\* same period: a time is behind it only within that second.
Period(start, end, startOfEnd, startOfNext) ==
    /\ ~Earlier(ct, fraction, start, 0) /\ Earlier(ct, fraction, startOfNext, 0)
    /\ Earlier(end, 0, ct, fraction) => ct = end
    /\ startOfEnd = start /\ startOfNext = Add(end, 1)

\* A time that travels by months arrives in the month it was sent to, on the same day
\* or, where NoOverflow says so, on the last day of a shorter month, and at the same
\* second; without NoOverflow the days it lacks are carried into the month behind.  By
\* weeks and less it travels for exactly that long, and the difference to the time
\* before is what was added.  The starts of year, month, week, day, hour and minute and
\* of the next one enclose the time, and the end is the beginning of the last second of
\* the period: it does not enclose a time within that second (AddMonthsNoOverflow,
\* AddYearsNoOverflow, DiffInMonths, DiffInSeconds, EndOfMonth, EndOfWeek).  The zero
\* time is left out: its Year and Day are 0, and it is sent to a year too early.
CalendarAgrees == moved.count > 0 =>
    /\ moved.kind \in {"clip", "carry"} /\ ~IsZero(was) =>
          LET target == Date(was.year, was.month + moved.months, 1, was.sec)
              exists == was.day <= LengthOf(target) IN
          /\ exists => MonthIndex(ct) = MonthIndex(was) + moved.months /\ ct.day = was.day
                       /\ (~IsZero(ct) => /\ DiffInMonths(was, ct) = moved.months
                                          /\ DiffInYears(was, ct) = Quotient(moved.months, 12))
          /\ ~exists => IF moved.kind = "clip"
                        THEN MonthIndex(ct) = MonthIndex(target) /\ ct.day = LengthOf(target)
                        ELSE MonthIndex(ct) = MonthIndex(target) + 1 /\ ct.day = was.day - LengthOf(target)
          /\ ct.sec = was.sec
    /\ moved.kind = "time" => /\ DiffInSeconds(was, ct) = moved.seconds
                              /\ DiffInMinutes(was, ct) = Quotient(moved.seconds, 60)
                              /\ DiffInWeeks(was, ct) = Quotient(moved.seconds, 7 * SecondsPerDay)
    /\ LET end == EndOfYear(ct) IN Period(StartOfYear(ct), end, StartOfYear(end), StartOfYear(Add(end, 1)))
    /\ LET end == EndOfMonth(ct) IN Period(StartOfMonth(ct), end, StartOfMonth(end), StartOfMonth(Add(end, 1)))
    /\ LET end == EndOfWeek(ct) IN Period(StartOfWeek(ct), end, StartOfWeek(end), StartOfWeek(Add(end, 1)))
    /\ LET end == EndOfDay(ct) IN Period(StartOfDay(ct), end, StartOfDay(end), StartOfDay(Add(end, 1)))
    /\ LET end == EndOfHour(ct) IN Period(StartOfHour(ct), end, StartOfHour(end), StartOfHour(Add(end, 1)))
    /\ LET end == EndOfMinute(ct) IN Period(StartOfMinute(ct), end, StartOfMinute(end), StartOfMinute(Add(end, 1)))
    /\ ~IsZero(ct) => /\ DayOfYear(ct) \in 1..DaysInYear(ct) /\ DaysInMonth(ct) = LengthOf(ct)
                      /\ DayOfWeek(ct) = 1 + DiffInDays(StartOfWeek(ct), ct)
                      /\ ct.month \in 3 * Quarter(ct) - 2 .. 3 * Quarter(ct)
=============================================================================
