---------------------------- MODULE GregorianClock ----------------------------
(***************************************************************************)
(* The calendar arithmetic of clock.c: a clock is a number of seconds      *)
(* since 1970-01-01, here the number of a day and the second of the day,   *)
(* and it is turned into a date and back by hand.                          *)
(*                                                                         *)
(* The state is a clock that moves as degrib moves its times, by days and  *)
(* by months, beside a calendar that is moved a day or a month at a time   *)
(* and knows nothing of day numbers.                                       *)
(***************************************************************************)
EXTENDS Integers

CONSTANTS Starts,      \* the years on whose January 1st the clock may start
          Span,        \* how many years it then runs
          Months,      \* the numbers of months that are added
          TimeZones,   \* hours to add to local time to get UTC
          Seconds      \* the seconds of the day that are looked at

ASSUME ClockAssumption == /\ Starts \subseteq Int /\ Span \in Nat /\ Months \subseteq Int
                          /\ TimeZones \subseteq Int
                          /\ \A s \in Seconds : s \in Nat /\ s < 86400

VARIABLES totDay,      \* the day of the clock
          date,        \* the date of the calendar
          from         \* the year the walk started in

clockVars == <<totDay, date, from>>

PERIOD_YEARS == 146097
SEC_DAY == 86400

(* C rounds a quotient to 0, and a remainder has the sign of the dividend. *)
CDiv(a, b) == IF a >= 0 THEN a \div b ELSE -((-a) \div b)
CMod(a, b) == a - b * CDiv(a, b)

ISLEAPYEAR(y) == CMod(y, 400) = 0 \/ (CMod(y, 4) = 0 /\ CMod(y, 100) # 0)
-----------------------------------------------------------------------------
(* Clock_Epoch2YearDay: the year, and the day of the year from 0.          *)
DaysOf(years) == CASE years = 4 -> 1461 [] years = 3 -> 1096 [] years = 2 -> 731 [] years = 1 -> 366

(* A leap year and the years after it, as many as fit in n days.           *)
LeapStep(n) == IF n >= 1461 THEN 4 ELSE IF n >= 1096 THEN 3 ELSE IF n >= 731 THEN 2 ELSE 1

(* The loop for n days from the start of a year on.                        *)
YearsForward[n \in Nat] == [year \in Int |->
    IF n < 366
    THEN IF n = 365 /\ ~ISLEAPYEAR(year) THEN [year |-> year + 1, day |-> 0] ELSE [year |-> year, day |-> n]
    ELSE IF ISLEAPYEAR(year)
         THEN YearsForward[n - DaysOf(LeapStep(n))][year + LeapStep(n)]
         ELSE YearsForward[n - 365][year + 1]]

(* The loop for n days before the start of a year.                         *)
YearsBack[n \in Nat] == [year \in Int |->
    LET before == year - 1
    IN  IF n < 366
        THEN IF n > 0 THEN [year |-> before, day |-> (IF ISLEAPYEAR(before) THEN 366 ELSE 365) - n]
                      ELSE [year |-> year, day |-> 0]
        ELSE IF ISLEAPYEAR(before)
             THEN YearsBack[n - DaysOf(LeapStep(n))][year - LeapStep(n)]
             ELSE YearsBack[n - 365][before]]

(* Mutant: the last day of a year is always left in it.                    *)
Clock_Epoch2YearDayLong(n) ==
    LET periods == CDiv(n, PERIOD_YEARS)
        left == n - PERIOD_YEARS * periods
    IN  IF left = 365 THEN [year |-> 1970 + 400 * periods, day |-> 365]
        ELSE IF left >= 0 THEN YearsForward[left][1970 + 400 * periods]
        ELSE YearsBack[-left][1970 + 400 * periods]

Clock_Epoch2YearDay(n) ==
    LET periods == CDiv(n, PERIOD_YEARS)
        left == n - PERIOD_YEARS * periods
    IN  IF left >= 0 THEN YearsForward[left][1970 + 400 * periods]
                     ELSE YearsBack[-left][1970 + 400 * periods]

(* Mutant: August 31st is not an exception.                                *)
Clock_MonthNumPlain(day, year) ==
    LET common == IF ISLEAPYEAR(year) THEN day - 1 ELSE day
    IN  CASE day < 31 -> 1
          [] day >= 31 /\ common < 59 -> 2
          [] common >= 59 /\ common <= 89 -> 3
          [] OTHER -> CDiv((common + 64) * 5, 153) - 1

(* The month of a day of the year.                                         *)
Clock_MonthNum(day, year) ==
    LET common == IF ISLEAPYEAR(year) THEN day - 1 ELSE day
    IN  CASE day < 31 -> 1
          [] day >= 31 /\ common < 59 -> 2
          [] common >= 59 /\ common <= 89 -> 3
          [] common = 242 -> 8
          [] OTHER -> CDiv((common + 64) * 5, 153) - 1

(* Clock_NumDay: the day of the year of a date, and the days of a month.   *)
NumDayOfYear(month, day, year) ==
    IF month > 2 THEN CDiv((month + 1) * 153, 5) - (IF ISLEAPYEAR(year) THEN 63 ELSE 64) + day
                 ELSE (month - 1) * 31 + day - 1

NumDayOfMonth(month, year) ==
    CASE month = 1 -> 31
      [] month = 2 -> IF ISLEAPYEAR(year) THEN 29 ELSE 28
      [] OTHER -> IF CMod(CMod(month - 3, 5), 2) = 1 THEN 30 ELSE 31
-----------------------------------------------------------------------------
(* A clock is a day and a second of it, as floor(clock / SEC_DAY) splits   *)
(* it; Later adds seconds.                                                 *)
Clock(day, sec) == [day |-> day, sec |-> sec]

Later(clock, s) == Clock(clock.day + ((clock.sec + s) \div SEC_DAY), (clock.sec + s) % SEC_DAY)

Clock_PrintDate(clock) ==
    LET yd == Clock_Epoch2YearDay(clock.day)
        month == Clock_MonthNum(yd.day, yd.year)
    IN  [year |-> yd.year, month |-> month, day |-> yd.day - NumDayOfYear(month, 1, yd.year) + 1,
         hour |-> (clock.sec % 86400) \div 3600, min |-> (clock.sec % 3600) \div 60, sec |-> clock.sec % 60]

(* Clock_ScanDate's walk to a year from one that is n years before it, and *)
(* from one that is n years after it: how many years at once, in all.      *)
WalkStep(n) == CASE n > 4 -> 4 [] n = 4 -> 3 [] n = 3 -> 2 [] OTHER -> 1

DaysUp[n \in Nat] == [year \in Int |->
    LET temp == year - n
    IN  IF n = 0 THEN 0
        ELSE IF ~ISLEAPYEAR(temp) THEN 365 + DaysUp[n - 1][year]
        ELSE DaysOf(WalkStep(n)) + DaysUp[n - WalkStep(n)][year]]

DaysDown[n \in Nat] == [year \in Int |->
    LET before == year + n - 1
    IN  IF n = 0 THEN 0
        ELSE IF ~ISLEAPYEAR(before) THEN 365 + DaysDown[n - 1][year]
        ELSE DaysOf(WalkStep(n)) + DaysDown[n - WalkStep(n)][year]]

(* Mutant: the periods of 400 years of a date before 1970 are rounded down.*)
Clock_ScanDateFloor(year, month, day) ==
    LET temp == 1970 + 400 * CDiv(year - 1970, 400)
    IN  IF month \notin 1 .. 12 \/ day < 0 \/ day > NumDayOfMonth(month, year) THEN 0
        ELSE NumDayOfYear(month, day, year) + PERIOD_YEARS * ((year - 1970) \div 400)
             + (IF temp < year THEN DaysUp[year - temp][year] ELSE -DaysDown[temp - year][year])

(* A date that does not exist is 1970-01-01.                               *)
Clock_ScanDate(year, month, day) ==
    LET periods == CDiv(year - 1970, 400)
        temp == 1970 + 400 * periods
    IN  IF month \notin 1 .. 12 \/ day < 0 \/ day > NumDayOfMonth(month, year) THEN 0
        ELSE NumDayOfYear(month, day, year) + PERIOD_YEARS * periods
             + (IF temp < year THEN DaysUp[year - temp][year] ELSE -DaysDown[temp - year][year])

(* n is the record of the fields of YYYYMMDDhhmmss, which Clock_PrintDate  *)
(* prints (for the years 0 to 9999, the only ones with four digits).       *)
Clock_ScanDateNumber(n) ==
    Later(Clock(Clock_ScanDate(n.year, n.month, n.day), 0), n.sec + n.min * 60 + n.hour * 3600)

(* Mutant: the day is not cut down to the length of the new month.         *)
Clock_AddMonthYearPlain(day, incrMonth, incrYear) ==
    LET d == Clock_PrintDate(Clock(day, 0))
        year == d.year + ((d.month + incrMonth - 1) \div 12) + incrYear
    IN  Clock_ScanDate(year, ((d.month + incrMonth - 1) % 12) + 1, d.day)

Clock_AddMonthYear(day, incrMonth, incrYear) ==
    LET d == Clock_PrintDate(Clock(day, 0))
        year == d.year + ((d.month + incrMonth - 1) \div 12) + incrYear
        month == ((d.month + incrMonth - 1) % 12) + 1
        last == NumDayOfMonth(month, year)
    IN  Clock_ScanDate(year, month, IF d.day > last THEN last ELSE d.day)
-----------------------------------------------------------------------------
(* The seconds from the start of a year to the start and the end of        *)
(* daylight saving time, for a January 1st on a Sunday, a Monday, ...      *)
start2006 == <<7869600, 7783200, 8301600, 8215200, 8128800, 8042400, 7956000>>
end2006 == <<26010000, 25923600, 25837200, 25750800, 25664400, 26182800, 26096400>>
start2007 == <<6055200, 5968800, 5882400, 5796000, 5709600, 6228000, 6141600>>
end2007 == <<26614800, 26528400, 26442000, 26355600, 26269200, 26787600, 26701200>>

(* Leap years that start on this day have the Sunday a week later.         *)
WeekLater(year, first, day) == IF ISLEAPYEAR(year) /\ first = day THEN 604800 ELSE 0

(* Mutant: leap years are looked at as before 2007.                        *)
DaylightStartOld(year, first) ==
    IF year >= 2007 THEN start2007[first + 1] + WeekLater(year, first, 1)
                    ELSE start2006[first + 1] + WeekLater(year, first, 1)

DaylightStart(year, first) ==
    IF year >= 2007 THEN start2007[first + 1] + WeekLater(year, first, 4)
                    ELSE start2006[first + 1] + WeekLater(year, first, 1)

DaylightEnd(year, first) ==
    IF year >= 2007 THEN end2007[first + 1] + WeekLater(year, first, 4)
                    ELSE end2006[first + 1] + WeekLater(year, first, 4)

(* Before 1970 the remainder would be negative and not index the tables.   *)
Clock_IsDaylightSaving2(utc, timeZone) ==
    LET local == Later(utc, -timeZone * 3600)
        yd == Clock_Epoch2YearDay(local.day)
        secs == yd.day * SEC_DAY + local.sec
        first == CMod(4 + (local.day - yd.day), 7)
    IN  /\ secs >= DaylightStart(yd.year, first)
        /\ secs <= DaylightEnd(yd.year, first)
-----------------------------------------------------------------------------
(* The calendar, for reference: the length of a month and the next day.    *)
IsLeap(y) == IF y % 100 = 0 THEN y % 400 = 0 ELSE y % 4 = 0

Length(y, m) == CASE m \in {4, 6, 9, 11} -> 30 [] m = 2 -> (IF IsLeap(y) THEN 29 ELSE 28) [] OTHER -> 31

(* The number and the weekday (0 is Sunday) of a January 1st.              *)
LeapsBefore(y) == ((y - 1) \div 4) - ((y - 1) \div 100) + ((y - 1) \div 400)
NewYearsDay(y) == 365 * (y - 1970) + LeapsBefore(y) - LeapsBefore(1970)
NewYear(y) == [year |-> y, month |-> 1, day |-> 1, weekday |-> (4 + NewYearsDay(y)) % 7]

NextDay(d) ==
    LET on(y, m, day) == [year |-> y, month |-> m, day |-> day, weekday |-> (d.weekday + 1) % 7]
    IN  CASE d.day < Length(d.year, d.month) -> on(d.year, d.month, d.day + 1)
          [] d.day = Length(d.year, d.month) /\ d.month < 12 -> on(d.year, d.month + 1, 1)
          [] OTHER -> on(d.year + 1, 1, 1)

(* The years the walk from a year may reach.                               *)
Years(y) == y .. y + Span - 1
-----------------------------------------------------------------------------
ClockInit == \E y \in Starts : from = y /\ totDay = NewYearsDay(y) /\ date = NewYear(y)

(* Times are moved by seconds, here by a day of them.                      *)
Tomorrow ==
    /\ NextDay(date).year \in Years(from)
    /\ totDay' = totDay + 1
    /\ date' = NextDay(date)
    /\ UNCHANGED from

ClockSpec == ClockInit /\ [][Tomorrow]_clockVars
-----------------------------------------------------------------------------
DateOf(clock) == LET d == Clock_PrintDate(clock) IN <<d.year, d.month, d.day>>

(* The date Clock_PrintDate prints is that of the calendar, at every       *)
(* second of the day that is looked at, in leap years and others, before   *)
(* 1970 and after, and across the 400 years that are stepped over at once. *)
DatesAreRight ==
    \A s \in Seconds : DateOf(Clock(totDay, s)) = <<date.year, date.month, date.day>>

(* A clock that is printed as a number and scanned again is the same, so   *)
(* the two walks through the years, up to a date and down to one, agree.   *)
ScanInvertsPrint ==
    \A s \in Seconds : Clock_ScanDateNumber(Clock_PrintDate(Clock(totDay, s))) = Clock(totDay, s)

(* Clock_AddMonthYear, by which the time ranges of monthly grids are       *)
(* found, comes to the same day of the later or earlier month, or to its   *)
(* last day when the month is too short, never to another month.           *)
AddsMonths ==
    \A n \in Months :
        LET month == 12 * date.year + date.month - 1 + n
            y == month \div 12
            m == (month % 12) + 1
        IN  DateOf(Clock(Clock_AddMonthYear(totDay, n, 0), 0))
                = <<y, m, IF date.day <= Length(y, m) THEN date.day ELSE Length(y, m)>>

(* The Sundays of the month up to a date, and whether it has a later one.  *)
SundaysTo(d) == (d.day + 6 - d.weekday) \div 7
SundayToCome(d) == d.day + 7 - d.weekday <= Length(d.year, d.month)

HasStarted(d, sec, month, sunday) ==
    \/ d.month > month
    \/ d.month = month /\ SundaysTo(d) > sunday
    \/ d.month = month /\ SundaysTo(d) = sunday /\ (d.weekday # 0 \/ sec >= 7200)

HasNotEnded(d, sec) ==
    IF d.year >= 2007
    THEN \/ d.month < 11
         \/ d.month = 11 /\ SundaysTo(d) = 0
         \/ d.month = 11 /\ SundaysTo(d) = 1 /\ d.weekday = 0 /\ sec < 3600
    ELSE \/ d.month < 10
         \/ d.month = 10 /\ SundayToCome(d)
         \/ d.month = 10 /\ d.weekday = 0 /\ sec < 3600

(* The second, in standard time, at which the clocks are put back.         *)
EndsAt(d, sec) == /\ d.weekday = 0 /\ sec = 3600
                  /\ IF d.year >= 2007 THEN d.month = 11 /\ SundaysTo(d) = 1
                                       ELSE d.month = 10 /\ ~SundayToCome(d)

(* Since 1970, daylight saving time starts at 2 AM and ends at 1 AM        *)
(* standard time on the Sundays the comment above Clock_IsDaylightSaving2  *)
(* names: the first of April and the last of October, and since 2007 the   *)
(* second of March and the first of November, whatever the weekday of      *)
(* January 1st and in leap years too.  Of the very second at which it ends *)
(* nothing is said here, but in ClocksArePutBack.                          *)
DaylightIsRight ==
    date.year >= 1970 =>
        \A s \in Seconds, tz \in TimeZones :
            ~EndsAt(date, s) =>
                (Clock_IsDaylightSaving2(Later(Clock(totDay, s), tz * 3600), tz)
                    <=> /\ HasStarted(date, s, IF date.year >= 2007 THEN 3 ELSE 4, IF date.year >= 2007 THEN 2 ELSE 1)
                        /\ HasNotEnded(date, s))

(* When daylight saving time ends it has ended: "At 2 AM DT (or 1 AM ST)   *)
(* in October -> 1 AM ST (and we return 0)" (clock.c:738).  The code       *)
(* returns 1 at that second (secs <= end, clock.c:859).                    *)
ClocksArePutBack ==
    date.year >= 1970 =>
        \A s \in Seconds, tz \in TimeZones :
            EndsAt(date, s) => ~Clock_IsDaylightSaving2(Later(Clock(totDay, s), tz * 3600), tz)
=============================================================================
