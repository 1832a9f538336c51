------------------------------- MODULE RZDate -------------------------------
(***************************************************************************)
(* cRZDate and cRZTime (src/framework/rz): a date is its Julian day, a time*)
(* is counted from 1 January 1901 in universal time, here in hours, and is *)
(* shown in local time with summer time.                                   *)
(***************************************************************************)
EXTENDS Integers

CONSTANTS
  Days,       \* Julian days that dates go through
  Hours,      \* that times go through
  TimeZones   \* hours that local time is behind universal time

ASSUME DateAssumption ==
  /\ Days \subseteq Nat /\ \A j \in Days : j > 1721119
  /\ Hours \subseteq Nat /\ TimeZones \subseteq -12 .. 12

VARIABLES
  mnJulianDate,
  mnTime,
  _timezone, _daylight   \* of the C library

dateVars == <<mnJulianDate, mnTime, _timezone, _daylight>>

-----------------------------------------------------------------------------
(* Dates.                                                                  *)

IsLeapYearAlways(year) == year % 4 = 0

IsLeapYear(year) == (year % 4 = 0 /\ year % 100 # 0) \/ year % 400 = 0

DaysInMonth(month, year) ==
  <<31, 28, 31, 30, 31, 30, 31, 31, 30, 31, 30, 31>>[month]
    + (IF IsLeapYear(year) /\ month = 2 THEN 1 ELSE 0)

DayWithinMonth(month, day, year) ==
  month \in 1 .. 12 /\ day \in 1 .. DaysInMonth(month, year)

(* The year begins in March; a date that does not exist is day 0.          *)
Jday(month, day, year) ==
  LET early     == month <= 2
      adj_month == IF early THEN month + 9 ELSE month - 3
      adj_year  == IF early THEN year - 1 ELSE year
  IN  IF ~DayWithinMonth(month, day, year) THEN 0
      ELSE day + (153 * adj_month + 2) \div 5 + (1461 * (adj_year % 100)) \div 4
             + (146097 * (adj_year \div 100)) \div 4 + 1721119

Mdy(jday) ==
  LET a == 4 * (jday - 1721119)
      b == (a - 1) \div 146097
      q == a - 146097 * b - 1
      c == q - (q % 4)
      d == (c + 3) \div 1461
      e == 5 * ((c - 1461 * d + 7) \div 4)
      f == (e - 3) \div 153
      y == d + 100 * b
  IN  [month |-> IF f > 9 THEN f - 9 ELSE f + 3,
       day   |-> (e - 153 * f + 2) \div 5,
       year  |-> IF f > 9 THEN y + 1 ELSE y]

(* Monday is 1.                                                            *)
DayOfWeek(jday) == ((((jday + 1) % 7) + 6) % 7) + 1

Previous(jday, days) ==
  LET day_of_week == DayOfWeek(jday) - 1
      d           == days - 1
  IN  jday - (IF d <= day_of_week THEN day_of_week - d ELSE 7 - d + day_of_week)

-----------------------------------------------------------------------------
(* Times.                                                                  *)

RefDate == 2415386

DayNumber(day) == day + RefDate

BuildLocal(jday, offset) == _timezone + offset + 24 * (jday - RefDate)

BeginDST(year) ==
  CASE year = 1974 -> BuildLocal(Jday(1, 6, 1974), 2)
    [] year = 1975 -> BuildLocal(Jday(2, 23, 1975), 2)
    [] OTHER       -> BuildLocal(Previous(Jday(4, 8, year), 7), 2)

EndDSTAtTwo(year) == BuildLocal(Previous(Jday(10, 31, year), 7), 2)

EndDST(year) == BuildLocal(Previous(Jday(10, 31, year), 7), 1)

IsDST(time) ==
  LET year == Mdy(DayNumber(time \div 24)).year
  IN  _daylight /\ BeginDST(year) <= time /\ time < EndDST(year)

(* Local time is asked whether it is in summer, not universal time.        *)
LocalHours(time) ==
  LET local_time == time - _timezone
  IN  IF IsDST(local_time) THEN local_time + 1 ELSE local_time

-----------------------------------------------------------------------------
(* A date that goes on by a day, or a time that goes on by an hour.        *)
NextDay ==
  /\ mnJulianDate + 1 \in Days
  /\ mnJulianDate' = mnJulianDate + 1
  /\ UNCHANGED <<mnTime, _timezone, _daylight>>

NextHour ==
  /\ mnTime + 1 \in Hours
  /\ mnTime' = mnTime + 1
  /\ UNCHANGED <<mnJulianDate, _timezone, _daylight>>

-----------------------------------------------------------------------------
(* Properties.                                                             *)
DateTypeOK ==
  /\ mnJulianDate \in Days /\ mnTime \in Hours
  /\ _timezone \in TimeZones /\ _daylight \in BOOLEAN

Following(date) ==
  IF DayWithinMonth(date.month, date.day + 1, date.year)
    THEN [date EXCEPT !.day = @ + 1]
  ELSE IF date.month < 12
    THEN [month |-> date.month + 1, day |-> 1, year |-> date.year]
    ELSE [month |-> 1, day |-> 1, year |-> date.year + 1]

(* The days follow each other as the calendar's do, over the ends of       *)
(* months, leap years and centuries; a date and its day determine each     *)
(* other; and Previous finds the last day of that name, the day itself     *)
(* included.  1 January 2000 was a Saturday.                               *)
DaysOfCalendar ==
  LET date == Mdy(mnJulianDate)
  IN  /\ Jday(date.month, date.day, date.year) = mnJulianDate
      /\ Mdy(mnJulianDate + 1) = Following(date)
      /\ DayOfWeek(mnJulianDate) = ((mnJulianDate - Jday(1, 1, 2000) + 5) % 7) + 1
      /\ \A days \in 1 .. 7 :
           LET previous == Previous(mnJulianDate, days)
           IN  /\ DayOfWeek(previous) = days
               /\ previous <= mnJulianDate /\ mnJulianDate < previous + 7

(* The first Sunday of April, but the second if the first is the 1st.      *)
SundayOfApril(year) ==
  CHOOSE j \in Jday(4, 2, year) .. Jday(4, 8, year) : DayOfWeek(j) = 7

LastSundayOfOctober(year) ==
  CHOOSE j \in Jday(10, 25, year) .. Jday(10, 31, year) : DayOfWeek(j) = 7

(* Local time is in summer from 2 o'clock of a Sunday of April to 2        *)
(* o'clock in summer of the last Sunday of October - but both changes are  *)
(* late by the hours that local time is behind, since the times of the     *)
(* changes are universal and are compared with local time.                 *)
SummerTime ==
  LET standard == mnTime - _timezone
      year     == Mdy(RefDate + standard \div 24).year
      begin    == 24 * (SundayOfApril(year) - RefDate) + 2 + _timezone
      end      == 24 * (LastSundayOfOctober(year) - RefDate) + 1 + _timezone
      summer   == _daylight /\ year \notin {1974, 1975} /\ begin <= standard /\ standard < end
  IN  year \notin {1974, 1975} =>
        LocalHours(mnTime) = standard + (IF summer THEN 1 ELSE 0)
=============================================================================
