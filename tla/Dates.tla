-------------------------------- MODULE Dates --------------------------------
(* The date arithmetic of common/CommonTools.cpp.  A date is a record of    *)
(* year, month and day, a day is counted from 1 January 1970, and a stamp   *)
(* in hours: the functions truncate towards zero, so a time within an hour  *)
(* takes the path of its beginning, before 1970 (a negative stamp) of its   *)
(* end.                                                                     *)
EXTENDS Integers, FiniteSets

CONSTANTS
  FirstYear, LastYear,   \* the calendar, every day of these years
  Hours                  \* the hours of a day that are converted

(* FastSecondToDate counts the minutes from 1970 in an int, which ends in   *)
(* January 6053.                                                            *)
ASSUME CalendarAssumption ==
  /\ FirstYear \in 1970 .. LastYear /\ LastYear \in 1970 .. 6052
  /\ Hours \subseteq 0 .. 23

VARIABLES
  date, day   \* a date, and the days from 1 January 1970 to it

(* C's integer division, which truncates towards zero (b > 0).             *)
CDiv(a, b) == IF a >= 0 THEN a \div b ELSE -((-a) \div b)

-----------------------------------------------------------------------------
(* The Gregorian calendar the functions are compared with.                 *)
Leap(y) == y % 4 = 0 /\ (y % 100 # 0 \/ y % 400 = 0)

MonthLength(y, m) ==
  CASE m = 2 -> IF Leap(y) THEN 29 ELSE 28
    [] m \in {4, 6, 9, 11} -> 30
    [] OTHER -> 31

Date(y, m, d) == [y |-> y, m |-> m, d |-> d]

NextDate(t) ==
  IF t.d < MonthLength(t.y, t.m) THEN Date(t.y, t.m, t.d + 1)
  ELSE IF t.m < 12 THEN Date(t.y, t.m + 1, 1)
  ELSE Date(t.y + 1, 1, 1)

(* The days from 1 January 1970 to 1 January of year y.                    *)
NewYear(y) == 365 * (y - 1970) + Cardinality({k \in 1970 .. y - 1 : Leap(k)})

-----------------------------------------------------------------------------
(* To a day                                                                *)

Mos == <<0, 31, 59, 90, 120, 151, 181, 212, 243, 273, 304, 334>>
LMos == <<0, 31, 60, 91, 121, 152, 182, 213, 244, 274, 305, 335>>

(* Daysto: the leap days of the years from 1900 on, and the days of the    *)
(* months before this one.  The table is chosen by the year's last two     *)
(* bits alone.                                                              *)
Daysto(year, month) ==
  LET end == year - 1 IN
  (IF year > 0 THEN CDiv(end, 4) - CDiv(end, 100) + CDiv(1900 + end, 400) - 4
   ELSE IF year <= -4 THEN 1 + CDiv(4 - year, 4) ELSE 0)
  + (IF year % 4 # 0 \/ year = 0 THEN Mos ELSE LMos)[month]

(* The day tmtoT gives a struct tm of that date.                           *)
TmtoT(year, month, mday) == Daysto(year, month) - 1 + 365 * year + mday - (70 * 365 + 17)

(* standard_to_stamp3, 4 and 5 count the years of a struct tm from 1900,   *)
(* standard_to_stamp_ext and 2 from 1920.                                  *)
Stamp(t) == TmtoT(t.y - 1900, t.m, t.d)
StampExt(t) == TmtoT(t.y - 1920, t.m, t.d)

(* Mutant: January and February stay in their own year.                    *)
MktimeThisYear(t) ==
  LET early == t.m <= 2
      mon == IF early THEN t.m + 10 ELSE t.m - 2
      year == t.y
  IN  CDiv(year, 4) - CDiv(year, 100) + CDiv(year, 400) + CDiv(367 * mon, 12)
      + t.d + year * 365 - 719499

(* self_mktime puts February last, since it has the leap day.              *)
Mktime(t) ==
  LET early == t.m <= 2
      mon == IF early THEN t.m + 10 ELSE t.m - 2
      year == IF early THEN t.y - 1 ELSE t.y
  IN  CDiv(year, 4) - CDiv(year, 100) + CDiv(year, 400) + CDiv(367 * mon, 12)
      + t.d + year * 365 - 719499

-----------------------------------------------------------------------------
(* From a day                                                              *)

(* FastSecondToDate, and the base year and month its callers add: 1900 in  *)
(* DateToStringExt3 and DateTimeToString, 1920 in DateToStringExt and 2.   *)
(* A stamp before 1970 is truncated upwards to its day.                     *)
ToDate(hours, base) ==
  LET a == CDiv(hours, 24) + 2472632
      b == CDiv(a * 4 + 3, 146097)
      c == CDiv(-b * 146097, 4) + a
      d == CDiv(c * 4 + 3, 1461)
      e == CDiv(-d * 1461, 4) + c
      m == CDiv(5 * e + 2, 153)
  IN  Date(b * 100 + d - 6700 + CDiv(m, 10) + base, CDiv(-m, 10) * 12 + m + 3,
           CDiv(-(153 * m + 2), 5) + e + 1)

-----------------------------------------------------------------------------
(* Checks and zones                                                        *)

(* DateVerify                                                              *)
DateVerify(y, m, d) ==
  /\ m \in 1 .. 12 /\ d \in 1 .. 31 /\ y \in 1990 .. 2169
  /\ m \in {4, 6, 9, 11} => d <= 30
  /\ m = 2 => d <= IF (y % 4 = 0 /\ y % 100 # 0) \/ y % 400 = 0 THEN 29 ELSE 28
  /\ y = 2169 => m < 6 \/ (m = 6 /\ d <= 6)

(* lastday, in UTCToBeijing and BeijingToUTC.                              *)
LastDay(y, m) ==
  CASE m \in {1, 3, 5, 7, 8, 10, 12} -> 31
    [] m \in {4, 6, 9, 11} -> 30
    [] OTHER -> IF y % 400 = 0 \/ (y % 4 = 0 /\ y % 100 # 0) THEN 29 ELSE 28

(* UTCToBeijing                                                            *)
UTCToBeijing(t, hour) ==
  LET later == t.d + 1 IN
  IF hour + 8 < 24 THEN <<t, hour + 8>>
  ELSE IF later <= LastDay(t.y, t.m) THEN <<Date(t.y, t.m, later), hour - 16>>
  ELSE IF t.m < 12 THEN <<Date(t.y, t.m + 1, later - LastDay(t.y, t.m)), hour - 16>>
  ELSE <<Date(t.y + 1, 1, later - LastDay(t.y, t.m)), hour - 16>>

(* BeijingToUTC: the day before the first of a month is the last day of    *)
(* that same month, lastday, not of the one before (lastlastday is unused).*)
BeijingToUTC(t, hour) ==
  IF hour >= 8 THEN <<t, hour - 8>>
  ELSE IF t.d > 1 THEN <<Date(t.y, t.m, t.d - 1), hour + 16>>
  ELSE IF t.m > 1 THEN <<Date(t.y, t.m - 1, LastDay(t.y, t.m)), hour + 16>>
  ELSE <<Date(t.y - 1, 12, LastDay(t.y, t.m)), hour + 16>>

-----------------------------------------------------------------------------
(* The days of a year, one after the other.  A behaviour about another      *)
(* subject has no date.                                                     *)
NoDate == Date(0, 1, 1)

CalendarInit ==
  \/ date = NoDate /\ day = 0
  \/ \E year \in FirstYear .. LastYear : date = Date(year, 1, 1) /\ day = NewYear(year)

NextDay ==
  /\ date # NoDate /\ ~(date.m = 12 /\ date.d = 31)
  /\ date' = NextDate(date) /\ day' = day + 1

CalendarSpec == CalendarInit /\ [][NextDay]_<<date, day>>

(* A date and its day are one: both ways to a stamp number the days of the *)
(* calendar, and the way back gives the date again at every hour.  tmtoT   *)
(* takes every fourth year for a leap year: one day too many from March to *)
(* December of 2100, 2200, ...                                             *)
StampsNumberDays ==
  /\ Stamp(date) = day + IF date.y % 4 = 0 /\ ~Leap(date.y) /\ date.m > 2 THEN 1 ELSE 0
  /\ Mktime(date) = day
  /\ \A h \in Hours : ToDate(24 * day + h, 1900) = date

(* The functions that count years from 1920 undo each other too, on every  *)
(* leap day and turn of a year, but for two kinds of days that come back as *)
(* the next: from 29 February on in the years they take for 2100, 2200 ..., *)
(* and before 1990, where the stamp is negative, unless it is midnight.    *)
ShiftedStampsReturn ==
  \A h \in Hours :
    LET assumed == date.y - 20
        ahead == assumed % 4 = 0 /\ ~Leap(assumed) /\ (date.m > 2 \/ (date.m = 2 /\ date.d = 29))
        early == assumed < 1970 /\ h > 0
    IN  ToDate(24 * StampExt(date) + h, 1920) = IF ahead \/ early THEN NextDate(date) ELSE date

(* DateVerify accepts the days of the calendar and no other, within the    *)
(* range its comment gives, 1990-01-01 to 2169-06-06.                       *)
VerifiesCalendar ==
  \A m \in 0 .. 13, d \in 0 .. 32 :
    DateVerify(date.y, m, d) <=>
      /\ date.y \in 1990 .. 2169
      /\ m \in 1 .. 12 /\ d \in 1 .. MonthLength(date.y, m)
      /\ date.y = 2169 => m < 6 \/ (m = 6 /\ d <= 6)

(* Beijing is eight hours ahead, over the end of every month and year.     *)
BeijingIsAhead ==
  \A h \in Hours :
    UTCToBeijing(date, h) =
      IF h < 16 THEN <<date, h + 8>> ELSE <<NextDate(date), h - 16>>

(* BeijingToUTC undoes UTCToBeijing, but for the first eight hours of a    *)
(* month that is not as long as the one before, where it names the last    *)
(* day of the wrong month.                                                  *)
BackToUTC ==
  \A h \in Hours :
    LET there == UTCToBeijing(date, h)
        back == BeijingToUTC(there[1], there[2])
    IN  IF h >= 16 /\ date.d = MonthLength(date.y, date.m)
           /\ date.d # MonthLength(there[1].y, there[1].m)
          THEN back = <<Date(date.y, date.m, MonthLength(there[1].y, there[1].m)), h>>
          ELSE back = <<date, h>>

(* Days are numbered, checked and moved between zones by the calendar, but *)
(* for the days named above.                                               *)
CalendarSound ==
  date # NoDate =>
    /\ StampsNumberDays
    /\ ShiftedStampsReturn
    /\ VerifiesCalendar
    /\ BeijingIsAhead
    /\ BackToUTC
=============================================================================
