------------------------------ MODULE Calendar ------------------------------
(***************************************************************************)
(* Dates: the calendar itself, as a rule for the day after, and the three  *)
(* places of the firmware that compute with it, gmtime_r and timegm of the *)
(* C library (rt-thread's time.c) and dateDiff of the anniversary page.    *)
(* Only the rules for the day after and before are the reference.          *)
(***************************************************************************)
EXTENDS Integers

Date(y, m, d) == [tm_year |-> y, tm_mon |-> m, tm_mday |-> d]

Leap(y) == y % 4 = 0 /\ (y % 100 # 0 \/ y % 400 = 0)

MonthLength(y, m) ==
  IF m = 2 THEN (IF Leap(y) THEN 29 ELSE 28)
  ELSE IF m \in {4, 6, 9, 11} THEN 30 ELSE 31

IsDate(d) ==
  /\ d \in [tm_year : Nat \ {0}, tm_mon : 1..12, tm_mday : 1..31]
  /\ d.tm_mday <= MonthLength(d.tm_year, d.tm_mon)

Tomorrow(d) ==
  IF d.tm_mday < MonthLength(d.tm_year, d.tm_mon)
    THEN Date(d.tm_year, d.tm_mon, d.tm_mday + 1)
  ELSE IF d.tm_mon < 12 THEN Date(d.tm_year, d.tm_mon + 1, 1)
  ELSE Date(d.tm_year + 1, 1, 1)

Yesterday(d) ==
  IF d.tm_mday > 1 THEN Date(d.tm_year, d.tm_mon, d.tm_mday - 1)
  ELSE IF d.tm_mon > 1
    THEN Date(d.tm_year, d.tm_mon - 1, MonthLength(d.tm_year, d.tm_mon - 1))
  ELSE Date(d.tm_year - 1, 12, 31)

-----------------------------------------------------------------------------
(* time.c.  Months count from 0 there; a date here keeps its 1 to 12.        *)

(* Days of a year without a leap day before its month m, 0 to 12.            *)
spm == [m \in 0..12 |->
          <<0, 31, 59, 90, 120, 151, 181, 212, 243, 273, 304, 334, 365>>[m + 1]]

isleap(y) == y % 4 = 0 /\ (y % 100 # 0 \/ y % 400 = 0)

(* The correction of timegm from 2100 on.                                    *)
CenturyDays(years) ==
  IF years < 131 THEN 0
  ELSE LET c == (years - 131) \div 100
           r == c % 4
       IN  (c \div 4) * 3 + 1 + (IF r = 3 THEN 2 ELSE r)

(* timegm: days from 1970-01-01 to a date.                                   *)
timegm(d) ==
  LET years == d.tm_year - 1970 IN
    years * 365 + (years + 1) \div 4 - CenturyDays(years)
    + spm[d.tm_mon - 1] + d.tm_mday - 1
    + (IF isleap(d.tm_year) /\ d.tm_mon > 2 THEN 1 ELSE 0)

(* gmtime_r's first loop: year by year, the days left.                       *)
Stages == [year : Nat, rest : Nat]

YearAndRest[yr \in Stages] ==
  LET k == IF isleap(yr.year) THEN 366 ELSE 365 IN
    IF yr.rest >= k THEN YearAndRest[[year |-> yr.year + 1, rest |-> yr.rest - k]]
    ELSE yr

(* Its second loop, from December down: the month, counted from 0.           *)
IsMonthOf(i, work) ==
  /\ i = 0 \/ spm[i] <= work
  /\ \A j \in i + 1..11 : spm[j] > work

MonthOf(work) == CHOOSE i \in 0..11 : IsMonthOf(i, work)

(* Mutant: the 29th of February is the 28th again. *)
gmtime_r_NoLeapDay(days) ==
  LET yr    == YearAndRest[[year |-> 1970, rest |-> days]]
      work  == IF isleap(yr.year) /\ yr.rest > 58 THEN yr.rest - 1 ELSE yr.rest
      mon   == MonthOf(work)
  IN  Date(yr.year, mon + 1, 1 + work - spm[mon])

(* The rest of gmtime_r: the 29th of February is put before March.           *)
DateIn(yr) ==
  LET late  == isleap(yr.year) /\ yr.rest > 58
      first == IF late /\ yr.rest = 59 THEN 2 ELSE 1
      work  == IF late THEN yr.rest - 1 ELSE yr.rest
      mon   == MonthOf(work)
  IN  Date(yr.year, mon + 1, first + work - spm[mon])

(* gmtime_r, of a number of days. *)
gmtime_r(days) == DateIn(YearAndRest[[year |-> 1970, rest |-> days]])

-----------------------------------------------------------------------------
(* dateDiff of anniversary.c.                                                *)

(* Mutant: the year of the formula begins in January. *)
MarchMonth_January(d) == d.tm_mon - 1

(* Months since March, and the year that began with that March.              *)
MarchMonth(d) == (d.tm_mon + 9) % 12
MarchYear(d)  == d.tm_year - MarchMonth(d) \div 10

DaysOfYears(y)  == 365 * y + y \div 4 - y \div 100 + y \div 400
DaysOfMonths(m) == (m * 306 + 5) \div 10

(* The day's number in the formula's count. *)
Serial(d) ==
  DaysOfYears(MarchYear(d)) + DaysOfMonths(MarchMonth(d)) + (d.tm_mday - 1)

(* The second minus the first. *)
dateDiff(date1, date2) == Serial(date2) - Serial(date1)
=============================================================================
