------------------------- MODULE SystemClock_proofs -------------------------
(***************************************************************************)
(* That the anniversary page counts the days between two dates, and that a *)
(* synchronisation sets the clock right, or wrong by a few days, for every *)
(* target date and however far the clocks move.  The first part is about   *)
(* the formula of dateDiff: the months' table it computes, what a year     *)
(* adds, and so what the day after and the day before add.  The second     *)
(* part counts moments in parts of a day, where Later adds one.  The third *)
(* is about timegm and gmtime_r of the C library, and shows that the loop  *)
(* of gmtime_r finds the year it should.                                   *)
(***************************************************************************)
EXTENDS SystemClock, WellFoundedInduction, TLAPS

(* Days from the first of March to the first of each month. *)
MonthStart(m) ==
  <<306, 337, 0, 31, 61, 92, 122, 153, 184, 214, 245, 275>>[m]

YearOf(y, m) == IF m < 3 THEN y - 1 ELSE y

(* The (m * 306 + 5) / 10 of dateDiff is the table of the months, and its    *)
(* m1 / 10 moves January and February to the year before.                    *)
LEMMA MonthTable ==
  ASSUME NEW y \in Nat, NEW m \in 1..12, NEW x \in Nat
  PROVE  Serial(Date(y, m, x)) = DaysOfYears(YearOf(y, m)) + MonthStart(m) + (x - 1)
<1> DEFINE d == Date(y, m, x)
<1>1. d.tm_year = y /\ d.tm_mon = m /\ d.tm_mday = x
  BY DEF Date
<1>2. MarchYear(d) = YearOf(y, m) /\ DaysOfMonths(MarchMonth(d)) = MonthStart(m)
  <2> HIDE DEF d
  <2>1. CASE m = 1  BY <1>1, <2>1 DEF MarchYear, MarchMonth, DaysOfMonths, YearOf, MonthStart
  <2>2. CASE m = 2  BY <1>1, <2>2 DEF MarchYear, MarchMonth, DaysOfMonths, YearOf, MonthStart
  <2>3. CASE m = 3  BY <1>1, <2>3 DEF MarchYear, MarchMonth, DaysOfMonths, YearOf, MonthStart
  <2>4. CASE m = 4  BY <1>1, <2>4 DEF MarchYear, MarchMonth, DaysOfMonths, YearOf, MonthStart
  <2>5. CASE m = 5  BY <1>1, <2>5 DEF MarchYear, MarchMonth, DaysOfMonths, YearOf, MonthStart
  <2>6. CASE m = 6  BY <1>1, <2>6 DEF MarchYear, MarchMonth, DaysOfMonths, YearOf, MonthStart
  <2>7. CASE m = 7  BY <1>1, <2>7 DEF MarchYear, MarchMonth, DaysOfMonths, YearOf, MonthStart
  <2>8. CASE m = 8  BY <1>1, <2>8 DEF MarchYear, MarchMonth, DaysOfMonths, YearOf, MonthStart
  <2>9. CASE m = 9  BY <1>1, <2>9 DEF MarchYear, MarchMonth, DaysOfMonths, YearOf, MonthStart
  <2>10. CASE m = 10  BY <1>1, <2>10 DEF MarchYear, MarchMonth, DaysOfMonths, YearOf, MonthStart
  <2>11. CASE m = 11  BY <1>1, <2>11 DEF MarchYear, MarchMonth, DaysOfMonths, YearOf, MonthStart
  <2>12. CASE m = 12  BY <1>1, <2>12 DEF MarchYear, MarchMonth, DaysOfMonths, YearOf, MonthStart
  <2> QED  BY <2>1, <2>2, <2>3, <2>4, <2>5, <2>6, <2>7, <2>8, <2>9, <2>10, <2>11, <2>12
<1> QED  BY <1>1, <1>2 DEF Serial

(* y / 4 - y / 100 + y / 400 grows by one exactly in the leap years.         *)
LEMMA YearAdds ==
  ASSUME NEW y \in Nat \ {0}
  PROVE  DaysOfYears(y) = DaysOfYears(y - 1) + (IF Leap(y) THEN 366 ELSE 365)
<1>1. y \div 4 = (y - 1) \div 4 + (IF y % 4 = 0 THEN 1 ELSE 0)
  OBVIOUS
<1>2. y \div 100 = (y - 1) \div 100 + (IF y % 100 = 0 THEN 1 ELSE 0)
  OBVIOUS
<1>3. y \div 400 = (y - 1) \div 400 + (IF y % 400 = 0 THEN 1 ELSE 0)
  OBVIOUS
<1>4. (y % 400 = 0 => y % 100 = 0) /\ (y % 100 = 0 => y % 4 = 0)
  OBVIOUS
<1> QED  BY <1>1, <1>2, <1>3, <1>4 DEF DaysOfYears, Leap

(* What a month adds, January to November.                                   *)
LEMMA MonthAdds ==
  ASSUME NEW y \in Nat \ {0}, NEW m \in 1..11, NEW x \in Nat
  PROVE  Serial(Date(y, m + 1, x)) = Serial(Date(y, m, x)) + MonthLength(y, m)
<1>1. Serial(Date(y, m, x)) = DaysOfYears(YearOf(y, m)) + MonthStart(m) + (x - 1)
  BY MonthTable
<1>2. Serial(Date(y, m + 1, x))
        = DaysOfYears(YearOf(y, m + 1)) + MonthStart(m + 1) + (x - 1)
  BY MonthTable
<1>3. DaysOfYears(y) = DaysOfYears(y - 1) + (IF Leap(y) THEN 366 ELSE 365)
  BY YearAdds
<1>4. DaysOfYears(y) \in Int /\ DaysOfYears(y - 1) \in Int
  BY DEF DaysOfYears
<1>5. DaysOfYears(YearOf(y, m + 1)) + MonthStart(m + 1)
        = DaysOfYears(YearOf(y, m)) + MonthStart(m) + MonthLength(y, m)
  <2>1. CASE m = 2
    <3>1. /\ YearOf(y, m) = y - 1 /\ YearOf(y, m + 1) = y
          /\ MonthStart(m) = 337 /\ MonthStart(m + 1) = 0
          /\ MonthLength(y, m) = IF Leap(y) THEN 29 ELSE 28
      BY <2>1 DEF YearOf, MonthStart, MonthLength
    <3> QED  BY <1>3, <1>4, <3>1
  <2>2. CASE m = 1
    <3>1. /\ YearOf(y, m) = YearOf(y, m + 1)
          /\ MonthStart(m + 1) = MonthStart(m) + MonthLength(y, m)
          /\ MonthStart(m) \in Int /\ MonthLength(y, m) \in Int
      BY <2>2 DEF YearOf, MonthStart, MonthLength
    <3>2. YearOf(y, m) = y - 1  BY <2>2 DEF YearOf
    <3> QED  BY <1>4, <3>1, <3>2
  <2>3. CASE m \in 3..11
    <3>1. /\ YearOf(y, m) = y /\ YearOf(y, m + 1) = y
          /\ MonthStart(m + 1) = MonthStart(m) + MonthLength(y, m)
          /\ MonthStart(m) \in Int /\ MonthLength(y, m) \in Int
      <4>1. m \in {3, 4, 5, 6, 7, 8, 9, 10, 11}  BY <2>3
      <4> QED  BY <4>1 DEF YearOf, MonthStart, MonthLength
    <3> QED  BY <1>4, <3>1
  <2> QED  BY <2>1, <2>2, <2>3
<1>6. MonthStart(m) \in Int /\ MonthStart(m + 1) \in Int /\ MonthLength(y, m) \in Int
  <2>1. m \in {1, 2, 3, 4, 5, 6, 7, 8, 9, 10, 11}  OBVIOUS
  <2> QED  BY <2>1 DEF MonthStart, MonthLength
<1>7. DaysOfYears(YearOf(y, m)) \in Int /\ DaysOfYears(YearOf(y, m + 1)) \in Int
  BY DEF DaysOfYears, YearOf
<1> QED  BY <1>1, <1>2, <1>5, <1>6, <1>7

(* What a December adds.                                                     *)
LEMMA DecemberAdds ==
  ASSUME NEW y \in Nat \ {0}, NEW x \in Nat
  PROVE  Serial(Date(y + 1, 1, x)) = Serial(Date(y, 12, x)) + 31
<1>1. Serial(Date(y + 1, 1, x)) = DaysOfYears(YearOf(y + 1, 1)) + MonthStart(1) + (x - 1)
  BY MonthTable
<1>2. Serial(Date(y, 12, x)) = DaysOfYears(YearOf(y, 12)) + MonthStart(12) + (x - 1)
  BY MonthTable
<1>3. YearOf(y + 1, 1) = y /\ YearOf(y, 12) = y /\ MonthStart(1) = 306 /\ MonthStart(12) = 275
  BY DEF YearOf, MonthStart
<1>4. DaysOfYears(y) \in Int
  BY DEF DaysOfYears
<1> QED  BY <1>1, <1>2, <1>3, <1>4

-----------------------------------------------------------------------------
(* The day after and the day before.                                         *)

LEMMA DateParts ==
  ASSUME NEW d, IsDate(d)
  PROVE  /\ d = Date(d.tm_year, d.tm_mon, d.tm_mday)
         /\ d.tm_year \in Nat \ {0} /\ d.tm_mon \in 1..12 /\ d.tm_mday \in 1..31
         /\ d.tm_mday <= MonthLength(d.tm_year, d.tm_mon)
BY DEF IsDate, Date

LEMMA MonthsLast ==
  ASSUME NEW y \in Nat, NEW m \in 1..12
  PROVE  MonthLength(y, m) \in 28..31
BY DEF MonthLength

LEMMA SerialType ==
  ASSUME NEW d, IsDate(d)
  PROVE  Serial(d) \in Int
BY DateParts DEF Serial, MarchYear, MarchMonth, DaysOfYears, DaysOfMonths

(* The formula counts one more on the next day. *)
LEMMA TomorrowCounts ==
  ASSUME NEW d, IsDate(d)
  PROVE  /\ IsDate(Tomorrow(d))
         /\ Tomorrow(d).tm_year >= d.tm_year
         /\ Serial(Tomorrow(d)) = Serial(d) + 1
<1> DEFINE y == d.tm_year
           m == d.tm_mon
           x == d.tm_mday
<1>1. /\ d = Date(y, m, x) /\ y \in Nat \ {0} /\ m \in 1..12 /\ x \in 1..31
      /\ x <= MonthLength(y, m) /\ MonthLength(y, m) \in 28..31
  BY DateParts, MonthsLast
<1>2. CASE x < MonthLength(y, m)
  <2>1. Tomorrow(d) = Date(y, m, x + 1)  BY <1>2 DEF Tomorrow
  <2>2. /\ Serial(d) = DaysOfYears(YearOf(y, m)) + MonthStart(m) + (x - 1)
        /\ Serial(Date(y, m, x + 1))
             = DaysOfYears(YearOf(y, m)) + MonthStart(m) + (x + 1 - 1)
    <3>1. y \in Nat /\ x \in Nat /\ x + 1 \in Nat  BY <1>1
    <3>2. /\ Serial(Date(y, m, x)) = DaysOfYears(YearOf(y, m)) + MonthStart(m) + (x - 1)
          /\ Serial(Date(y, m, x + 1))
               = DaysOfYears(YearOf(y, m)) + MonthStart(m) + (x + 1 - 1)
      <4> HIDE DEF y, m, x
      <4> QED  BY <1>1, <3>1, MonthTable
    <3> QED  BY <1>1, <3>2
  <2>3. DaysOfYears(YearOf(y, m)) \in Int /\ MonthStart(m) \in Int
    BY <1>1 DEF DaysOfYears, YearOf, MonthStart
  <2>4. x + 1 \in 1..31 /\ x + 1 <= MonthLength(y, m)  BY <1>1, <1>2
  <2>5. IsDate(Date(y, m, x + 1))  BY <1>1, <2>4 DEF IsDate, Date
  <2>6. Serial(Date(y, m, x + 1)) = Serial(d) + 1
    BY <1>1, <2>2, <2>3
  <2> QED  BY <2>1, <2>5, <2>6 DEF Date, IsDate
<1>3. CASE x = MonthLength(y, m) /\ m < 12
  <2>1. Tomorrow(d) = Date(y, m + 1, 1)  BY <1>3, <1>1 DEF Tomorrow
  <2>2. m \in 1..11 /\ m + 1 \in 1..12  BY <1>1, <1>3
  <2>3. Serial(Date(y, m + 1, 1)) = Serial(Date(y, m, 1)) + MonthLength(y, m)
    BY <1>1, <2>2, MonthAdds
  <2>4. /\ Serial(d) = DaysOfYears(YearOf(y, m)) + MonthStart(m) + (x - 1)
        /\ Serial(Date(y, m, 1)) = DaysOfYears(YearOf(y, m)) + MonthStart(m) + (1 - 1)
    BY <1>1, MonthTable
  <2>5. DaysOfYears(YearOf(y, m)) \in Int /\ MonthStart(m) \in Int
    BY <1>1 DEF DaysOfYears, YearOf, MonthStart
  <2>6. IsDate(Date(y, m + 1, 1))
    <3>1. MonthLength(y, m + 1) \in 28..31  BY <1>1, <2>2, MonthsLast
    <3> QED  BY <1>1, <2>2, <3>1 DEF IsDate, Date
  <2>7. Serial(Date(y, m + 1, 1)) = Serial(d) + 1
    BY <1>1, <1>3, <2>3, <2>4, <2>5
  <2> QED  BY <2>1, <2>6, <2>7 DEF Date, IsDate
<1>4. CASE x = MonthLength(y, m) /\ m = 12
  <2>1. Tomorrow(d) = Date(y + 1, 1, 1) /\ x = 31
    BY <1>1, <1>4 DEF Tomorrow, MonthLength
  <2>2. Serial(Date(y + 1, 1, 1)) = Serial(Date(y, 12, 1)) + 31
    BY <1>1, DecemberAdds
  <2>3. /\ Serial(d) = DaysOfYears(YearOf(y, m)) + MonthStart(m) + (x - 1)
        /\ Serial(Date(y, m, 1)) = DaysOfYears(YearOf(y, m)) + MonthStart(m) + (1 - 1)
    BY <1>1, MonthTable
  <2>4. DaysOfYears(YearOf(y, m)) \in Int /\ MonthStart(m) \in Int
    BY <1>1 DEF DaysOfYears, YearOf, MonthStart
  <2>5. IsDate(Date(y + 1, 1, 1))
    <3>1. MonthLength(y + 1, 1) \in 28..31  BY <1>1, MonthsLast
    <3> QED  BY <1>1, <3>1 DEF IsDate, Date
  <2>6. Serial(Date(y + 1, 1, 1)) = Serial(d) + 1
    BY <1>1, <1>4, <2>1, <2>2, <2>3, <2>4
  <2> QED  BY <1>1, <2>1, <2>5, <2>6 DEF Date
<1> QED  BY <1>1, <1>2, <1>3, <1>4

(* The day before is the one whose day after this is. *)
LEMMA TomorrowOfYesterday ==
  ASSUME NEW d, IsDate(d), d.tm_year >= 2
  PROVE  /\ IsDate(Yesterday(d))
         /\ Yesterday(d).tm_year >= d.tm_year - 1
         /\ Tomorrow(Yesterday(d)) = d
<1> DEFINE y == d.tm_year
           m == d.tm_mon
           x == d.tm_mday
<1>1. /\ d = Date(y, m, x) /\ y \in Nat \ {0} /\ m \in 1..12 /\ x \in 1..31
      /\ x <= MonthLength(y, m)
  BY DateParts
<1>2. CASE x > 1
  <2>1. Yesterday(d) = Date(y, m, x - 1)  BY <1>2 DEF Yesterday
  <2>2. x - 1 \in 1..31 /\ x - 1 < MonthLength(y, m)
    BY <1>1, <1>2, MonthsLast
  <2>3. IsDate(Date(y, m, x - 1))
    BY <1>1, <2>2, MonthsLast DEF IsDate, Date
  <2>4. Tomorrow(Date(y, m, x - 1)) = Date(y, m, x)
    BY <1>1, <2>2 DEF Tomorrow, Date
  <2> QED  BY <1>1, <2>1, <2>3, <2>4 DEF Date
<1>3. CASE x = 1 /\ m > 1
  <2> DEFINE last == MonthLength(y, m - 1)
  <2>1. Yesterday(d) = Date(y, m - 1, last)  BY <1>3 DEF Yesterday
  <2>2. m - 1 \in 1..11 /\ last \in 28..31
    BY <1>1, <1>3, MonthsLast
  <2>3. IsDate(Date(y, m - 1, last))
    BY <1>1, <2>2 DEF IsDate, Date
  <2>4. Tomorrow(Date(y, m - 1, last)) = Date(y, m - 1 + 1, 1)
    BY <1>1, <2>2 DEF Tomorrow, Date
  <2> QED  BY <1>1, <1>3, <2>1, <2>3, <2>4 DEF Date
<1>4. CASE x = 1 /\ m = 1
  <2>1. Yesterday(d) = Date(y - 1, 12, 31)  BY <1>4 DEF Yesterday
  <2>2. y - 1 \in Nat \ {0} /\ MonthLength(y - 1, 12) = 31
    BY <1>1 DEF MonthLength
  <2>3. IsDate(Date(y - 1, 12, 31))
    BY <2>2 DEF IsDate, Date
  <2>4. Tomorrow(Date(y - 1, 12, 31)) = Date(y - 1 + 1, 1, 1)
    BY <2>2 DEF Tomorrow, Date
  <2> QED  BY <1>1, <1>4, <2>1, <2>3, <2>4 DEF Date
<1> QED  BY <1>1, <1>2, <1>3, <1>4

LEMMA YesterdayCounts ==
  ASSUME NEW d, IsDate(d), d.tm_year >= 2
  PROVE  /\ IsDate(Yesterday(d))
         /\ Yesterday(d).tm_year >= d.tm_year - 1
         /\ Serial(Yesterday(d)) = Serial(d) - 1
<1>1. /\ IsDate(Yesterday(d))
      /\ Yesterday(d).tm_year >= d.tm_year - 1
      /\ Tomorrow(Yesterday(d)) = d
  BY TomorrowOfYesterday
<1>2. Serial(d) = Serial(Yesterday(d)) + 1
  BY <1>1, TomorrowCounts
<1>3. Serial(d) \in Int /\ Serial(Yesterday(d)) \in Int
  BY <1>1, SerialType
<1> QED  BY <1>1, <1>2, <1>3

-----------------------------------------------------------------------------
(* Moments.                                                                  *)

(* The date of a moment and the number it carries belong together. *)
Counted(m) == m.day = Serial(m.date) - Serial(target_date)

(* A moment like this, not before the year y. *)
Good(m, y) == IsMoment(m) /\ Counted(m) /\ m.date.tm_year >= y

LEMMA LaterGood ==
  ASSUME NEW m, NEW y \in Nat, Good(m, y), Serial(target_date) \in Int
  PROVE  Good(Later(m), y)
<1>1. /\ m \in [date : [tm_year : Nat \ {0}, tm_mon : 1..12, tm_mday : 1..31],
                part : Parts, day : Int]
      /\ IsDate(m.date) /\ Serial(m.date) \in Int
      /\ m.day = Serial(m.date) - Serial(target_date)
      /\ m.date.tm_year >= y
  BY SerialType DEF Good, IsMoment, Counted
<1>2. CASE m.part < 2
  <2>1. Later(m) = [date |-> m.date, part |-> m.part + 1, day |-> m.day]
    BY <1>2 DEF Later, Moment
  <2>2. m.part + 1 \in Parts  BY <1>1, <1>2 DEF Parts
  <2> QED  BY <1>1, <2>1, <2>2 DEF Good, IsMoment, Counted
<1>3. CASE ~(m.part < 2)
  <2> DEFINE d == Tomorrow(m.date)
  <2>1. Later(m) = [date |-> d, part |-> 0, day |-> m.day + 1]
    BY <1>3 DEF Later, Moment
  <2>2. IsDate(d) /\ d.tm_year >= m.date.tm_year /\ Serial(d) = Serial(m.date) + 1
    BY <1>1, TomorrowCounts
  <2>3. d \in [tm_year : Nat \ {0}, tm_mon : 1..12, tm_mday : 1..31]
    BY <2>2 DEF IsDate
  <2>4. IsMoment(Later(m))
    BY <1>1, <2>1, <2>2, <2>3 DEF IsMoment, Parts
  <2>5. Later(m).date.tm_year >= y
    BY <1>1, <2>1, <2>2, <2>3
  <2>6. Counted(Later(m))
    BY <1>1, <2>1, <2>2 DEF Counted
  <2> QED  BY <2>4, <2>5, <2>6 DEF Good
<1> QED  BY <1>2, <1>3

LEMMA EarlierGood ==
  ASSUME NEW m, NEW y \in Nat \ {0}, Good(m, y + 1), Serial(target_date) \in Int
  PROVE  Good(Earlier(m), y)
<1>1. /\ m \in [date : [tm_year : Nat \ {0}, tm_mon : 1..12, tm_mday : 1..31],
                part : Parts, day : Int]
      /\ IsDate(m.date) /\ Serial(m.date) \in Int
      /\ m.day = Serial(m.date) - Serial(target_date)
      /\ m.date.tm_year >= y + 1
  BY SerialType DEF Good, IsMoment, Counted
<1>2. CASE m.part > 0
  <2>1. Earlier(m) = [date |-> m.date, part |-> m.part - 1, day |-> m.day]
    BY <1>2 DEF Earlier, Moment
  <2>2. m.part - 1 \in Parts  BY <1>1, <1>2 DEF Parts
  <2> QED  BY <1>1, <2>1, <2>2 DEF Good, IsMoment, Counted
<1>3. CASE ~(m.part > 0)
  <2> DEFINE d == Yesterday(m.date)
  <2>1. Earlier(m) = [date |-> d, part |-> 2, day |-> m.day - 1]
    BY <1>3 DEF Earlier, Moment
  <2>2. IsDate(d) /\ d.tm_year >= m.date.tm_year - 1 /\ Serial(d) = Serial(m.date) - 1
    BY <1>1, YesterdayCounts
  <2>3. d \in [tm_year : Nat \ {0}, tm_mon : 1..12, tm_mday : 1..31]
    BY <2>2 DEF IsDate
  <2>4. IsMoment(Earlier(m))
    BY <1>1, <2>1, <2>2, <2>3 DEF IsMoment, Parts
  <2>5. Earlier(m).date.tm_year >= y
    BY <1>1, <2>1, <2>2, <2>3
  <2>6. Counted(Earlier(m))
    BY <1>1, <2>1, <2>2 DEF Counted
  <2> QED  BY <2>4, <2>5, <2>6 DEF Good
<1> QED  BY <1>2, <1>3

(* What set_date and set_time make up: one moment's date, any time of day. *)
LEMMA MixedGood ==
  ASSUME NEW m, NEW y \in Nat, Good(m, y), NEW p \in Parts
  PROVE  Good(Moment(m.date, p, m.day), y)
BY DEF Good, IsMoment, Counted, Moment

-----------------------------------------------------------------------------
(* The inductive invariant: every date in flight carries its number, and     *)
(* none is so early that its day before would precede the chip's calendar.   *)
DatesCounted ==
  /\ Good(world, 1) /\ Good(ans, 1) /\ Good(new, 1) /\ Good(rtc, FirstYear)
  /\ pc # "idle" => Good(ans, 2020)
  /\ pc \in {"date_time", "date_date"} => Good(new, 2019)
  /\ pc = "set_time" => Good(rtc, 2019)
  /\ pc \in {"time_time", "time_date"} => Good(new, 2018)

(* Two parts behind only between the first half written and the second.      *)
AheadBound == pc \in {"idle", "set_date", "date_time", "time_date"} => ahead < 2

ClockInv == TypeOK /\ DatesCounted /\ AheadBound /\ CountsDays

LEMMA InitClock == Init => ClockInv
<1> SUFFICES ASSUME Init PROVE ClockInv
  OBVIOUS
<1>1. /\ target_date \in Targets /\ IsDate(target_date) /\ target_date.tm_year > FirstYear
      /\ FirstYear \in Nat /\ FirstYear > 1
  BY ClockAssumption DEF Init
<1>2. target_date \in [tm_year : Nat \ {0}, tm_mon : 1..12, tm_mday : 1..31]
  BY <1>1 DEF IsDate
<1>3. Serial(target_date) \in Int
  BY <1>1, SerialType
<1>4. Good(Moment(target_date, 0, 0), FirstYear) /\ Good(Moment(target_date, 0, 0), 1)
  BY <1>1, <1>2, <1>3 DEF Good, IsMoment, Counted, Moment, Parts
<1>5. DatesCounted
  BY <1>4 DEF Init, DatesCounted
<1>6. TypeOK
  <2>1. midnight \in BOOLEAN /\ synced \in BOOLEAN  BY DEF Init
  <2>2. /\ ahead \in -1..2 /\ passed \in 0..1 /\ turned \in 0..1 /\ loadedOn \in Int
        /\ label \in Int \cup {NoLabel}
    BY DEF Init
  <2>3. pc \in {"idle", "set_date", "date_time", "date_date",
               "set_time", "time_time", "time_date"}
    BY DEF Init
  <2> QED  BY <1>1, <1>5, <2>1, <2>2, <2>3 DEF TypeOK, DatesCounted, Good
<1>7. AheadBound /\ CountsDays
  BY DEF Init, AheadBound, CountsDays, Shown
<1> QED  BY <1>5, <1>6, <1>7 DEF ClockInv

(* Time passes: the moments that move keep their count, the others stand. *)
LEMMA TimePasses ==
  ASSUME ClockInv, WorldTick \/ ChipTick \/ ChipWrong
  PROVE  ClockInv'
<1>1. /\ FirstYear \in Nat \ {0} /\ FirstYear > 1 /\ FirstYear < 2019
      /\ \A d \in Targets : IsDate(d)
  BY ClockAssumption
<1>2. Serial(target_date) \in Int /\ target_date' = target_date
  BY <1>1, SerialType DEF ClockInv, TypeOK, WorldTick, ChipTick, ChipWrong
<1>3. /\ pc' = pc /\ ans' = ans /\ new' = new /\ label' = label /\ loadedOn' = loadedOn
  BY DEF WorldTick, ChipTick, ChipWrong, syncVars, pageVars
<1>4. Good(world, 1)'
  <2>1. CASE world' = world  BY <2>1, <1>2 DEF ClockInv, DatesCounted, Good, Counted
  <2>2. CASE world' = Later(world)
    <3>1. Good(Later(world), 1)  BY <1>2, LaterGood DEF ClockInv, DatesCounted
    <3> QED  BY <2>2, <3>1, <1>2 DEF Good, Counted
  <2> QED  BY <2>1, <2>2 DEF WorldTick, ChipTick, ChipWrong
<1>5. Good(rtc, FirstYear)' /\ (pc = "set_time" => Good(rtc, 2019))'
  <2>1. CASE rtc' = rtc  BY <2>1, <1>2, <1>3 DEF ClockInv, DatesCounted, Good, Counted
  <2>2. CASE rtc' = Later(rtc)
    <3>1. Good(Later(rtc), FirstYear)
      BY <1>1, <1>2, LaterGood DEF ClockInv, DatesCounted
    <3>2. pc = "set_time" => Good(Later(rtc), 2019)
      BY <1>2, LaterGood DEF ClockInv, DatesCounted
    <3> QED  BY <2>2, <3>1, <3>2, <1>2, <1>3 DEF Good, Counted
  <2>3. CASE rtc' = Earlier(rtc) /\ rtc'.date.tm_year >= FirstYear /\ pc = "idle"
    <3>1. FirstYear - 1 \in Nat \ {0} /\ Good(rtc, (FirstYear - 1) + 1)
      BY <1>1 DEF ClockInv, DatesCounted
    <3>2. Good(Earlier(rtc), FirstYear - 1)
      BY <3>1, <1>2, EarlierGood
    <3> QED  BY <2>3, <3>2, <1>2, <1>3 DEF Good, Counted
  <2> QED  BY <2>1, <2>2, <2>3 DEF WorldTick, ChipTick, ChipWrong, Syncing
<1>6. DatesCounted'
  BY <1>2, <1>3, <1>4, <1>5 DEF ClockInv, DatesCounted, Good, Counted
<1>7. ahead' \in -1..2 /\ AheadBound'
  BY <1>3 DEF ClockInv, TypeOK, AheadBound, WorldTick, ChipTick, ChipWrong
<1>8. /\ passed' \in 0..1 /\ turned' \in 0..1
      /\ midnight' \in BOOLEAN /\ synced' \in BOOLEAN
  <2>1. /\ passed \in 0..1 /\ turned \in 0..1
        /\ midnight \in BOOLEAN /\ synced \in BOOLEAN
    BY DEF ClockInv, TypeOK
  <2>2. passed' \in 0..1 /\ turned' \in 0..1
    BY <2>1 DEF WorldTick, ChipTick, ChipWrong
  <2>3. midnight' \in BOOLEAN
    BY <2>1, Zenon DEF WorldTick, ChipTick, ChipWrong
  <2>4. synced' \in BOOLEAN
    BY <2>1, Zenon DEF WorldTick, ChipTick, ChipWrong
  <2> QED  BY <2>2, <2>3, <2>4
<1>9. TypeOK'
  BY <1>2, <1>3, <1>6, <1>7, <1>8 DEF ClockInv, TypeOK, DatesCounted, Good
<1>10. CountsDays'
  BY <1>3 DEF ClockInv, CountsDays, Shown
<1> QED  BY <1>6, <1>7, <1>9, <1>10 DEF ClockInv

(* A step of sim76xx_ntp_sync: what it writes is made of moments that count. *)
LEMMA SyncSteps ==
  ASSUME ClockInv, ntp_sync
  PROVE  ClockInv'
<1>1. /\ FirstYear \in Nat \ {0} /\ FirstYear > 1 /\ FirstYear < 2019
      /\ \A d \in Targets : IsDate(d)
  BY ClockAssumption
<1>2. /\ Serial(target_date) \in Int /\ target_date' = target_date
      /\ world' = world /\ label' = label /\ loadedOn' = loadedOn
  BY <1>1, SerialType DEF ClockInv, TypeOK, ntp_sync, Answered, set_date, set_time,
     WriteTime, WriteDate, pageVars
<1>3. /\ Good(world, 1) /\ Good(ans, 1) /\ Good(new, 1) /\ Good(rtc, FirstYear)
      /\ pc # "idle" => Good(ans, 2020)
      /\ pc \in {"date_time", "date_date"} => Good(new, 2019)
      /\ pc = "set_time" => Good(rtc, 2019)
      /\ pc \in {"time_time", "time_date"} => Good(new, 2018)
  BY DEF ClockInv, DatesCounted
<1>4. ASSUME NEW m, NEW k \in Nat, Good(m, k)
      PROVE  Good(m, 1) /\ (k >= FirstYear => Good(m, FirstYear))
  <2>1. m.date.tm_year \in Nat \ {0} /\ m.date.tm_year >= k
    BY <1>4 DEF Good, IsMoment
  <2> QED  BY <1>1, <1>4, <2>1 DEF Good
<1>5. DatesCounted'
  <2>1. ASSUME Answered PROVE DatesCounted'
    <3>1. Good(Later(world), 1)  BY <1>2, <1>3, LaterGood
    <3>2. Good(ans', 1) /\ Good(ans', 2020)
      BY <2>1, <3>1 DEF Answered, localtime, Good
    <3>3. pc' = "set_date" /\ rtc' = rtc /\ new' = new  BY <2>1 DEF Answered
    <3> QED  BY <1>2, <1>3, <3>2, <3>3 DEF DatesCounted, Good, Counted
  <2>2. ASSUME set_date PROVE DatesCounted'
    <3>1. Good(Later(rtc), FirstYear)  BY <1>1, <1>2, <1>3, LaterGood
    <3>2. localtime(rtc).part \in Parts  BY <3>1 DEF Good, IsMoment, localtime
    <3>3. Good(Moment(ans.date, localtime(rtc).part, ans.day), 2019 + 1)
      BY <2>2, <1>3, <3>2, MixedGood DEF set_date
    <3>4. Good(new', 2019)
      BY <2>2, <1>2, <3>3, EarlierGood DEF set_date, mktime
    <3>5. pc = "set_date" /\ pc' = "date_time" /\ rtc' = rtc /\ ans' = ans
      BY <2>2 DEF set_date
    <3>6. Good(new', 1)  BY <1>4, <3>4
    <3> QED  BY <1>2, <1>3, <3>4, <3>5, <3>6 DEF DatesCounted, Good, Counted
  <2>3. ASSUME set_time PROVE DatesCounted'
    <3>1. pc = "set_time" /\ pc' = "time_time" /\ rtc' = rtc /\ ans' = ans
      BY <2>3 DEF set_time
    <3>2. Good(Later(rtc), 2019)  BY <1>2, <1>3, <3>1, LaterGood
    <3>3. ans.part \in Parts  BY <1>3 DEF Good, IsMoment
    <3>4. Good(Moment(Later(rtc).date, ans.part, Later(rtc).day), 2018 + 1)
      BY <3>2, <3>3, MixedGood
    <3>5. Good(new', 2018)
      BY <2>3, <1>2, <3>4, EarlierGood DEF set_time, mktime, localtime
    <3>6. Good(new', 1)  BY <1>4, <3>5
    <3> QED  BY <1>2, <1>3, <3>1, <3>5, <3>6 DEF DatesCounted, Good, Counted
  <2>4. ASSUME WriteTime PROVE DatesCounted'
    <3>1. /\ rtc' = Moment(rtc.date, new.part, rtc.day) /\ ans' = ans /\ new' = new
          /\ \/ pc = "date_time" /\ pc' = "date_date"
             \/ pc = "time_time" /\ pc' = "time_date"
      BY <2>4 DEF WriteTime
    <3>2. new.part \in Parts  BY <1>3 DEF Good, IsMoment
    <3>3. Good(rtc', FirstYear)  BY <1>1, <1>3, <3>1, <3>2, MixedGood
    <3> QED  BY <1>2, <1>3, <3>1, <3>3 DEF DatesCounted, Good, Counted
  <2>5. ASSUME WriteDate PROVE DatesCounted'
    <3>1. rtc' = Moment(new.date, rtc.part, new.day)
      BY <2>5 DEF WriteDate
    <3>2. rtc.part \in Parts  BY <1>3 DEF Good, IsMoment
    <3>3. CASE pc = "date_date" /\ pc' = "set_time" /\ ans' = ans /\ new' = new
      <4>1. Good(rtc', 2019)  BY <1>3, <3>1, <3>2, <3>3, MixedGood
      <4>2. Good(rtc', FirstYear)  BY <1>1, <1>4, <4>1
      <4> QED  BY <1>2, <1>3, <3>3, <4>1, <4>2 DEF DatesCounted, Good, Counted
    <3>4. CASE pc = "time_date" /\ pc' = "idle" /\ LocalsGone
      <4>1. Good(rtc', 2018)  BY <1>3, <3>1, <3>2, <3>4, MixedGood
      <4>2. Good(rtc', FirstYear)  BY <1>1, <1>4, <4>1
      <4>3. IsDate(target_date) /\ target_date.tm_year \in Nat \ {0}
        BY <1>1 DEF ClockInv, TypeOK, IsDate
      <4>4. Good(Moment(target_date, 0, 0), 1)
        BY <1>2, <4>3 DEF Good, IsMoment, IsDate, Counted, Moment, Parts
      <4>5. ans' = Moment(target_date, 0, 0) /\ new' = Moment(target_date, 0, 0)
        BY <3>4 DEF LocalsGone
      <4> QED  BY <1>2, <1>3, <3>4, <4>2, <4>4, <4>5 DEF DatesCounted, Good, Counted
    <3> QED  BY <2>5, <3>3, <3>4 DEF WriteDate
  <2> QED  BY <2>1, <2>2, <2>3, <2>4, <2>5 DEF ntp_sync
<1>6. ahead' \in -1..2 /\ AheadBound'
  <2>1. /\ ahead \in -1..2 /\ passed \in 0..1 /\ turned \in 0..1
        /\ AheadBound
    BY DEF ClockInv, TypeOK
  <2> QED  BY <2>1 DEF AheadBound, ntp_sync, Answered, set_date, set_time,
              WriteTime, WriteDate, LocalsGone
<1>7. /\ pc' \in {"idle", "set_date", "date_time", "date_date",
                  "set_time", "time_time", "time_date"}
      /\ passed' \in 0..1 /\ turned' \in 0..1
  BY DEF ClockInv, TypeOK, ntp_sync, Answered, set_date, set_time,
     WriteTime, WriteDate, LocalsGone
<1>8. midnight' \in BOOLEAN /\ synced' \in BOOLEAN
  <2>1. midnight \in BOOLEAN /\ synced \in BOOLEAN
    BY DEF ClockInv, TypeOK
  <2>2. midnight' = midnight \/ midnight' = FALSE
    BY DEF ntp_sync, Answered, set_date, set_time, WriteTime, WriteDate
  <2>3. synced' = synced \/ synced' = TRUE
    BY DEF ntp_sync, Answered, set_date, set_time, WriteTime, WriteDate
  <2> QED  BY <2>1, <2>2, <2>3
<1>9. TypeOK'
  BY <1>2, <1>5, <1>6, <1>7, <1>8 DEF ClockInv, TypeOK, DatesCounted, Good
<1>10. CountsDays'
  BY <1>2 DEF ClockInv, CountsDays, Shown
<1> QED  BY <1>5, <1>6, <1>9, <1>10 DEF ClockInv

(* The page: what it shows is the count of the date it was loaded at. *)
LEMMA PageSteps ==
  ASSUME ClockInv, anniversary_load \/ PageLeft
  PROVE  ClockInv'
<1>1. Serial(target_date) \in Int /\ FirstYear \in Nat
  BY ClockAssumption, SerialType DEF ClockInv, TypeOK
<1>2. UNCHANGED <<target_date, world, rtc, ahead, pc, ans, new,
                  passed, turned, midnight, synced>>
  BY DEF anniversary_load, PageLeft, syncVars, pastVars
<1>3. label' \in Int \cup {NoLabel} /\ loadedOn' \in Int /\ CountsDays'
  <2>1. CASE anniversary_load
    <3>1. Good(Later(rtc), FirstYear)
      BY <1>1, LaterGood DEF ClockInv, DatesCounted
    <3>2. /\ Later(rtc).day \in Int /\ Serial(Later(rtc).date) \in Int
          /\ Later(rtc).day = Serial(Later(rtc).date) - Serial(target_date)
      BY <3>1, SerialType DEF Good, IsMoment, Counted
    <3>3. /\ label' = Serial(target_date) - Serial(Later(rtc).date)
          /\ loadedOn' = Later(rtc).day
      BY <2>1 DEF anniversary_load, dateDiff, localtime
    <3> QED  BY <1>1, <3>2, <3>3 DEF CountsDays, Shown
  <2>2. CASE PageLeft
    BY <2>2, ClockAssumption DEF PageLeft, CountsDays, Shown
  <2> QED  BY <2>1, <2>2
<1>4. DatesCounted' /\ AheadBound'
  BY <1>2 DEF ClockInv, DatesCounted, AheadBound, Good, Counted
<1>5. TypeOK'
  BY <1>2, <1>3 DEF ClockInv, TypeOK
<1> QED  BY <1>3, <1>4, <1>5 DEF ClockInv

LEMMA NextClock == ClockInv /\ [Next]_vars => ClockInv'
<1> SUFFICES ASSUME ClockInv, [Next]_vars PROVE ClockInv'
  OBVIOUS
<1>1. CASE UNCHANGED vars
  BY <1>1 DEF vars, syncVars, pageVars, pastVars, ClockInv, TypeOK, DatesCounted,
     AheadBound, CountsDays, Shown, Good, Counted
<1> QED  BY <1>1, TimePasses, SyncSteps, PageSteps DEF Next

(* The inductive invariant holds throughout. *)
THEOREM ClockInvariance == Spec => []ClockInv
<1> QED  BY InitClock, NextClock, PTL DEF Spec

(* The clocks, what a synchronisation holds and the page keep their types:   *)
(* no date is ever one the calendar does not have, and what is written to    *)
(* the chip is never a year it would refuse.                                 *)
THEOREM TypeCorrect == Spec => []TypeOK
<1>1. ClockInv => TypeOK  BY DEF ClockInv
<1> QED  BY <1>1, ClockInvariance, PTL

(* For every target date and however far the clock has run from it, the page *)
(* shows the distance in days: the arithmetic of dateDiff is the calendar's. *)
THEOREM CountsDaysAlways == Spec => []CountsDays
<1>1. ClockInv => CountsDays  BY DEF ClockInv
<1> QED  BY <1>1, ClockInvariance, PTL
-----------------------------------------------------------------------------
(* How far the clock is off, in parts.  From here on a moment is its number  *)
(* alone, and Later and Earlier add one and subtract one.                    *)

Num(m) == 3 * m.day + m.part

(* The number of the local date. *)
LocalDay(m) == m.day + (IF m.part = 2 THEN 1 ELSE 0)

IsCounter(m) == m.day \in Int /\ m.part \in {0, 1, 2}

LEMMA LaterNum ==
  ASSUME NEW m, IsCounter(m)
  PROVE  /\ IsCounter(Later(m)) /\ Num(Later(m)) = Num(m) + 1
         /\ Later(m).part = IF m.part = 2 THEN 0 ELSE m.part + 1
         /\ Later(m).day = LocalDay(m)
BY DEF IsCounter, Later, Moment, Num, LocalDay

LEMMA EarlierNum ==
  ASSUME NEW m, IsCounter(m)
  PROVE  /\ IsCounter(Earlier(m)) /\ Num(Earlier(m)) = Num(m) - 1
         /\ LocalDay(Earlier(m)) = m.day
         /\ Earlier(m).part = IF m.part = 0 THEN 2 ELSE m.part - 1
BY DEF IsCounter, Earlier, Moment, Num, LocalDay

(* What the chip shows of the time of day, since the first half was written. *)
RunsFromNew ==
  /\ rtc.part = (new.part + turned) % 3
  /\ turned = 1 /\ ~midnight => new.part = 0

(* The inductive invariant of a synchronisation: how world, answer, chip and *)
(* what is to be written are apart, step by step.  The date set_date wrote   *)
(* may be a day off when set_time reads it back, in either direction; that   *)
(* the chip's date changed is then recorded.  The second pair of halves may  *)
(* lose one day more.                                                        *)
IdleApart ==
  pc = "idle" =>
    /\ passed = 0 /\ turned = 0
    /\ synced => /\ Num(world) - Num(rtc) - ahead \in {-3, 0, 3, 6}
                 /\ ~midnight => Num(world) - Num(rtc) = ahead

AnswerAge == pc # "idle" => Num(world) = Num(ans) - 1 + passed

DateSet ==
  /\ pc \in {"date_time", "date_date"} => LocalDay(new) = ans.day
  /\ pc = "set_time" =>
       /\ LocalDay(rtc) - ans.day \in {-1, 0, 1}
       /\ turned = 0 \/ ~midnight => LocalDay(rtc) = ans.day

TimeSet ==
  /\ pc \in {"time_time", "time_date"} =>
       /\ Num(new) - (Num(ans) - 1) \in {-3, 0, 3}
       /\ ~midnight => Num(new) = Num(ans) - 1
  /\ pc = "time_date" => ahead = passed - turned

HalfSet == pc \in {"date_date", "time_date"} => RunsFromNew

SyncInv == IdleApart /\ AnswerAge /\ DateSet /\ TimeSet /\ HalfSet

LEMMA Counters ==
  ASSUME ClockInv
  PROVE  /\ IsCounter(world) /\ IsCounter(rtc) /\ IsCounter(ans) /\ IsCounter(new)
         /\ ahead \in Int /\ passed \in {0, 1} /\ turned \in {0, 1}
         /\ midnight \in BOOLEAN /\ synced \in BOOLEAN
BY DEF ClockInv, TypeOK, IsMoment, IsCounter, Parts

LEMMA WorldKeeps ==
  ASSUME ClockInv, SyncInv, WorldTick
  PROVE  SyncInv'
<1>1. /\ world' = Later(world) /\ ahead' = ahead + 1
      /\ pc' = pc /\ rtc' = rtc /\ ans' = ans /\ new' = new
      /\ turned' = turned /\ midnight' = midnight /\ synced' = synced
      /\ pc # "idle" => passed = 0 /\ passed' = 1
      /\ pc = "idle" => passed' = passed
  BY DEF WorldTick, Syncing, syncVars
<1>2. IsCounter(world) /\ Num(world') = Num(world) + 1
  BY <1>1, Counters, LaterNum
<1>3. /\ Num(rtc) \in Int /\ Num(world) \in Int /\ Num(ans) \in Int /\ Num(new) \in Int
      /\ ahead \in Int
  BY Counters DEF IsCounter, Num
<1>4. IdleApart'
  BY <1>1, <1>2, <1>3 DEF SyncInv, IdleApart, Num
<1>5. AnswerAge'
  BY <1>1, <1>2, <1>3 DEF SyncInv, AnswerAge, Num
<1>6. DateSet'
  BY <1>1 DEF SyncInv, DateSet, LocalDay
<1>7. TimeSet'
  <2>1. turned \in {0, 1}  BY Counters
  <2> QED  BY <1>1, <1>3, <2>1 DEF SyncInv, TimeSet, Num
<1>8. HalfSet'
  BY <1>1 DEF SyncInv, HalfSet, RunsFromNew
<1> QED  BY <1>4, <1>5, <1>6, <1>7, <1>8 DEF SyncInv

LEMMA ChipKeeps ==
  ASSUME ClockInv, SyncInv, ChipTick
  PROVE  SyncInv'
<1>1. /\ rtc' = Later(rtc) /\ ahead' = ahead - 1
      /\ pc' = pc /\ world' = world /\ ans' = ans /\ new' = new
      /\ passed' = passed /\ synced' = synced
      /\ pc # "idle" => turned = 0 /\ turned' = 1
      /\ pc = "idle" => turned' = turned
  BY DEF ChipTick, Syncing, syncVars
<1>2. /\ pc # "idle" /\ ~midnight' => ~midnight /\ rtc.part = 0
      /\ pc = "idle" /\ ~midnight' => ~midnight
  BY Counters DEF ChipTick, Syncing, Midnight
<1>3. /\ IsCounter(rtc) /\ Num(rtc') = Num(rtc) + 1
      /\ rtc'.part = IF rtc.part = 2 THEN 0 ELSE rtc.part + 1
      /\ rtc'.day = LocalDay(rtc)
  BY <1>1, Counters, LaterNum
<1>4. /\ Num(rtc) \in Int /\ Num(world) \in Int /\ Num(ans) \in Int /\ Num(new) \in Int
      /\ ahead \in Int /\ LocalDay(rtc) \in Int /\ ans.day \in Int
  BY Counters DEF IsCounter, Num, LocalDay
<1>5. IdleApart'
  BY <1>1, <1>2, <1>3, <1>4 DEF SyncInv, IdleApart, Num
<1>6. AnswerAge'
  BY <1>1 DEF SyncInv, AnswerAge, Num
<1>7. DateSet'
  <2>1. pc = "set_time" => LocalDay(rtc) = ans.day
    BY <1>1 DEF SyncInv, DateSet
  <2>2. LocalDay(rtc') = rtc'.day + (IF rtc.part = 1 THEN 1 ELSE 0)
    BY <1>3 DEF LocalDay, IsCounter
  <2>3. (pc \in {"date_time", "date_date"} => LocalDay(new) = ans.day)'
    BY <1>1 DEF SyncInv, DateSet, LocalDay
  <2>4. pc = "set_time" =>
          /\ LocalDay(rtc') - ans.day \in {-1, 0, 1}
          /\ ~midnight' => LocalDay(rtc') = ans.day
    BY <1>2, <1>3, <1>4, <2>1, <2>2
  <2> QED  BY <1>1, <2>3, <2>4 DEF DateSet, LocalDay
<1>8. TimeSet'
  <2>1. passed \in {0, 1}  BY Counters
  <2> QED  BY <1>1, <1>2, <1>4, <2>1 DEF SyncInv, TimeSet, Num
<1>9. HalfSet'
  <2>1. CASE pc \in {"date_date", "time_date"}
    <3>1. turned = 0 /\ turned' = 1 /\ rtc.part = (new.part + 0) % 3
      BY <1>1, <2>1 DEF SyncInv, HalfSet, RunsFromNew
    <3>2. new.part \in {0, 1, 2}  BY Counters DEF IsCounter
    <3>3. rtc.part = new.part  BY <3>1, <3>2
    <3>4. rtc'.part = (new.part + 1) % 3  BY <1>3, <3>2, <3>3
    <3> QED  BY <1>1, <1>2, <2>1, <3>1, <3>3, <3>4 DEF HalfSet, RunsFromNew
  <2>2. CASE pc \notin {"date_date", "time_date"}
    BY <1>1, <2>2 DEF HalfSet
  <2> QED  BY <2>1, <2>2
<1> QED  BY <1>5, <1>6, <1>7, <1>8, <1>9 DEF SyncInv

(* A chip that stands wrong is not one that was set. *)
LEMMA WrongKeeps ==
  ASSUME ClockInv, SyncInv, ChipWrong
  PROVE  SyncInv'
<1>1. /\ pc = "idle" /\ pc' = pc /\ synced' = FALSE /\ passed' = passed /\ turned' = turned
  BY DEF ChipWrong, Syncing, syncVars
<1> QED  BY <1>1 DEF SyncInv, IdleApart, AnswerAge, DateSet, TimeSet, HalfSet

LEMMA AnsweredKeeps ==
  ASSUME ClockInv, SyncInv, Answered
  PROVE  SyncInv'
<1>1. /\ pc = "idle" /\ pc' = "set_date" /\ ans' = Later(world)
      /\ world' = world /\ passed' = passed
  BY DEF Answered, localtime
<1>2. passed = 0 /\ Num(ans') = Num(world) + 1 /\ Num(world) \in Int
  BY <1>1, Counters, LaterNum DEF SyncInv, IdleApart, IsCounter, Num
<1>3. AnswerAge'
  BY <1>1, <1>2 DEF AnswerAge, Num
<1> QED  BY <1>1, <1>3 DEF SyncInv, IdleApart, DateSet, TimeSet, HalfSet

LEMMA SetDateKeeps ==
  ASSUME ClockInv, SyncInv, set_date
  PROVE  SyncInv'
<1> DEFINE mixed == Moment(ans.date, Later(rtc).part, ans.day)
<1>1. /\ pc = "set_date" /\ pc' = "date_time" /\ new' = Earlier(mixed)
      /\ world' = world /\ ans' = ans /\ passed' = passed
  BY DEF set_date, localtime, mktime
<1>2. IsCounter(mixed) /\ mixed.day = ans.day
  BY Counters, LaterNum DEF IsCounter, Moment
<1> HIDE DEF mixed
<1>3. LocalDay(new') = ans.day
  BY <1>1, <1>2, EarlierNum
<1>4. AnswerAge' /\ DateSet'
  BY <1>1, <1>3 DEF SyncInv, AnswerAge, DateSet, Num, LocalDay
<1> QED  BY <1>1, <1>4 DEF SyncInv, IdleApart, TimeSet, HalfSet

LEMMA SetTimeKeeps ==
  ASSUME ClockInv, SyncInv, set_time
  PROVE  SyncInv'
<1> DEFINE mixed == Moment(Later(rtc).date, ans.part, Later(rtc).day)
<1>1. /\ pc = "set_time" /\ pc' = "time_time" /\ new' = Earlier(mixed)
      /\ world' = world /\ ans' = ans /\ passed' = passed /\ midnight' = midnight
  BY DEF set_time, localtime, mktime
<1>2. IsCounter(mixed) /\ mixed.day = LocalDay(rtc) /\ mixed.part = ans.part
  BY Counters, LaterNum DEF IsCounter, Moment
<1> HIDE DEF mixed
<1>3. Num(new') = 3 * LocalDay(rtc) + ans.part - 1
  <2>1. Num(new') = Num(mixed) - 1  BY <1>1, <1>2, EarlierNum
  <2>2. Num(mixed) = 3 * mixed.day + mixed.part  BY DEF Num
  <2>3. LocalDay(rtc) \in Int /\ ans.part \in Int
    BY Counters DEF IsCounter, LocalDay
  <2> QED  BY <1>2, <2>1, <2>2, <2>3
<1>4. /\ LocalDay(rtc) - ans.day \in {-1, 0, 1}
      /\ ~midnight => LocalDay(rtc) = ans.day
  BY <1>1 DEF SyncInv, DateSet
<1>5. LocalDay(rtc) \in Int /\ ans.day \in Int /\ ans.part \in Int
  BY Counters DEF IsCounter, LocalDay
<1>6. /\ Num(new') - (Num(ans) - 1) \in {-3, 0, 3}
      /\ ~midnight => Num(new') = Num(ans) - 1
  BY <1>3, <1>4, <1>5 DEF Num
<1>7. TimeSet' /\ AnswerAge'
  BY <1>1, <1>6 DEF SyncInv, AnswerAge, TimeSet, Num
<1> QED  BY <1>1, <1>7 DEF SyncInv, IdleApart, DateSet, HalfSet

LEMMA WriteTimeKeeps ==
  ASSUME ClockInv, SyncInv, WriteTime
  PROVE  SyncInv'
<1>1. /\ rtc' = Moment(rtc.date, new.part, rtc.day) /\ turned' = 0
      /\ world' = world /\ ans' = ans /\ new' = new
      /\ passed' = passed /\ midnight' = midnight
      /\ \/ pc = "date_time" /\ pc' = "date_date"
         \/ pc = "time_time" /\ pc' = "time_date" /\ ahead' = passed
  BY DEF WriteTime
<1>2. HalfSet'
  <2>1. rtc'.part = new.part /\ new.part \in {0, 1, 2}
    BY <1>1, Counters DEF Moment, IsCounter
  <2>2. rtc'.part = (new.part + 0) % 3  BY <2>1
  <2> QED  BY <1>1, <2>2 DEF HalfSet, RunsFromNew
<1>3. TimeSet'
  <2>1. passed \in {0, 1}  BY Counters
  <2> QED  BY <1>1, <2>1 DEF SyncInv, TimeSet, Num
<1>4. AnswerAge' /\ DateSet'
  BY <1>1 DEF SyncInv, AnswerAge, DateSet, Num, LocalDay
<1> QED  BY <1>1, <1>2, <1>3, <1>4 DEF SyncInv, IdleApart

(* The second half: if the chip passed the midnight of UTC between the two,  *)
(* its new date is written over by the old one, and the day is lost.         *)
LEMMA SecondHalf ==
  ASSUME ClockInv, SyncInv, WriteDate
  PROVE  /\ IsCounter(rtc') /\ rtc'.day = new.day
         /\ \/ Num(rtc') = Num(new) + turned
            \/ Num(rtc') = Num(new) + turned - 3 /\ midnight /\ new.part = 2 /\ rtc'.part = 0
         /\ turned = 0 => rtc'.part = new.part
         /\ turned = 1 => rtc'.part = IF new.part = 2 THEN 0 ELSE new.part + 1
         /\ turned = 1 /\ ~midnight => new.part = 0
<1>1. /\ rtc' = Moment(new.date, rtc.part, new.day)
      /\ pc \in {"date_date", "time_date"}
  BY DEF WriteDate
<1>2. /\ rtc.part = (new.part + turned) % 3
      /\ turned = 1 /\ ~midnight => new.part = 0
  BY <1>1 DEF SyncInv, HalfSet, RunsFromNew
<1>3. /\ IsCounter(rtc) /\ IsCounter(new) /\ turned \in {0, 1} /\ midnight \in BOOLEAN
  BY Counters
<1>4. IsCounter(rtc') /\ rtc'.day = new.day /\ rtc'.part = rtc.part
  BY <1>1, <1>3 DEF Moment, IsCounter
<1>5. /\ turned = 0 => rtc.part = new.part
      /\ turned = 1 => rtc.part = IF new.part = 2 THEN 0 ELSE new.part + 1
  <2>1. new.part \in {0, 1, 2}  BY <1>3 DEF IsCounter
  <2>2. turned = 0 => rtc.part = (new.part + 0) % 3  BY <1>2
  <2>3. turned = 1 => rtc.part = (new.part + 1) % 3  BY <1>2
  <2>4. (new.part + 0) % 3 = new.part  BY <2>1
  <2>5. (new.part + 1) % 3 = IF new.part = 2 THEN 0 ELSE new.part + 1  BY <2>1
  <2> QED  BY <2>2, <2>3, <2>4, <2>5
<1>6. \/ 3 * new.day + rtc.part = 3 * new.day + new.part + turned
      \/ /\ 3 * new.day + rtc.part = 3 * new.day + new.part + turned - 3
         /\ midnight /\ new.part = 2 /\ rtc.part = 0
  BY <1>2, <1>3, <1>5 DEF IsCounter
<1> QED  BY <1>2, <1>4, <1>5, <1>6 DEF Num

LEMMA WriteDateKeeps ==
  ASSUME ClockInv, SyncInv, WriteDate
  PROVE  SyncInv'
<1>1. /\ world' = world /\ ahead' = ahead /\ midnight' = midnight
      /\ IsCounter(world) /\ IsCounter(ans) /\ IsCounter(new)
      /\ passed \in {0, 1} /\ turned \in {0, 1} /\ ahead \in Int
  BY Counters DEF WriteDate
<1>2. CASE pc = "date_date"
  <2>1. /\ pc' = "set_time" /\ ans' = ans /\ new' = new
        /\ passed' = passed /\ turned' = turned
    BY <1>2 DEF WriteDate
  <2>2. LocalDay(new) = ans.day  BY <1>2 DEF SyncInv, DateSet
  <2>3. /\ LocalDay(rtc') - ans.day \in {-1, 0, 1}
        /\ turned = 0 \/ ~midnight => LocalDay(rtc') = ans.day
    BY <1>1, <2>2, SecondHalf DEF LocalDay, IsCounter
  <2>4. DateSet' /\ AnswerAge'
    BY <1>1, <1>2, <2>1, <2>3 DEF SyncInv, DateSet, AnswerAge, Num, LocalDay
  <2> QED  BY <2>1, <2>4 DEF SyncInv, IdleApart, TimeSet, HalfSet
<1>3. CASE pc = "time_date"
  <2>1. pc' = "idle" /\ passed' = 0 /\ turned' = 0
    BY <1>3 DEF WriteDate, LocalsGone
  <2>2. /\ Num(world) = Num(ans) - 1 + passed /\ ahead = passed - turned
        /\ Num(new) - (Num(ans) - 1) \in {-3, 0, 3}
        /\ ~midnight => Num(new) = Num(ans) - 1
    BY <1>3 DEF SyncInv, AnswerAge, TimeSet
  <2>3. \/ Num(rtc') = Num(new) + turned
        \/ Num(rtc') = Num(new) + turned - 3 /\ midnight
    BY SecondHalf
  <2>4. Num(world) \in Int /\ Num(ans) \in Int /\ Num(new) \in Int /\ Num(rtc') \in Int
    BY <1>1, SecondHalf DEF IsCounter, Num
  <2>5. /\ Num(world) - Num(rtc') - ahead \in {-3, 0, 3, 6}
        /\ ~midnight => Num(world) - Num(rtc') = ahead
    BY <1>1, <2>2, <2>3, <2>4
  <2>6. IdleApart'
    BY <1>1, <2>1, <2>5 DEF IdleApart, Num
  <2> QED  BY <2>1, <2>6 DEF SyncInv, AnswerAge, DateSet, TimeSet, HalfSet
<1> QED  BY <1>2, <1>3 DEF WriteDate

(* The page reads, and writes nothing. *)
LEMMA PageKeeps ==
  ASSUME SyncInv, anniversary_load \/ PageLeft
  PROVE  SyncInv'
BY DEF anniversary_load, PageLeft, syncVars, pastVars, SyncInv, IdleApart, AnswerAge,
   DateSet, TimeSet, HalfSet, RunsFromNew, Num, LocalDay

LEMMA InitSync == Init => SyncInv
<1> SUFFICES ASSUME Init PROVE SyncInv
  OBVIOUS
<1> QED  BY DEF Init, SyncInv, IdleApart, AnswerAge, DateSet, TimeSet, HalfSet

LEMMA NextSync == ClockInv /\ SyncInv /\ [Next]_vars => SyncInv'
<1> SUFFICES ASSUME ClockInv, SyncInv, [Next]_vars PROVE SyncInv'
  OBVIOUS
<1>1. CASE UNCHANGED vars
  BY <1>1 DEF vars, syncVars, pastVars, pageVars, SyncInv, IdleApart, AnswerAge,
     DateSet, TimeSet, HalfSet, RunsFromNew, Num, LocalDay
<1>2. CASE ntp_sync
  BY <1>2, AnsweredKeeps, SetDateKeeps, SetTimeKeeps, WriteTimeKeeps, WriteDateKeeps
  DEF ntp_sync
<1> QED  BY <1>1, <1>2, WorldKeeps, ChipKeeps, WrongKeeps, PageKeeps DEF Next

THEOREM SyncInvariance == Spec => [](ClockInv /\ SyncInv)
<1> QED  BY InitClock, NextClock, InitSync, NextSync, PTL DEF Spec

(* However the midnights of the world and of the chip fall into a            *)
(* synchronisation: the chip is then two days behind at most, or one ahead.  *)
THEOREM BoundedErrorAlways == Spec => []BoundedError
<1>1. ClockInv /\ SyncInv => BoundedError
  <2> SUFFICES ASSUME ClockInv, SyncInv, synced, pc = "idle", ahead = 0
               PROVE  rtc.day - world.day \in -2..1
    BY DEF BoundedError, Syncing
  <2>1. Num(world) - Num(rtc) - 0 \in {-3, 0, 3, 6}
    BY DEF SyncInv, IdleApart
  <2> QED  BY <2>1, Counters DEF Num, IsCounter
<1> QED  BY <1>1, SyncInvariance, PTL

-----------------------------------------------------------------------------
(* Moments with the same number are the same moment.                         *)

(* The years of the formula do not overlap. *)
LEMMA YearsApart ==
  ASSUME NEW y \in Nat, NEW z \in Nat, y < z
  PROVE  DaysOfYears(z) >= DaysOfYears(y) + 365
<1>1. z \div 4 >= y \div 4 /\ z \div 400 >= y \div 400
  OBVIOUS
<1>2. z \div 100 <= y \div 100 + (z - y)
  OBVIOUS
<1> QED  BY <1>1, <1>2 DEF DaysOfYears

(* How many days February 29th adds to the end of a year of the formula. *)
LEMMA MarchYears ==
  ASSUME NEW d, IsDate(d)
  PROVE  LET y == YearOf(d.tm_year, d.tm_mon)
             o == MonthStart(d.tm_mon) + (d.tm_mday - 1)
         IN  /\ y \in Nat /\ o \in Nat
             /\ Serial(d) = DaysOfYears(y) + o
             /\ DaysOfYears(y) + o < DaysOfYears(y + 1)
<1> DEFINE y == d.tm_year
           m == d.tm_mon
           x == d.tm_mday
           o == MonthStart(m) + (x - 1)
<1>1. /\ d = Date(y, m, x) /\ y \in Nat \ {0} /\ m \in 1..12 /\ x \in 1..31
      /\ x <= MonthLength(y, m)
  BY DateParts
<1>2. Serial(d) = DaysOfYears(YearOf(y, m)) + MonthStart(m) + (x - 1)
  <2>1. y \in Nat /\ x \in Nat  BY <1>1
  <2>2. Serial(Date(y, m, x)) = DaysOfYears(YearOf(y, m)) + MonthStart(m) + (x - 1)
    BY <1>1, <2>1, MonthTable
  <2> QED  BY <1>1, <2>2
<1>3. YearOf(y, m) \in Nat /\ MonthStart(m) \in Nat /\ o \in Nat
  BY <1>1 DEF YearOf, MonthStart
<1>4. DaysOfYears(YearOf(y, m)) \in Int /\ DaysOfYears(YearOf(y, m) + 1) \in Int
  BY <1>3 DEF DaysOfYears
<1>5. o < 365 \/ (o = 365 /\ m = 2 /\ Leap(y))
  <2>1. CASE m = 2
    BY <1>1, <2>1 DEF MonthStart, MonthLength
  <2>2. CASE m # 2
    BY <1>1, <2>2 DEF MonthStart, MonthLength
  <2> QED  BY <2>1, <2>2
<1>6. DaysOfYears(YearOf(y, m) + 1) >= DaysOfYears(YearOf(y, m)) + 365
  BY <1>3, YearsApart
<1>7. m = 2 /\ Leap(y) => DaysOfYears(YearOf(y, m) + 1) = DaysOfYears(YearOf(y, m)) + 366
  <2> SUFFICES ASSUME m = 2, Leap(y)
               PROVE  DaysOfYears(YearOf(y, m) + 1) = DaysOfYears(YearOf(y, m)) + 366
    OBVIOUS
  <2>1. YearOf(y, m) = y - 1 /\ YearOf(y, m) + 1 = y  BY <1>1 DEF YearOf
  <2> QED  BY <1>1, <2>1, YearAdds
<1>8. DaysOfYears(YearOf(y, m)) + o < DaysOfYears(YearOf(y, m) + 1)
  BY <1>3, <1>4, <1>5, <1>6, <1>7
<1>9. Serial(d) = DaysOfYears(YearOf(y, m)) + o
  BY <1>2, <1>3, <1>4, <1>1
<1> QED  BY <1>3, <1>8, <1>9

(* Counted from the first of March, no two months share a day.               *)
LEMMA MonthsApart ==
  ASSUME NEW y \in Nat, NEW z \in Nat, NEW m \in 1..12, NEW n \in 1..12,
         NEW u \in 1..31, NEW v \in 1..31,
         u <= MonthLength(y, m), v <= MonthLength(z, n),
         MonthStart(m) + u = MonthStart(n) + v
  PROVE  m = n
<1> DEFINE last(k) == IF k = 2 THEN 29 ELSE IF k \in {4, 6, 9, 11} THEN 30 ELSE 31
<1>1. u <= last(m) /\ v <= last(n)
  BY DEF MonthLength
<1>2. \A j, k \in 1..12 : MonthStart(j) < MonthStart(k) => MonthStart(j) + last(j) <= MonthStart(k)
  <2>1. \A k \in 1..12 : MonthStart(k) \in {306, 337, 0, 31, 61, 92, 122, 153, 184, 214, 245, 275}
    BY DEF MonthStart
  <2>2. \A k \in 1..12 : \/ MonthStart(k) = 306 /\ last(k) = 31
                         \/ MonthStart(k) = 337 /\ last(k) = 29
                         \/ MonthStart(k) \in {0, 61, 122, 153, 214, 275} /\ last(k) = 31
                         \/ MonthStart(k) \in {31, 92, 184, 245} /\ last(k) = 30
    BY DEF MonthStart
  <2> QED  BY <2>2
<1>3. \A j, k \in 1..12 : MonthStart(j) = MonthStart(k) => j = k
  BY DEF MonthStart
<1>4. MonthStart(m) \in Int /\ MonthStart(n) \in Int /\ last(m) \in Int /\ last(n) \in Int
  BY DEF MonthStart
<1> HIDE DEF last
<1> QED  BY <1>1, <1>2, <1>3, <1>4

(* The formula numbers no two dates alike. *)
LEMMA SerialInjective ==
  ASSUME NEW d, NEW e, IsDate(d), IsDate(e), Serial(d) = Serial(e)
  PROVE  d = e
<1> DEFINE Y(a) == YearOf(a.tm_year, a.tm_mon)
           O(a) == MonthStart(a.tm_mon) + (a.tm_mday - 1)
<1>1. /\ Y(d) \in Nat /\ O(d) \in Nat
      /\ Serial(d) = DaysOfYears(Y(d)) + O(d)
      /\ DaysOfYears(Y(d)) + O(d) < DaysOfYears(Y(d) + 1)
  BY MarchYears
<1>2. /\ Y(e) \in Nat /\ O(e) \in Nat
      /\ Serial(e) = DaysOfYears(Y(e)) + O(e)
      /\ DaysOfYears(Y(e)) + O(e) < DaysOfYears(Y(e) + 1)
  BY MarchYears
<1>3. \A y \in Nat : DaysOfYears(y) \in Int /\ DaysOfYears(y + 1) \in Int
  BY DEF DaysOfYears
<1>4. \A y, z \in Nat : y < z => DaysOfYears(z) >= DaysOfYears(y + 1)
  <2> SUFFICES ASSUME NEW y \in Nat, NEW z \in Nat, y < z
               PROVE  DaysOfYears(z) >= DaysOfYears(y + 1)
    OBVIOUS
  <2>1. CASE z = y + 1
    BY <1>3, <2>1
  <2>2. CASE y + 1 < z
    <3>1. DaysOfYears(z) >= DaysOfYears(y + 1) + 365  BY <2>2, YearsApart
    <3> QED  BY <1>3, <3>1
  <2> QED  BY <2>1, <2>2
<1>5. /\ DaysOfYears(Y(d)) \in Int /\ DaysOfYears(Y(d) + 1) \in Int
      /\ DaysOfYears(Y(e)) \in Int /\ DaysOfYears(Y(e) + 1) \in Int
      /\ DaysOfYears(Y(d)) + O(d) = DaysOfYears(Y(e)) + O(e)
  BY <1>1, <1>2, <1>3
<1> HIDE DEF Y, O
<1>6. Y(d) = Y(e)
  <2>1. ~(Y(d) < Y(e))
    <3> SUFFICES ASSUME Y(d) < Y(e) PROVE FALSE
      OBVIOUS
    <3>1. DaysOfYears(Y(e)) >= DaysOfYears(Y(d) + 1)  BY <1>1, <1>2, <1>4
    <3> QED  BY <1>1, <1>2, <1>5, <3>1
  <2>2. ~(Y(e) < Y(d))
    <3> SUFFICES ASSUME Y(e) < Y(d) PROVE FALSE
      OBVIOUS
    <3>1. DaysOfYears(Y(d)) >= DaysOfYears(Y(e) + 1)  BY <1>1, <1>2, <1>4
    <3> QED  BY <1>1, <1>2, <1>5, <3>1
  <2> QED  BY <1>1, <1>2, <2>1, <2>2
<1>7. O(d) = O(e)
  BY <1>1, <1>2, <1>5, <1>6
<1>8. /\ d = Date(d.tm_year, d.tm_mon, d.tm_mday)
      /\ d.tm_year \in Nat \ {0} /\ d.tm_mon \in 1..12 /\ d.tm_mday \in 1..31
      /\ d.tm_mday <= MonthLength(d.tm_year, d.tm_mon)
      /\ e = Date(e.tm_year, e.tm_mon, e.tm_mday)
      /\ e.tm_year \in Nat \ {0} /\ e.tm_mon \in 1..12 /\ e.tm_mday \in 1..31
      /\ e.tm_mday <= MonthLength(e.tm_year, e.tm_mon)
  BY DateParts
<1>9. d.tm_mon = e.tm_mon
  <2>1. MonthStart(d.tm_mon) + d.tm_mday = MonthStart(e.tm_mon) + e.tm_mday
    <3>1. MonthStart(d.tm_mon) \in Int /\ MonthStart(e.tm_mon) \in Int
      BY <1>8 DEF MonthStart
    <3>2. d.tm_mday \in Int /\ e.tm_mday \in Int  BY <1>8
    <3> QED  BY <1>7, <3>1, <3>2 DEF O
  <2>2. d.tm_year \in Nat /\ e.tm_year \in Nat  BY <1>8
  <2>3. /\ d.tm_mon \in 1..12 /\ d.tm_mday \in 1..31
        /\ d.tm_mday <= MonthLength(d.tm_year, d.tm_mon)
        /\ e.tm_mon \in 1..12 /\ e.tm_mday \in 1..31
        /\ e.tm_mday <= MonthLength(e.tm_year, e.tm_mon)
    BY <1>8
  <2> QED  BY <2>1, <2>2, <2>3, MonthsApart
<1>10. d.tm_mday = e.tm_mday
  <2>1. MonthStart(d.tm_mon) \in Int  BY <1>8 DEF MonthStart
  <2> QED  BY <1>7, <1>8, <1>9, <2>1 DEF O
<1>11. d.tm_year = e.tm_year
  BY <1>6, <1>8, <1>9 DEF Y, YearOf
<1> QED  BY <1>8, <1>9, <1>10, <1>11

LEMMA Digits ==
  ASSUME NEW a \in Int, NEW b \in Int, NEW p \in {0, 1, 2}, NEW q \in {0, 1, 2},
         3 * a + p = 3 * b + q
  PROVE  a = b /\ p = q
OBVIOUS

LEMMA SameMoment ==
  ASSUME NEW m, NEW n, Good(m, 1), Good(n, 1), Num(m) = Num(n),
         Serial(target_date) \in Int
  PROVE  m = n
<1>1. /\ m = [date |-> m.date, part |-> m.part, day |-> m.day]
      /\ n = [date |-> n.date, part |-> n.part, day |-> n.day]
      /\ m.day \in Int /\ n.day \in Int /\ m.part \in {0, 1, 2} /\ n.part \in {0, 1, 2}
      /\ IsDate(m.date) /\ IsDate(n.date)
      /\ m.day = Serial(m.date) - Serial(target_date)
      /\ n.day = Serial(n.date) - Serial(target_date)
  BY DEF Good, IsMoment, Counted, Parts
<1>2. m.day = n.day /\ m.part = n.part
  <2>1. /\ m.day \in Int /\ n.day \in Int
        /\ m.part \in {0, 1, 2} /\ n.part \in {0, 1, 2}
    BY <1>1
  <2>2. 3 * m.day + m.part = 3 * n.day + n.part  BY DEF Num
  <2> DEFINE a == m.day
             b == n.day
             p == m.part
             q == n.part
  <2>3. a \in Int /\ b \in Int /\ p \in {0, 1, 2} /\ q \in {0, 1, 2}
        /\ 3 * a + p = 3 * b + q
    BY <2>1, <2>2
  <2> HIDE DEF a, b, p, q
  <2>4. a = b /\ p = q  BY <2>3, Digits
  <2> QED  BY <2>4 DEF a, b, p, q
<1>3. Serial(m.date) \in Int /\ Serial(n.date) \in Int
  BY <1>1, SerialType
<1>4. m.date = n.date
  BY <1>1, <1>2, <1>3, SerialInjective
<1> QED  BY <1>1, <1>2, <1>4

(* A synchronisation during which the chip's date did not change leaves the  *)
(* clock right, to the part and to the date.                                 *)
THEOREM SyncSetsAlways == Spec => []SyncSets
<1>1. ClockInv /\ SyncInv => SyncSets
  <2> SUFFICES ASSUME ClockInv, SyncInv, synced, ~midnight, pc = "idle"
               PROVE  InStep
    BY DEF SyncSets, Syncing
  <2>1. Num(world) - Num(rtc) = ahead /\ ahead \in {-1, 0, 1}
    BY DEF SyncInv, IdleApart, ClockInv, TypeOK, AheadBound
  <2>2. Serial(target_date) \in Int
    BY ClockAssumption, SerialType DEF ClockInv, TypeOK
  <2>3. Good(world, 1) /\ Good(rtc, 1)
    <3>1. Good(world, 1) /\ Good(rtc, FirstYear) /\ FirstYear \in Nat /\ FirstYear > 1
      BY ClockAssumption DEF ClockInv, DatesCounted
    <3>2. rtc.date.tm_year \in Nat  BY <3>1 DEF Good, IsMoment
    <3> QED  BY <3>1, <3>2 DEF Good
  <2>4. Good(Later(rtc), 1) /\ Good(Later(world), 1)
    BY <2>2, <2>3, LaterGood
  <2>5. /\ Num(Later(rtc)) = Num(rtc) + 1 /\ Num(Later(world)) = Num(world) + 1
        /\ Num(rtc) \in Int /\ Num(world) \in Int
    BY Counters, LaterNum DEF IsCounter, Num
  <2>6. CASE ahead = 0
    <3>1. rtc = world  BY <2>1, <2>2, <2>3, <2>5, <2>6, SameMoment
    <3> QED  BY <2>6, <3>1 DEF InStep
  <2>7. CASE ahead = 1
    <3>1. Later(rtc) = world  BY <2>1, <2>2, <2>3, <2>4, <2>5, <2>7, SameMoment
    <3> QED  BY <2>7, <3>1 DEF InStep
  <2>8. CASE ahead = -1
    <3>1. rtc = Later(world)  BY <2>1, <2>2, <2>3, <2>4, <2>5, <2>8, SameMoment
    <3> QED  BY <2>8, <3>1 DEF InStep
  <2> QED  BY <2>1, <2>6, <2>7, <2>8
<1> QED  BY <1>1, SyncInvariance, PTL

-----------------------------------------------------------------------------
(* timegm of the C library.                                                  *)

(* What it takes off from 2101 on are the years that 100 divides, less those *)
(* that 400 divides, since 1970.                                             *)
LEMMA CenturyCounts ==
  ASSUME NEW y \in Nat, y >= 1970
  PROVE  CenturyDays(y - 1970) = (y - 1) \div 100 - (y - 1) \div 400 - 15
<1> DEFINE q == (y - 1) \div 100
<1>1. q \in Nat /\ (y - 1) \div 400 = q \div 4
  OBVIOUS
<1>2. CASE y - 1970 < 131
  <2>1. q \in {19, 20}  BY <1>2
  <2>2. q - q \div 4 = 15  BY <2>1
  <2>3. CenturyDays(y - 1970) = 0  BY <1>2 DEF CenturyDays
  <2> QED  BY <1>1, <2>1, <2>2, <2>3
<1>3. CASE ~(y - 1970 < 131)
  <2> DEFINE c == (y - 1970 - 131) \div 100
             r == c % 4
  <2>1. c \in Nat /\ c = q - 21  BY <1>3
  <2>2. CenturyDays(y - 1970) = (c \div 4) * 3 + 1 + (IF r = 3 THEN 2 ELSE r)
    BY <1>3 DEF CenturyDays
  <2> HIDE DEF c, q
  <2>3. c = 4 * (c \div 4) + r /\ r \in {0, 1, 2, 3} /\ c \div 4 \in Nat  BY <2>1
  <2>4. q \div 4 = (c \div 4) + 5 + (IF r = 3 THEN 1 ELSE 0)  BY <1>1, <2>1, <2>3
  <2> QED  BY <1>1, <2>1, <2>2, <2>3, <2>4 DEF q
<1> QED  BY <1>2, <1>3

(* It is the formula of dateDiff, counted from 1970. *)
LEMMA TimegmCounts ==
  ASSUME NEW d, IsDate(d), d.tm_year >= 1970
  PROVE  timegm(d) = Serial(d) - 719468
<1> DEFINE y == d.tm_year
           m == d.tm_mon
           x == d.tm_mday
           leap == IF Leap(y) THEN 1 ELSE 0
<1>1. /\ d = Date(y, m, x) /\ y \in Nat \ {0} /\ m \in 1..12 /\ x \in 1..31
      /\ y >= 1970 /\ x \in Nat /\ y \in Nat
  BY DateParts
<1> HIDE DEF y, m, x
<1>2. Serial(d) = DaysOfYears(YearOf(y, m)) + MonthStart(m) + (x - 1)
  <2>1. Serial(Date(y, m, x)) = DaysOfYears(YearOf(y, m)) + MonthStart(m) + (x - 1)
    BY <1>1, MonthTable
  <2> QED  BY <1>1, <2>1
<1>3. timegm(d) = (y - 1970) * 365 + (y - 1970 + 1) \div 4 - CenturyDays(y - 1970)
                  + spm[m - 1] + x - 1 + (IF m > 2 THEN leap ELSE 0)
  BY <1>1 DEF timegm, isleap, Leap, y, m, x
<1>4. (y - 1970 + 1) \div 4 = (y - 1) \div 4 - 492
  BY <1>1
<1>5. CenturyDays(y - 1970) = (y - 1) \div 100 - (y - 1) \div 400 - 15
  BY <1>1, CenturyCounts
<1>6. /\ (y - 1) \div 4 \in Int /\ (y - 1) \div 100 \in Int /\ (y - 1) \div 400 \in Int
      /\ leap \in Int
  BY <1>1
<1>7. DaysOfYears(y - 1) = 365 * (y - 1) + (y - 1) \div 4 - (y - 1) \div 100 + (y - 1) \div 400
  BY DEF DaysOfYears
<1>8. DaysOfYears(y) = DaysOfYears(y - 1) + 365 + leap
  BY <1>1, <1>6, <1>7, YearAdds
<1>9. m < 3 => /\ YearOf(y, m) = y - 1 /\ spm[m - 1] \in Int
               /\ MonthStart(m) = spm[m - 1] + 306
  BY <1>1 DEF YearOf, spm, MonthStart
<1>10. m > 2 => /\ YearOf(y, m) = y /\ spm[m - 1] \in Int
                /\ MonthStart(m) = spm[m - 1] - 59
  BY <1>1 DEF YearOf, spm, MonthStart
<1> HIDE DEF leap
<1>11. CASE m < 3
  BY <1>1, <1>2, <1>3, <1>4, <1>5, <1>6, <1>7, <1>9, <1>11
<1>12. CASE m > 2
  BY <1>1, <1>2, <1>3, <1>4, <1>5, <1>6, <1>7, <1>8, <1>10, <1>12
<1> QED  BY <1>1, <1>11, <1>12

(* From 1970 on, timegm counts the days of the calendar, leap days and the   *)
(* centuries' missing ones among them: what set_date and set_time turn into  *)
(* a time stamp is as many days from the target date as the chip is.         *)
THEOREM DaysAgreeAlways ==
  ASSUME FirstYear >= 1970
  PROVE  Spec => []DaysAgree
<1>1. Init => target_date.tm_year > FirstYear
  BY DEF Init
<1>2. target_date.tm_year > FirstYear /\ [Next]_vars => (target_date.tm_year > FirstYear)'
  <2>1. Next => target_date' = target_date
    BY DEF Next, WorldTick, ChipTick, ChipWrong, ntp_sync, Answered, set_date, set_time,
       WriteTime, WriteDate, anniversary_load, PageLeft
  <2> QED  BY <2>1 DEF vars
<1>3. ClockInv /\ target_date.tm_year > FirstYear => DaysAgree
  <2> SUFFICES ASSUME ClockInv, target_date.tm_year > FirstYear PROVE DaysAgree
    OBVIOUS
  <2>1. FirstYear \in Nat /\ IsDate(target_date)
    BY ClockAssumption DEF ClockInv, TypeOK
  <2>2. target_date.tm_year \in Nat /\ target_date.tm_year >= 1970
    BY <2>1 DEF IsDate
  <2>3. /\ IsDate(rtc.date) /\ rtc.date.tm_year \in Nat /\ rtc.date.tm_year >= FirstYear
        /\ rtc.day = Serial(rtc.date) - Serial(target_date)
    BY DEF ClockInv, DatesCounted, Good, IsMoment, Counted
  <2>4. rtc.date.tm_year >= 1970  BY <2>1, <2>3
  <2>5. Serial(rtc.date) \in Int /\ Serial(target_date) \in Int
    BY <2>1, <2>3, SerialType
  <2>6. /\ timegm(rtc.date) = Serial(rtc.date) - 719468
        /\ timegm(target_date) = Serial(target_date) - 719468
    BY <2>1, <2>2, <2>3, <2>4, TimegmCounts
  <2> QED  BY <2>3, <2>5, <2>6 DEF DaysAgree
<1> QED  BY <1>1, <1>2, <1>3, ClockInvariance, PTL DEF Spec

-----------------------------------------------------------------------------
(* gmtime_r of the C library.  Its loop over the years is a recursive        *)
(* function: that it is well defined, and what it computes, is shown by      *)
(* giving its value in closed form.                                          *)

(* A set of numbers has a least one. *)
LEMMA LeastNat ==
  ASSUME NEW T, T \subseteq Nat, T # {}
  PROVE  \E n \in T : \A k \in T : n <= k
<1> DEFINE R == OpToRel(<, Nat)
<1>1. IsWellFoundedOn(R, Nat)
  BY NatLessThanWellFounded
<1>2. \A i, j \in Nat : i < j => <<i, j>> \in R
  BY DEF OpToRel
<1> HIDE DEF R
<1>3. PICK n \in T : \A k \in T : ~ (<<k, n>> \in R)
  BY <1>1, WFMin
<1>4. ASSUME NEW k \in T PROVE n <= k
  <2>1. n \in Nat /\ k \in Nat  OBVIOUS
  <2>2. ~(k < n)  BY <1>2, <1>3, <2>1
  <2> QED  BY <2>1, <2>2
<1> QED  BY <1>4

(* Days before the first of January of a year. *)
YearStart(y) ==
  365 * y + (y + 3) \div 4 - (y + 99) \div 100 + (y + 399) \div 400

YearLength(y) == IF isleap(y) THEN 366 ELSE 365

(* The next year starts after this one's days. *)
LEMMA YearStarts ==
  ASSUME NEW y \in Nat
  PROVE  /\ YearStart(y) \in Int /\ YearStart(y + 1) = YearStart(y) + YearLength(y)
         /\ YearLength(y) \in {365, 366}
         /\ y >= 1 => YearStart(y) = DaysOfYears(y - 1) + 366
<1>1. (y + 1 + 3) \div 4 = (y + 3) \div 4 + (IF y % 4 = 0 THEN 1 ELSE 0)
  OBVIOUS
<1>2. (y + 1 + 99) \div 100 = (y + 99) \div 100 + (IF y % 100 = 0 THEN 1 ELSE 0)
  OBVIOUS
<1>3. (y + 1 + 399) \div 400 = (y + 399) \div 400 + (IF y % 400 = 0 THEN 1 ELSE 0)
  OBVIOUS
<1>4. (y % 400 = 0 => y % 100 = 0) /\ (y % 100 = 0 => y % 4 = 0)
  OBVIOUS
<1>5. YearStart(y + 1) = YearStart(y) + YearLength(y)
  BY <1>1, <1>2, <1>3, <1>4 DEF YearStart, YearLength, isleap
<1>6. y >= 1 => YearStart(y) = DaysOfYears(y - 1) + 366
  <2> SUFFICES ASSUME y >= 1 PROVE YearStart(y) = DaysOfYears(y - 1) + 366
    OBVIOUS
  <2>1. /\ (y + 3) \div 4 = (y - 1) \div 4 + 1
        /\ (y + 99) \div 100 = (y - 1) \div 100 + 1
        /\ (y + 399) \div 400 = (y - 1) \div 400 + 1
    OBVIOUS
  <2> QED  BY <2>1 DEF YearStart, DaysOfYears
<1> QED  BY <1>5, <1>6 DEF YearStart, YearLength

LEMMA YearsOrdered ==
  ASSUME NEW y \in Nat, NEW z \in Nat, y < z
  PROVE  YearStart(z) >= YearStart(y) + (z - y) /\ YearStart(z) >= YearStart(y + 1)
<1>1. ASSUME NEW a \in Nat, NEW b \in Nat, a <= b
      PROVE  YearStart(b) >= YearStart(a) + (b - a)
  <2>1. (b + 3) \div 4 >= (a + 3) \div 4 /\ (b + 399) \div 400 >= (a + 399) \div 400
    BY <1>1
  <2>2. (b + 99) \div 100 <= (a + 99) \div 100 + (b - a)
    BY <1>1
  <2> QED  BY <1>1, <2>1, <2>2 DEF YearStart
<1>2. y + 1 \in Nat /\ y + 1 <= z /\ y <= z  OBVIOUS
<1>3. YearStart(y + 1) \in Int /\ YearStart(z) \in Int  BY YearStarts, <1>2
<1> QED  BY <1>1, <1>2, <1>3

(* The year of a day counted from the first of January of another. *)
IsYearOf(z, y, work) ==
  /\ z >= y
  /\ YearStart(z) - YearStart(y) <= work
  /\ work < YearStart(z + 1) - YearStart(y)

(* Every day is in one year and in no other. *)
LEMMA YearExists ==
  ASSUME NEW y \in Nat, NEW work \in Nat
  PROVE  \E z \in Nat : IsYearOf(z, y, work)
<1> DEFINE T == {z \in Nat : z >= y /\ work < YearStart(z + 1) - YearStart(y)}
<1>1. y + work \in T
  <2>1. y + work \in Nat /\ y + work + 1 \in Nat /\ y < y + work + 1
    OBVIOUS
  <2>2. YearStart(y + work + 1) >= YearStart(y) + (y + work + 1 - y)
    BY <2>1, YearsOrdered
  <2>3. YearStart(y + work + 1) \in Int /\ YearStart(y) \in Int
    BY <2>1, YearStarts
  <2> QED  BY <2>1, <2>2, <2>3
<1>2. PICK z \in T : \A k \in T : z <= k
  <2>1. T \subseteq Nat /\ T # {}  BY <1>1
  <2> HIDE DEF T
  <2> QED  BY <2>1, LeastNat
<1>3. z \in Nat /\ z >= y /\ work < YearStart(z + 1) - YearStart(y)
  OBVIOUS
<1>4. YearStart(z) \in Int /\ YearStart(y) \in Int
  BY <1>3, YearStarts
<1>5. YearStart(z) - YearStart(y) <= work
  <2>1. CASE z = y
    BY <1>4, <2>1
  <2>2. CASE z # y
    <3>1. z - 1 \in Nat /\ z - 1 >= y /\ z - 1 + 1 = z /\ ~(z <= z - 1)
      BY <1>3, <2>2
    <3>2. z - 1 \notin T  BY <1>2, <3>1
    <3>3. ~(work < YearStart(z) - YearStart(y))  BY <3>1, <3>2
    <3> QED  BY <1>4, <3>3
  <2> QED  BY <2>1, <2>2
<1> QED  BY <1>3, <1>5 DEF IsYearOf

LEMMA YearUnique ==
  ASSUME NEW y \in Nat, NEW work \in Nat, NEW a \in Nat, NEW b \in Nat,
         IsYearOf(a, y, work), IsYearOf(b, y, work)
  PROVE  a = b
<1>1. \A u, v \in Nat : IsYearOf(u, y, work) /\ IsYearOf(v, y, work) => ~(u < v)
  <2> SUFFICES ASSUME NEW u \in Nat, NEW v \in Nat, u < v,
                      IsYearOf(u, y, work), IsYearOf(v, y, work)
               PROVE  FALSE
    OBVIOUS
  <2>1. YearStart(v) >= YearStart(u + 1)  BY YearsOrdered
  <2>2. YearStart(v) \in Int /\ YearStart(u + 1) \in Int /\ YearStart(y) \in Int
    BY YearStarts
  <2> QED  BY <2>1, <2>2 DEF IsYearOf
<1>2. ~(a < b) /\ ~(b < a)  BY <1>1
<1> QED  BY <1>2

(* The closed form. *)
Stage(y, work) == [year |-> y, rest |-> work]
TheYear(y, work) == CHOOSE z \in Nat : IsYearOf(z, y, work)
Closed(y, work) ==
  Stage(TheYear(y, work), work - (YearStart(TheYear(y, work)) - YearStart(y)))

LEMMA ClosedIs ==
  ASSUME NEW y \in Nat, NEW work \in Nat, NEW z \in Nat, IsYearOf(z, y, work)
  PROVE  Closed(y, work) = Stage(z, work - (YearStart(z) - YearStart(y)))
<1>1. TheYear(y, work) \in Nat /\ IsYearOf(TheYear(y, work), y, work)
  BY DEF TheYear
<1>2. TheYear(y, work) = z  BY <1>1, YearUnique
<1> QED  BY <1>2 DEF Closed

(* A round of the loop leaves the closed form as it is. *)
LEMMA LoopOfClosed ==
  ASSUME NEW y \in Nat, NEW work \in Nat
  PROVE  IF work >= YearLength(y)
           THEN Closed(y, work) = Closed(y + 1, work - YearLength(y))
           ELSE Closed(y, work) = Stage(y, work)
<1>1. /\ y + 1 \in Nat /\ YearLength(y) \in {365, 366}
      /\ YearStart(y) \in Int /\ YearStart(y + 1) = YearStart(y) + YearLength(y)
  BY YearStarts
<1>2. CASE work >= YearLength(y)
  <2>1. work - YearLength(y) \in Nat  BY <1>1, <1>2
  <2>2. PICK z \in Nat : IsYearOf(z, y + 1, work - YearLength(y))
    BY <1>1, <2>1, YearExists
  <2>3. YearStart(z) \in Int /\ YearStart(z + 1) \in Int
    BY YearStarts
  <2>4. IsYearOf(z, y, work)
    BY <1>1, <2>2, <2>3 DEF IsYearOf
  <2>5. /\ Closed(y, work) = Stage(z, work - (YearStart(z) - YearStart(y)))
        /\ Closed(y + 1, work - YearLength(y))
             = Stage(z, work - YearLength(y) - (YearStart(z) - YearStart(y + 1)))
    BY <1>1, <2>1, <2>2, <2>4, ClosedIs
  <2>6. work - YearLength(y) - (YearStart(z) - YearStart(y + 1))
          = work - (YearStart(z) - YearStart(y))
    BY <1>1, <2>3
  <2> QED  BY <1>2, <2>5, <2>6
<1>3. CASE ~(work >= YearLength(y))
  <2>1. IsYearOf(y, y, work)  BY <1>1, <1>3 DEF IsYearOf
  <2>2. Closed(y, work) = Stage(y, work - (YearStart(y) - YearStart(y)))
    BY <2>1, ClosedIs
  <2>3. work - (YearStart(y) - YearStart(y)) = work  BY <1>1
  <2> QED  BY <1>3, <2>2, <2>3
<1> QED  BY <1>2, <1>3

(* One round of the loop, given the rounds after it. *)
Loop(f, yr) ==
  LET k == IF isleap(yr.year) THEN 366 ELSE 365 IN
    IF yr.rest >= k THEN f[[year |-> yr.year + 1, rest |-> yr.rest - k]]
    ELSE yr

LEMMA LoopRound ==
  ASSUME NEW f, NEW y \in Nat, NEW work \in Nat
  PROVE  Loop(f, Stage(y, work))
           = IF work >= YearLength(y) THEN f[Stage(y + 1, work - YearLength(y))]
             ELSE Stage(y, work)
BY DEF Loop, Stage, YearLength

LEMMA StageParts ==
  ASSUME NEW yr \in Stages
  PROVE  yr.year \in Nat /\ yr.rest \in Nat /\ yr = Stage(yr.year, yr.rest)
BY DEF Stages, Stage

LEMMA StageType ==
  ASSUME NEW y \in Nat, NEW work \in Nat
  PROVE  /\ Stage(y, work) \in Stages
         /\ Stage(y, work).year = y /\ Stage(y, work).rest = work
BY DEF Stages, Stage

(* The closed form solves the recursion, so there is a solution and the      *)
(* function of the loop is one.                                              *)
LEMMA LoopDefined ==
  YearAndRest = [yr \in Stages |-> Loop(YearAndRest, yr)]
<1> DEFINE g == [yr \in Stages |-> Closed(yr.year, yr.rest)]
<1>1. \A yr \in Stages : g[yr] = Closed(yr.year, yr.rest)
  OBVIOUS
<1>2. \A yr \in Stages : Loop(g, yr) = Closed(yr.year, yr.rest)
  <2> SUFFICES ASSUME NEW y \in Nat, NEW work \in Nat
               PROVE  Loop(g, Stage(y, work)) = Closed(y, work)
    BY StageParts
  <2> HIDE DEF g
  <2>1. YearLength(y) \in {365, 366}  BY YearStarts
  <2>2. CASE work >= YearLength(y)
    <3>1. y + 1 \in Nat /\ work - YearLength(y) \in Nat  BY <2>1, <2>2
    <3>2. g[Stage(y + 1, work - YearLength(y))] = Closed(y + 1, work - YearLength(y))
      BY <1>1, <3>1, StageType
    <3> QED  BY <2>2, <3>2, LoopRound, LoopOfClosed
  <2>3. CASE ~(work >= YearLength(y))
    BY <2>3, LoopRound, LoopOfClosed
  <2> QED  BY <2>2, <2>3
<1>3. g = [yr \in Stages |-> Loop(g, yr)]
  BY <1>2, Zenon
<1>4. YearAndRest = CHOOSE f : f = [yr \in Stages |-> Loop(f, yr)]
  BY Zenon DEF YearAndRest, Loop
<1> HIDE DEF g
<1> QED  BY <1>3, <1>4, Zenon

(* No solution differs from the closed form: in the least number of days at  *)
(* which one did, one year less would differ already.                        *)
LEMMA YearAndRestIs ==
  ASSUME NEW y \in Nat, NEW work \in Nat
  PROVE  YearAndRest[Stage(y, work)] = Closed(y, work)
<1> DEFINE Differs(w) == \E u \in Nat : YearAndRest[Stage(u, w)] # Closed(u, w)
           T == {w \in Nat : Differs(w)}
<1>1. \A u, w \in Nat : YearAndRest[Stage(u, w)] = Loop(YearAndRest, Stage(u, w))
  BY LoopDefined, StageType
<1>2. T = {}
  <2> SUFFICES ASSUME T # {} PROVE FALSE
    OBVIOUS
  <2>1. T \subseteq Nat  OBVIOUS
  <2>2. PICK w \in T : \A v \in T : w <= v
    <3> HIDE DEF T
    <3> QED  BY <2>1, LeastNat
  <2>3. PICK u \in Nat : YearAndRest[Stage(u, w)] # Closed(u, w)
    OBVIOUS
  <2>4. w \in Nat /\ YearLength(u) \in {365, 366}
    BY YearStarts
  <2>5. CASE w >= YearLength(u)
    <3>1. u + 1 \in Nat /\ w - YearLength(u) \in Nat /\ ~(w <= w - YearLength(u))
      BY <2>4, <2>5
    <3>2. w - YearLength(u) \notin T  BY <2>2, <3>1
    <3>3. YearAndRest[Stage(u + 1, w - YearLength(u))] = Closed(u + 1, w - YearLength(u))
      BY <3>1, <3>2
    <3>4. Loop(YearAndRest, Stage(u, w)) = Closed(u, w)
      BY <2>4, <2>5, <3>3, LoopRound, LoopOfClosed
    <3> QED  BY <1>1, <2>3, <2>4, <3>4
  <2>6. CASE ~(w >= YearLength(u))
    <3>1. Loop(YearAndRest, Stage(u, w)) = Closed(u, w)
      BY <2>4, <2>6, LoopRound, LoopOfClosed
    <3> QED  BY <1>1, <2>3, <2>4, <3>1
  <2> QED  BY <2>5, <2>6
<1> QED  BY <1>2

(* The days of a year before a date of it. *)
DayOfYear(d) ==
  spm[d.tm_mon - 1] + d.tm_mday - 1
  + (IF isleap(d.tm_year) /\ d.tm_mon > 2 THEN 1 ELSE 0)

(* The table of the months: what of it the order of the months rests on.     *)
LEMMA MonthSpans ==
  ASSUME NEW m \in 1..12
  PROVE  /\ spm[m - 1] \in Nat
         /\ m > 2 => spm[m - 1] >= 59
         /\ m = 1 => spm[m - 1] = 0
         /\ m = 2 => spm[m - 1] = 31
         /\ \A j \in m..11 :
              spm[j] >= spm[m - 1] + (IF m = 2 THEN 28 ELSE IF m \in {4, 6, 9, 11} THEN 30 ELSE 31)
         /\ spm[m - 1] + (IF m = 2 THEN 28 ELSE IF m \in {4, 6, 9, 11} THEN 30 ELSE 31) <= 365
<1>1. m \in {1, 2, 3, 4, 5, 6, 7, 8, 9, 10, 11, 12}  OBVIOUS
<1> QED  BY <1>1 DEF spm

(* timegm adds a year's first day and the day in the year, and the day is    *)
(* in that year.                                                             *)
LEMMA TimegmSplits ==
  ASSUME NEW d, IsDate(d), d.tm_year >= 1970
  PROVE  /\ DayOfYear(d) \in Nat /\ timegm(d) \in Nat
         /\ DayOfYear(d) < YearLength(d.tm_year)
         /\ timegm(d) = DayOfYear(d) + (YearStart(d.tm_year) - YearStart(1970))
         /\ IsYearOf(d.tm_year, 1970, timegm(d))
<1> DEFINE y == d.tm_year
           m == d.tm_mon
           x == d.tm_mday
           leap == IF isleap(y) THEN 1 ELSE 0
<1>1. /\ d = Date(y, m, x) /\ y \in Nat \ {0} /\ m \in 1..12 /\ x \in 1..31
      /\ y >= 1970 /\ x \in Nat /\ y \in Nat /\ x <= MonthLength(y, m)
  BY DateParts
<1>2. DayOfYear(d) = spm[m - 1] + x - 1 + (IF m > 2 THEN leap ELSE 0)
  BY <1>1 DEF DayOfYear
<1>3. timegm(d) = (y - 1970) * 365 + (y - 1970 + 1) \div 4 - CenturyDays(y - 1970)
                  + spm[m - 1] + x - 1 + (IF m > 2 THEN leap ELSE 0)
  BY <1>1 DEF timegm
<1> HIDE DEF y, m, x
<1>4. (y - 1970 + 1) \div 4 = (y + 3) \div 4 - 493
  BY <1>1
<1>5. CenturyDays(y - 1970) = (y + 99) \div 100 - (y + 399) \div 400 - 15
  <2>1. /\ (y + 99) \div 100 = (y - 1) \div 100 + 1
        /\ (y + 399) \div 400 = (y - 1) \div 400 + 1
        /\ (y - 1) \div 100 \in Int /\ (y - 1) \div 400 \in Int
    BY <1>1
  <2> QED  BY <1>1, <2>1, CenturyCounts
<1>6. YearStart(1970) = 719528
  BY SMT DEF YearStart
<1>7. YearStart(y) = 365 * y + (y + 3) \div 4 - (y + 99) \div 100 + (y + 399) \div 400
  BY DEF YearStart
<1>8. /\ (y + 3) \div 4 \in Int /\ (y + 99) \div 100 \in Int /\ (y + 399) \div 400 \in Int
      /\ leap \in {0, 1} /\ spm[m - 1] \in Nat
  BY <1>1, MonthSpans
<1>9. MonthLength(y, m) = (IF m = 2 THEN 28 ELSE IF m \in {4, 6, 9, 11} THEN 30 ELSE 31)
                          + (IF m = 2 THEN leap ELSE 0)
  BY <1>1 DEF MonthLength, Leap, isleap
<1>10. YearLength(y) = 365 + leap
  BY DEF YearLength
<1> HIDE DEF leap
<1>11. timegm(d) = DayOfYear(d) + (YearStart(y) - YearStart(1970))
  <2> DEFINE a == (y + 3) \div 4
             b == (y + 99) \div 100
             c == (y + 399) \div 400
             n == IF m > 2 THEN leap ELSE 0
             s == spm[m - 1]
  <2>1. a \in Int /\ b \in Int /\ c \in Int /\ n \in Int /\ s \in Nat
    BY <1>8
  <2>2. timegm(d) = (y - 1970) * 365 + (a - 493) - (b - c - 15) + s + x - 1 + n
    BY <1>3, <1>4, <1>5
  <2>3. YearStart(y) = 365 * y + a - b + c
    BY <1>7
  <2>4. DayOfYear(d) = s + x - 1 + n
    BY <1>2
  <2> HIDE DEF a, b, c, n, s
  <2> QED  BY <1>1, <1>6, <2>1, <2>2, <2>3, <2>4, SMT
<1>12. DayOfYear(d) \in Nat /\ DayOfYear(d) < YearLength(y)
  <2>1. spm[m - 1] + (IF m = 2 THEN 28 ELSE IF m \in {4, 6, 9, 11} THEN 30 ELSE 31) <= 365
    BY <1>1, MonthSpans
  <2>2. CASE m = 2  BY <1>1, <1>2, <1>8, <1>9, <1>10, <2>1, <2>2
  <2>3. CASE m # 2  BY <1>1, <1>2, <1>8, <1>9, <1>10, <2>1, <2>3
  <2> QED  BY <2>2, <2>3
<1>13. /\ YearStart(y) \in Int /\ YearStart(1970) \in Int
       /\ YearStart(y + 1) = YearStart(y) + YearLength(y)
  BY <1>1, YearStarts
<1>14. YearStart(y) >= YearStart(1970)
  <2>1. CASE y = 1970  BY <1>13, <2>1
  <2>2. CASE y # 1970
    <3>1. 1970 \in Nat /\ 1970 < y  BY <1>1, <2>2
    <3>2. YearStart(y) >= YearStart(1970) + (y - 1970)  BY <1>1, <3>1, YearsOrdered
    <3> QED  BY <1>1, <1>13, <3>2
  <2> QED  BY <2>1, <2>2
<1>15. YearLength(y) \in Int  BY <1>8, <1>10
<1>16. timegm(d) \in Nat /\ IsYearOf(y, 1970, timegm(d))
  BY <1>1, <1>11, <1>12, <1>13, <1>14, <1>15 DEF IsYearOf
<1> QED  BY <1>11, <1>12, <1>16 DEF y

(* The months are told apart by the days before them. *)
LEMMA MonthUnique ==
  ASSUME NEW work \in Nat, NEW i \in 0..11, IsMonthOf(i, work)
  PROVE  MonthOf(work) = i
<1>1. \A a, b \in 0..11 : IsMonthOf(a, work) /\ IsMonthOf(b, work) => ~(a < b)
  <2> SUFFICES ASSUME NEW a \in 0..11, NEW b \in 0..11, a < b,
                      IsMonthOf(a, work), IsMonthOf(b, work)
               PROVE  FALSE
    OBVIOUS
  <2>1. b \in a + 1..11 /\ b # 0  OBVIOUS
  <2>2. spm[b] > work /\ spm[b] <= work  BY <2>1 DEF IsMonthOf
  <2>3. spm[b] \in Nat
    <3>1. b \in 0..11 /\ b + 1 \in 1..12 /\ b + 1 - 1 = b  OBVIOUS
    <3> QED  BY <3>1, MonthSpans
  <2> QED  BY <2>2, <2>3
<1>2. PICK k \in 0..11 : IsMonthOf(k, work) /\ MonthOf(work) = k
  BY DEF MonthOf
<1>3. ~(k < i) /\ ~(i < k)  BY <1>1, <1>2
<1> QED  BY <1>2, <1>3

(* The rest of gmtime_r, once the year is known. *)
Work(y, rest) == IF isleap(y) /\ rest > 58 THEN rest - 1 ELSE rest
First(y, rest) == IF (isleap(y) /\ rest > 58) /\ rest = 59 THEN 2 ELSE 1

(* With the month that fits there is no choice left. *)
LEMMA gmtime_rIs ==
  ASSUME NEW days \in Nat, NEW y \in Nat, NEW rest \in Nat,
         YearAndRest[Stage(1970, days)] = Stage(y, rest),
         NEW i \in 0..11, IsMonthOf(i, Work(y, rest))
  PROVE  gmtime_r(days) = Date(y, i + 1, First(y, rest) + Work(y, rest) - spm[i])
<1>1. Work(y, rest) \in Nat
  BY DEF Work
<1>2. MonthOf(Work(y, rest)) = i
  BY <1>1, MonthUnique
<1>3. YearAndRest[[year |-> 1970, rest |-> days]] = Stage(y, rest)
  BY DEF Stage
<1>4. gmtime_r(days) = DateIn(Stage(y, rest))
  BY <1>3 DEF gmtime_r
<1>5. DateIn(Stage(y, rest)) = Date(y, i + 1, First(y, rest) + Work(y, rest) - spm[i])
  BY <1>2, SMT DEF DateIn, Work, First, Stage
<1> QED  BY <1>4, <1>5

(* gmtime_r undoes timegm: the 29th of February too. *)
LEMMA RoundTrip ==
  ASSUME NEW d, IsDate(d), d.tm_year >= 1970
  PROVE  gmtime_r(timegm(d)) = d
<1> DEFINE y == d.tm_year
           m == d.tm_mon
           x == d.tm_mday
           rest == DayOfYear(d)
<1>1. /\ d = Date(y, m, x) /\ y \in Nat \ {0} /\ m \in 1..12 /\ x \in 1..31
      /\ y \in Nat /\ x \in Nat /\ x <= MonthLength(y, m)
      /\ rest = spm[m - 1] + x - 1 + (IF isleap(y) /\ m > 2 THEN 1 ELSE 0)
      /\ MonthLength(y, m) = IF m = 2 THEN (IF isleap(y) THEN 29 ELSE 28)
                             ELSE IF m \in {4, 6, 9, 11} THEN 30 ELSE 31
  BY DateParts DEF DayOfYear, MonthLength, Leap, isleap
<1>2. /\ rest \in Nat /\ timegm(d) \in Nat
      /\ timegm(d) = rest + (YearStart(y) - YearStart(1970))
      /\ IsYearOf(y, 1970, timegm(d))
  BY TimegmSplits
<1> HIDE DEF y, m, x, rest
<1>3. YearAndRest[Stage(1970, timegm(d))] = Stage(y, rest)
  <2>1. 1970 \in Nat /\ YearStart(y) \in Int /\ YearStart(1970) \in Int
    BY <1>1, YearStarts
  <2>2. YearAndRest[Stage(1970, timegm(d))]
          = Stage(y, timegm(d) - (YearStart(y) - YearStart(1970)))
    BY <1>1, <1>2, <2>1, YearAndRestIs, ClosedIs
  <2>3. timegm(d) - (YearStart(y) - YearStart(1970)) = rest
    BY <1>2, <2>1
  <2> QED  BY <2>2, <2>3
<1> DEFINE i == m - 1
<1>4. i \in 0..11 /\ i + 1 = m  BY <1>1
<1>5. /\ spm[i] \in Nat /\ (m > 2 => spm[i] >= 59) /\ (m = 1 => spm[i] = 0)
      /\ (m = 2 => spm[i] = 31)
      /\ \A j \in i + 1..11 :
           spm[j] \in Nat
           /\ spm[j] >= spm[i] + (IF m = 2 THEN 28 ELSE IF m \in {4, 6, 9, 11} THEN 30 ELSE 31)
  <2>1. \A j \in i + 1..11 : j \in m..11 /\ j + 1 \in 1..12 /\ j + 1 - 1 = j
    BY <1>1
  <2> QED  BY <1>1, <2>1, MonthSpans
<1> HIDE DEF i
<1>6. /\ Work(y, rest) \in Nat /\ spm[i] <= Work(y, rest)
      /\ Work(y, rest) < spm[i] + (IF m = 2 THEN 28 ELSE IF m \in {4, 6, 9, 11} THEN 30 ELSE 31)
      /\ First(y, rest) + Work(y, rest) - spm[i] = x
  <2>0. rest = spm[i] + x - 1 + (IF isleap(y) /\ m > 2 THEN 1 ELSE 0)
    BY <1>1 DEF i
  <2>1. CASE m = 1
    BY <1>1, <1>2, <1>5, <2>0, <2>1 DEF Work, First
  <2>2. CASE m = 2
    BY <1>1, <1>2, <1>5, <2>0, <2>2 DEF Work, First
  <2>3. CASE m > 2
    BY <1>1, <1>2, <1>5, <2>0, <2>3 DEF Work, First
  <2> QED  BY <1>1, <2>1, <2>2, <2>3
<1>7. IsMonthOf(i, Work(y, rest))
  BY <1>5, <1>6 DEF IsMonthOf
<1>8. gmtime_r(timegm(d)) = Date(y, i + 1, First(y, rest) + Work(y, rest) - spm[i])
  BY <1>1, <1>2, <1>3, <1>4, <1>7, gmtime_rIs
<1> QED  BY <1>1, <1>4, <1>6, <1>8

(* The time stamp timegm makes of the chip's date is the one gmtime_r turns  *)
(* back into that date, and counts the days as the calendar does, from 1970  *)
(* on, however far the chip runs: set_date, set_time and every reading of    *)
(* the clock go through the two.                                             *)
THEOREM ConversionsAgreeAlways ==
  ASSUME FirstYear >= 1970
  PROVE  Spec => []ConversionsAgree
<1>1. ClockInv /\ DaysAgree => ConversionsAgree
  <2> SUFFICES ASSUME ClockInv, DaysAgree PROVE ConversionsAgree
    OBVIOUS
  <2>1. FirstYear \in Nat
    BY ClockAssumption
  <2>2. IsDate(rtc.date) /\ rtc.date.tm_year \in Nat /\ rtc.date.tm_year >= FirstYear
    BY DEF ClockInv, DatesCounted, Good, IsMoment
  <2>3. rtc.date.tm_year >= 1970  BY <2>1, <2>2
  <2> QED  BY <2>2, <2>3, RoundTrip DEF ConversionsAgree
<1> QED  BY <1>1, ClockInvariance, DaysAgreeAlways, PTL
=============================================================================
