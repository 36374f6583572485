----------------------------- MODULE MCCalendar -----------------------------
(* The three computations with dates against a day by day walk through six  *)
(* centuries.                                                               *)
EXTENDS Calendar

CONSTANT LastYear   \* bound of the walk

VARIABLES date, day

Init == date = Date(1970, 1, 1) /\ day = 0
Next ==
  /\ date.tm_year < LastYear
  /\ date' = Tomorrow(date) /\ day' = day + 1
Spec == Init /\ [][Next]_<<date, day>>

(* timegm counts the days, gmtime_r is its inverse, and dateDiff counts the  *)
(* same days.                                                                *)
CountsAgree ==
  /\ IsDate(date)
  /\ timegm(date) = day /\ gmtime_r(day) = date
  /\ dateDiff(Date(1970, 1, 1), date) = day
  /\ day > 0 => Tomorrow(Yesterday(date)) = date
=============================================================================
