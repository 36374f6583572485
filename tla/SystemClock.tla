---------------------------- MODULE SystemClock ----------------------------
(***************************************************************************)
(* The clock and the page that shows it: sim76xx_ntp_sync sets the clock   *)
(* chip from the modem's time by set_date and then set_time (rtc.c), each  *)
(* of which reads the chip, replaces one half of what it read and writes   *)
(* both halves back, time first (drv_rtc.c).  The chip counts on and the   *)
(* other threads read it between any two of these steps.  The anniversary  *)
(* page (anniversary.c) is loaded by the liz thread, which outranks the    *)
(* work queue: it may read a half-set clock.                               *)
(*                                                                         *)
(* The day has three parts of eight hours, because local time is UTC + 8.  *)
(* A part stands for any moment in it; parts pass one by one in the world  *)
(* and in the chip, at the same rate.                                      *)
(***************************************************************************)
EXTENDS Calendar

CONSTANTS
  Targets,      \* what set_target_date may set: 2022-01-01 in the product
  FirstYear,    \* of the clock chip's calendar
  NoLabel,      \* the page is not there
  MaxDays       \* bound: days from the target date, of the world and the chip

ASSUME ClockAssumption ==
  /\ \A d \in Targets : IsDate(d)
  /\ FirstYear \in Nat /\ 1 < FirstYear /\ FirstYear < 2019
  /\ NoLabel \notin Int
  /\ MaxDays \in Nat

Parts == 0..2

(* A moment of a clock; day is a history variable: the number of its date,   *)
(* counted in days from the target date.                                     *)
Moment(d, p, n) == [date |-> d, part |-> p, day |-> n]
IsMoment(m) ==
  /\ m \in [date : [tm_year : Nat \ {0}, tm_mon : 1..12, tm_mday : 1..31],
            part : Parts, day : Int]
  /\ IsDate(m.date)

Later(m) ==
  IF m.part < 2 THEN Moment(m.date, m.part + 1, m.day)
  ELSE Moment(Tomorrow(m.date), 0, m.day + 1)

Earlier(m) ==
  IF m.part > 0 THEN Moment(m.date, m.part - 1, m.day)
  ELSE Moment(Yesterday(m.date), 2, m.day - 1)

(* UTC to local time, and back. *)
localtime(m) == Later(m)

mktime(m) == Earlier(m)

VARIABLES
  target_date,
  world,      \* the time
  rtc,        \* the chip
  ahead,      \* parts that have passed in the world and not yet in the chip
  pc,         \* where sim76xx_ntp_sync is
  ans,        \* the modem's answer, local time
  new,        \* what set_date or set_time writes
  passed,     \* parts that passed in the world since the answer,
  turned,     \* ... and in the chip since set_date read it (history)
  midnight,   \* the chip changed its date during this synchronisation (history)
  synced,     \* the chip was set since it last stood wrong (history)
  label,      \* the number on the page
  loadedOn    \* the number of the date the page was loaded at (history)

syncVars == <<pc, ans, new>>
pageVars == <<label, loadedOn>>
pastVars == <<passed, turned, midnight, synced>>
vars == <<target_date, world, rtc, ahead, syncVars, pastVars, pageVars>>

TypeOK ==
  /\ target_date \in Targets
  /\ IsMoment(world) /\ IsMoment(rtc) /\ IsMoment(ans) /\ IsMoment(new)
  /\ rtc.date.tm_year >= FirstYear
  /\ ahead \in -1..2
  /\ pc \in {"idle", "set_date", "date_time", "date_date",
             "set_time", "time_time", "time_date"}
  /\ passed \in 0..1 /\ turned \in 0..1
  /\ midnight \in BOOLEAN /\ synced \in BOOLEAN
  /\ label \in Int \cup {NoLabel} /\ loadedOn \in Int

(* Both clocks start at the target date and are moved from there.            *)
Init ==
  /\ target_date \in {t \in Targets : t.tm_year > FirstYear}
  /\ world = Moment(target_date, 0, 0) /\ rtc = world
  /\ ahead = 0
  /\ pc = "idle" /\ ans = world /\ new = world
  /\ passed = 0 /\ turned = 0 /\ midnight = FALSE /\ synced = FALSE
  /\ label = NoLabel /\ loadedOn = 0

InRange(m) == m.day \in -MaxDays..MaxDays

-----------------------------------------------------------------------------
(* Time passes.                                                              *)
Syncing == pc # "idle"

(* The date, UTC or local, is another after this part. *)
Midnight(m) == m.part # 0

(* A synchronisation takes seconds: at most one part begins in the world,    *)
(* and one in the chip, while it is under way.                               *)
WorldTick ==
  /\ ahead < 1 /\ InRange(Later(world))
  /\ Syncing => passed = 0
  /\ world' = Later(world)
  /\ ahead' = ahead + 1
  /\ passed' = IF Syncing THEN 1 ELSE passed
  /\ UNCHANGED <<target_date, rtc, syncVars, turned, midnight, synced, pageVars>>

(* A chip that has been set counts just after the world, never before it.    *)
ChipTick ==
  /\ ahead > IF synced THEN 0 ELSE -1
  /\ InRange(Later(rtc))
  /\ Syncing => turned = 0
  /\ rtc' = Later(rtc)
  /\ ahead' = ahead - 1
  /\ IF Syncing THEN turned' = 1 /\ midnight' = (midnight \/ Midnight(rtc))
                ELSE UNCHANGED <<turned, midnight>>
  /\ UNCHANGED <<target_date, world, syncVars, passed, synced, pageVars>>

(* The chip has stood still or lost its supply; it knows no earlier year.    *)
ChipWrong ==
  /\ ~Syncing
  /\ \/ rtc' = Later(rtc)
     \/ rtc' = Earlier(rtc) /\ rtc'.date.tm_year >= FirstYear
  /\ InRange(rtc')
  /\ synced' = FALSE
  /\ UNCHANGED <<target_date, world, ahead, syncVars, passed, turned, midnight,
                 pageVars>>

-----------------------------------------------------------------------------
(* sim76xx_ntp_sync, from the answer to AT+CCLK? on.                         *)

(* A year before 2020 is not believed, and asked for again. *)
Answered ==
  /\ pc = "idle"
  /\ localtime(world).date.tm_year >= 2020
  /\ ans' = localtime(world)
  /\ pc' = "set_date"
  /\ midnight' = FALSE
  /\ UNCHANGED <<target_date, world, rtc, ahead, new, passed, turned, synced,
                 pageVars>>

(* Mutant: the century is not added to the modem's two digits. *)
set_date_TwoDigits ==
  /\ pc = "set_date"
  /\ new' = mktime(Moment(Date(ans.date.tm_year - 2000, ans.date.tm_mon,
                              ans.date.tm_mday),
                         localtime(rtc).part, ans.day))
  /\ turned' = 0
  /\ pc' = "date_time"
  /\ UNCHANGED <<target_date, world, rtc, ahead, ans, passed, midnight, synced,
                 pageVars>>

(* Mutant: the date read is written back. *)
set_date_KeepsDate ==
  /\ pc = "set_date"
  /\ new' = mktime(localtime(rtc))
  /\ turned' = 0
  /\ pc' = "date_time"
  /\ UNCHANGED <<target_date, world, rtc, ahead, ans, passed, midnight, synced,
                 pageVars>>

(* set_date up to its write: the answer's date, the chip's time of day.      *)
set_date ==
  /\ pc = "set_date"
  /\ new' = mktime(Moment(ans.date, localtime(rtc).part, ans.day))
  /\ turned' = 0
  /\ pc' = "date_time"
  /\ UNCHANGED <<target_date, world, rtc, ahead, ans, passed, midnight, synced,
                 pageVars>>

(* Mutant: the chip's date is taken for the local date. *)
set_time_UtcDate ==
  /\ pc = "set_time"
  /\ new' = mktime(Moment(rtc.date, ans.part, rtc.day))
  /\ turned' = 0
  /\ pc' = "time_time"
  /\ UNCHANGED <<target_date, world, rtc, ahead, ans, passed, midnight, synced,
                 pageVars>>

(* set_time up to its write: the answer's time of day, the chip's date.      *)
set_time ==
  /\ pc = "set_time"
  /\ LET now == localtime(rtc)
     IN  new' = mktime(Moment(now.date, ans.part, now.day))
  /\ turned' = 0
  /\ pc' = "time_time"
  /\ UNCHANGED <<target_date, world, rtc, ahead, ans, passed, midnight, synced,
                 pageVars>>

(* set_rtc_time_stamp, first HAL_RTC_SetTime, then HAL_RTC_SetDate.  What    *)
(* the chip has counted since it was read is undone, and will be counted     *)
(* again; from set_time on it runs with the answer.  (A year before the      *)
(* chip's is refused, but none comes this far: TypeOK.)                      *)
WriteTime ==
  /\ \/ /\ pc = "date_time" /\ pc' = "date_date"
        /\ ahead' = ahead + turned
     \/ /\ pc = "time_time" /\ pc' = "time_date"
        /\ ahead' = passed
  /\ rtc' = Moment(rtc.date, new.part, rtc.day)
  /\ turned' = 0
  /\ UNCHANGED <<target_date, world, ans, new, passed, midnight, synced, pageVars>>

(* What the locals and the counters of a synchronisation are outside of one. *)
LocalsGone ==
  /\ ans' = Moment(target_date, 0, 0) /\ new' = Moment(target_date, 0, 0)
  /\ passed' = 0 /\ turned' = 0

WriteDate ==
  /\ \/ /\ pc = "date_date" /\ pc' = "set_time"
        /\ UNCHANGED <<ans, new, passed, turned, synced>>
     \/ /\ pc = "time_date" /\ pc' = "idle"
        /\ LocalsGone /\ synced' = TRUE
  /\ rtc' = Moment(new.date, rtc.part, new.day)
  /\ UNCHANGED <<target_date, world, ahead, midnight, pageVars>>

ntp_sync ==
  \/ Answered
  \/ set_date
  \/ set_time
  \/ WriteTime
  \/ WriteDate

-----------------------------------------------------------------------------
(* The page.                                                                 *)
Shown == label # NoLabel

(* get_date_diff, and the label of anniversary_gui_load.                     *)
anniversary_load ==
  /\ ~Shown
  /\ LET now == localtime(rtc) IN
       /\ label' = dateDiff(now.date, target_date)
       /\ loadedOn' = now.day
  /\ UNCHANGED <<target_date, world, rtc, ahead, syncVars, pastVars>>

(* exit_callback is empty; the next page's load deletes the screen.          *)
PageLeft ==
  /\ Shown
  /\ label' = NoLabel /\ loadedOn' = 0
  /\ UNCHANGED <<target_date, world, rtc, ahead, syncVars, pastVars>>

Next ==
  \/ WorldTick
  \/ ChipTick
  \/ ChipWrong
  \/ ntp_sync
  \/ anniversary_load
  \/ PageLeft

Spec == Init /\ [][Next]_vars

-----------------------------------------------------------------------------
(* Properties.                                                               *)

(* The page shows how far the clock's date is from the target date: dateDiff *)
(* agrees with counting the days, across month ends, leap days and years,    *)
(* before the target date and after it.                                      *)
CountsDays == Shown => label = -loadedOn

DaysAgree == timegm(rtc.date) - timegm(target_date) = rtc.day

(* gmtime_r and timegm are inverse to each other, and count the days as the  *)
(* calendar does; localtime and mktime above rest on that.                   *)
ConversionsAgree ==
  /\ gmtime_r(timegm(rtc.date)) = rtc.date
  /\ DaysAgree

(* The time the chip shows, put right by what it still has to count. *)
InStep ==
  CASE ahead = 0 -> rtc = world
    [] ahead = 1 -> Later(rtc) = world
    [] ahead = 2 -> Later(Later(rtc)) = world
    [] ahead = -1 -> rtc = Later(world)

(* A synchronisation during which the chip's date, UTC or local, did not     *)
(* change leaves the clock right: the two halves written one after the other *)
(* belong together, whatever the chip showed before and whatever the world's *)
(* date does meanwhile.                                                      *)
SyncSets == synced /\ ~midnight /\ ~Syncing => InStep

(* However midnights fall into a synchronisation, the date the chip showed   *)
(* before it leaves no trace: what is set is two days behind at most, or one *)
(* ahead.                                                                    *)
BoundedError ==
  synced /\ ~Syncing /\ ahead = 0 => rtc.day - world.day \in -2..1

(* sim76xx_ntp_sync reports "sim ntp sync success!": the clock is right.     *)
SuccessMeansRight == synced /\ ~Syncing => InStep

(* The comments at set-up and on the label: the page tells the days spent    *)
(* together once the target date has passed.                                 *)
DaysTogether == Shown /\ loadedOn > 0 => label = loadedOn
=============================================================================
