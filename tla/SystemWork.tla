----------------------------- MODULE SystemWork -----------------------------
(***************************************************************************)
(* The jobs of the system work queue (rt-thread workqueue.c): the weather  *)
(* download (app/weather/weather.c) and the clock synchronisation          *)
(* (sys/sys_ntp.c, sim76xx_ntp_sync), with the threads that ask for them   *)
(* and read what they leave: the weather thread, the boot wait and page    *)
(* changes of the liz thread, and the timer of the weather page, run by    *)
(* the lvgl thread.                                                        *)
(*                                                                         *)
(* info_update_bitmap is read, changed and written back without a lock.    *)
(* The threads have fixed priorities, liz 9, lvgl 11, weather 19, work     *)
(* queue 23, and no thread runs while one of a higher priority can: what   *)
(* lvgl and liz do in one go is one action, and the work queue runs only   *)
(* while the weather thread sleeps.                                        *)
(***************************************************************************)
EXTENDS Naturals, Sequences

CONSTANTS
    TIME_UPDATE_INVT, WEA_UPDATE_INVT,   \* rounds of the weather thread
    NtpTries,     \* NTP_RETRY and CCLK_RETRY, one bound here
    MaxRounds,    \* bound on the periodic downloads after the first
    MaxFails,     \* bound on the downloads and synchronisations that fail
    MaxLoads,     \* bound on the returns to the weather page
    MaxFlips      \* bound on the changes of the link

ASSUME IntervalAssumption ==
    /\ TIME_UPDATE_INVT \in Nat \ {0} /\ WEA_UPDATE_INVT \in Nat \ {0}
    /\ NtpTries \in Nat \ {0}
    /\ MaxRounds \in Nat /\ MaxFails \in Nat /\ MaxLoads \in Nat /\ MaxFlips \in Nat

Works == {"weather", "ntp"}
\* The places of the two work functions.
DownloadPlaces == {"get", "write", "read_bits", "write_bits"}
SyncPlaces == {"check_network", "CNTP", "CCLK"}
Masks == {"TIME", "WEA"}
\* weaInfo is written field by field; two fields stand for all of them.
Fields == {"tem", "humidity"}

VARIABLES
    work_list, delayed, work_current,   \* struct rt_workqueue
    link,            \* check_network()
    network_link_status,   \* fixed once the program has booted
    info_update_bitmap,
    thread,          \* the weather thread: [at, bits, time, wea], bits being
                     \* the bitmap it has read, time and wea its counters
    job,             \* the work function that runs: [at, bits, tries]
    page,            \* the weather page
    agrees,          \* the fields of weaInfo the page shows as they are
    clock_agrees,    \* the page shows timeInfo as it is
    owed,            \* a download was asked for and none succeeded since
    sync,            \* the last sim76xx_ntp_sync: [said, answered]
    rounds, fails, loads, flips

queue_vars == <<work_list, delayed, work_current>>
page_vars  == <<page, agrees, clock_agrees>>
bounds     == <<rounds, fails, loads, flips>>
vars == <<queue_vars, link, network_link_status, info_update_bitmap, thread,
          job, page_vars, owed, sync, bounds>>

\* The state after app_controller->init: weather_init has created its thread,
\* and ntp_auto_sync_init was called if the network came up.
Init ==
    /\ network_link_status \in {0, 1}
    /\ link \in IF network_link_status = 1 THEN {TRUE} ELSE BOOLEAN
    /\ work_list = <<>> /\ work_current = "none"
    /\ delayed = IF network_link_status = 1 THEN {"ntp"} ELSE {}
    /\ info_update_bitmap = {}
    /\ thread = [at |-> "round", bits |-> {}, time |-> 0, wea |-> 0]
    /\ job = [at |-> "idle", bits |-> {}, tries |-> 0]
    /\ page = "boot" /\ agrees = {} /\ clock_agrees = FALSE
    /\ owed = FALSE
    /\ sync = [said |-> "nothing", answered |-> FALSE]
    /\ rounds = 0 /\ fails = 0 /\ loads = 0 /\ flips = 0

-----------------------------------------------------------------------------
(* The work queue.                                                         *)

\* rt_list_remove: the list without w, which it holds once at most.
Listed(w, list) == \E n \in DOMAIN list : list[n] = w
Without(w, list) ==
    LET k == CHOOSE n \in DOMAIN list : list[n] = w
    IN  IF Listed(w, list)
        THEN [n \in 1..(Len(list) - 1) |-> IF n < k THEN list[n] ELSE list[n + 1]]
        ELSE list

\* rt_work_submit with a delay: the work leaves the list it is in.
Submit(w) ==
    /\ work_list' = Without(w, work_list)
    /\ delayed' = delayed \cup {w}

SubmitWeather == Submit("weather") /\ owed' = TRUE

\* _delayed_work_timeout_handler: the work is dropped if it is running.
DelayExpires ==
    /\ \E w \in delayed :
          /\ delayed' = delayed \ {w}
          /\ work_list' = IF work_current = w THEN work_list ELSE Append(work_list, w)
    /\ UNCHANGED <<work_current, link, network_link_status, info_update_bitmap,
                   thread, job, page_vars, owed, sync, bounds>>

\* The thread of the work queue has the processor.
QueueRuns == thread.at = "sleep"

\* _workqueue_thread_entry takes the first work.
TakeWork ==
    /\ QueueRuns /\ work_current = "none" /\ work_list # <<>>
    /\ work_current' = Head(work_list) /\ work_list' = Tail(work_list)
    /\ job' = [at |-> IF Head(work_list) = "weather" THEN "get" ELSE "check_network",
               bits |-> {}, tries |-> 0]
    /\ UNCHANGED <<delayed, link, network_link_status, info_update_bitmap, thread,
                   page_vars, owed, sync, bounds>>

At(place) == QueueRuns /\ job.at = place
JobGoesTo(place) == job' = [job EXCEPT !.at = place]
JobEnds == work_current' = "none" /\ JobGoesTo("idle")

-----------------------------------------------------------------------------
(* weather_sync_work_func.                                                 *)

\* Mutant: a failed download is not asked for again.
DownloadFails_GivesUp ==
    /\ At("get") /\ fails < MaxFails
    /\ fails' = fails + 1
    /\ JobEnds
    /\ UNCHANGED <<work_list, delayed, link, network_link_status, info_update_bitmap,
                   thread, page_vars, owed, sync, rounds, loads, flips>>

\* weather_update fails; the download is asked for again.
DownloadFails ==
    /\ At("get") /\ fails < MaxFails
    /\ fails' = fails + 1
    /\ Submit("weather") /\ JobEnds
    /\ UNCHANGED <<link, network_link_status, info_update_bitmap, thread, page_vars,
                   owed, sync, rounds, loads, flips>>

\* weather_json_parser writes the fields of weaInfo one after the other.
Downloaded ==
    /\ At("get") /\ link
    /\ JobGoesTo("write")
    /\ agrees' = agrees \ {"tem"}
    /\ UNCHANGED <<queue_vars, link, network_link_status, info_update_bitmap, thread,
                   page, clock_agrees, owed, sync, bounds>>

WriteRest ==
    /\ At("write")
    /\ JobGoesTo("read_bits")
    /\ agrees' = agrees \ {"humidity"}
    /\ UNCHANGED <<queue_vars, link, network_link_status, info_update_bitmap, thread,
                   page, clock_agrees, owed, sync, bounds>>

\* info_update_bitmap |= UPDATE_MASK_WEA, a read and a write.
ReadBits ==
    /\ At("read_bits")
    /\ job' = [job EXCEPT !.at = "write_bits", !.bits = info_update_bitmap]
    /\ UNCHANGED <<queue_vars, link, network_link_status, info_update_bitmap, thread,
                   page_vars, owed, sync, bounds>>

WriteBits ==
    /\ At("write_bits")
    /\ info_update_bitmap' = job.bits \cup {"WEA"}
    /\ owed' = FALSE
    /\ JobEnds
    /\ UNCHANGED <<work_list, delayed, link, network_link_status, thread, page_vars,
                   sync, bounds>>

-----------------------------------------------------------------------------
(* ntp_sync_work_func and sim76xx_ntp_sync.  The submission and the queue's  *)
(* taking note that the job is over are one step: what is submitted waits    *)
(* for seconds before it matters that the job was still the current one.     *)

Resync(said) ==
    /\ Submit("ntp") /\ JobEnds
    /\ sync' = [sync EXCEPT !.said = said]

\* Mutant: without a network the synchronisation is not asked for again.
CheckNetwork_GivesUp ==
    /\ At("check_network")
    /\ IF link
       THEN /\ JobGoesTo("CNTP") /\ UNCHANGED work_current
            /\ sync' = [said |-> "nothing", answered |-> FALSE]
       ELSE JobEnds /\ UNCHANGED sync
    /\ UNCHANGED <<work_list, delayed, link, network_link_status, info_update_bitmap,
                   thread, page_vars, owed, bounds>>

CheckNetwork ==
    /\ At("check_network")
    /\ IF link
       THEN /\ JobGoesTo("CNTP") /\ UNCHANGED queue_vars
            /\ sync' = [said |-> "nothing", answered |-> FALSE]
       ELSE Resync("nothing")
    /\ UNCHANGED <<link, network_link_status, info_update_bitmap, thread, page_vars,
                   owed, bounds>>

\* AT+CNTP until its result is 0; ret stays 0 when it never is.
AskNtp ==
    /\ At("CNTP")
    /\ \/ /\ link /\ sync' = [sync EXCEPT !.answered = TRUE]
          /\ job' = [job EXCEPT !.at = "CCLK", !.tries = 0]
          /\ UNCHANGED fails
       \/ /\ fails < MaxFails /\ fails' = fails + 1
          /\ job' = IF job.tries + 1 = NtpTries
                    THEN [job EXCEPT !.at = "CCLK", !.tries = 0]
                    ELSE [job EXCEPT !.tries = @ + 1]
          /\ UNCHANGED sync
    /\ UNCHANGED <<queue_vars, link, network_link_status, info_update_bitmap, thread,
                   page_vars, owed, rounds, loads, flips>>

\* AT+CCLK? until the year it gives is plausible.
AskClock ==
    /\ At("CCLK")
    /\ \/ Resync("success") /\ UNCHANGED fails
       \/ /\ fails < MaxFails /\ fails' = fails + 1
          /\ IF job.tries + 1 = NtpTries
             THEN Resync("fail")
             ELSE job' = [job EXCEPT !.tries = @ + 1] /\ UNCHANGED <<queue_vars, sync>>
    /\ UNCHANGED <<link, network_link_status, info_update_bitmap, thread, page_vars,
                   owed, rounds, loads, flips>>

WorkQueue ==
    \/ TakeWork \/ DownloadFails \/ Downloaded \/ WriteRest \/ ReadBits \/ WriteBits
    \/ CheckNetwork \/ AskNtp \/ AskClock

-----------------------------------------------------------------------------
(* info_update_thread.                                                     *)

\* time_update, and the read of info_update_bitmap |= UPDATE_MASK_TIME.
UpdateTime ==
    /\ thread.at = "round"
    /\ IF thread.time = 0
       THEN /\ thread' = [thread EXCEPT !.at = "write_bits", !.bits = info_update_bitmap]
            /\ clock_agrees' = FALSE
       ELSE /\ thread' = [thread EXCEPT !.at = "weather"]
            /\ UNCHANGED clock_agrees
    /\ UNCHANGED <<queue_vars, link, network_link_status, info_update_bitmap, job,
                   page, agrees, owed, sync, bounds>>

\* Mutant: the bitmap is set to the mask.
WriteTimeBit_Sets ==
    /\ thread.at = "write_bits"
    /\ info_update_bitmap' = {"TIME"}
    /\ thread' = [thread EXCEPT !.at = "weather", !.bits = {}]
    /\ UNCHANGED <<queue_vars, link, network_link_status, job, page_vars, owed, sync, bounds>>

WriteTimeBit ==
    /\ thread.at = "write_bits"
    /\ info_update_bitmap' = thread.bits \cup {"TIME"}
    /\ thread' = [thread EXCEPT !.at = "weather", !.bits = {}]
    /\ UNCHANGED <<queue_vars, link, network_link_status, job, page_vars, owed, sync, bounds>>

RoundEnds(wea) ==
    thread' = [thread EXCEPT !.at = "sleep", !.wea = wea,
                             !.time = (@ + 1) % TIME_UPDATE_INVT]

\* The download is due; without a network its counter stands still.
UpdateWeather ==
    /\ thread.at = "weather" /\ thread.wea = 0
    /\ IF link
       THEN RoundEnds(1 % WEA_UPDATE_INVT) /\ SubmitWeather
       ELSE RoundEnds(0) /\ UNCHANGED <<work_list, delayed, owed>>
    /\ UNCHANGED <<work_current, link, network_link_status, info_update_bitmap, job,
                   page_vars, sync, bounds>>

\* The download is not due; it is again after WEA_UPDATE_INVT rounds.
NoWeather ==
    /\ thread.at = "weather" /\ thread.wea # 0
    /\ IF thread.wea + 1 < WEA_UPDATE_INVT
       THEN RoundEnds(thread.wea + 1) /\ UNCHANGED rounds
       ELSE IF rounds < MaxRounds
            THEN RoundEnds(0) /\ rounds' = rounds + 1
            ELSE RoundEnds(thread.wea) /\ UNCHANGED rounds
    /\ UNCHANGED <<queue_vars, link, network_link_status, info_update_bitmap, job,
                   page_vars, owed, sync, fails, loads, flips>>

Wake ==
    /\ thread.at = "sleep"
    /\ thread' = [thread EXCEPT !.at = "round"]
    /\ UNCHANGED <<queue_vars, link, network_link_status, info_update_bitmap, job,
                   page_vars, owed, sync, bounds>>

WeatherThread == UpdateTime \/ WriteTimeBit \/ UpdateWeather \/ NoWeather \/ Wake

-----------------------------------------------------------------------------
(* The liz thread and the timer of the page.                               *)

\* weather_gui_load builds the page from weaInfo and timeInfo as they are.
Build == page' = "loading" /\ agrees' = Fields /\ clock_agrees' = TRUE

\* wait_first_app_update_finish, then the first weather_load, which asks for
\* no download.
FirstLoad ==
    /\ page = "boot"
    /\ network_link_status = 1 => info_update_bitmap = Masks
    /\ Build
    /\ UNCHANGED <<queue_vars, link, network_link_status, info_update_bitmap, thread,
                   job, owed, sync, bounds>>

\* When the page is switched to, the controller calls weather_init, which
\* clears the bitmap, and weather_load, which asks for a download if there is
\* a network.
Load ==
    /\ page = "away" /\ loads < MaxLoads
    /\ loads' = loads + 1
    /\ info_update_bitmap' = {}
    /\ IF link THEN SubmitWeather ELSE UNCHANGED <<work_list, delayed, owed>>
    /\ Build
    /\ UNCHANGED <<work_current, link, network_link_status, thread, job, sync,
                   rounds, fails, flips>>

\* The animation is over and weather_update_timer is created.
Run ==
    /\ page = "loading"
    /\ page' = "running"
    /\ UNCHANGED <<queue_vars, link, network_link_status, info_update_bitmap, thread,
                   job, agrees, clock_agrees, owed, sync, bounds>>

\* weather_gui_unload deletes the timer.
Unload ==
    /\ page = "running"
    /\ page' = "away"
    /\ UNCHANGED <<queue_vars, link, network_link_status, info_update_bitmap, thread,
                   job, agrees, clock_agrees, owed, sync, bounds>>

\* Mutant: when both bits are set only the time is shown.
weather_update_cb_Else ==
    /\ page = "running" /\ info_update_bitmap # {}
    /\ clock_agrees' = (clock_agrees \/ "TIME" \in info_update_bitmap)
    /\ agrees' = IF info_update_bitmap = {"WEA"} THEN Fields ELSE agrees
    /\ info_update_bitmap' = {}
    /\ UNCHANGED <<queue_vars, link, network_link_status, thread, job, page, owed,
                   sync, bounds>>

\* weather_update_cb shows what the bitmap announces and clears it.
weather_update_cb ==
    /\ page = "running" /\ info_update_bitmap # {}
    /\ clock_agrees' = (clock_agrees \/ "TIME" \in info_update_bitmap)
    /\ agrees' = IF "WEA" \in info_update_bitmap THEN Fields ELSE agrees
    /\ info_update_bitmap' = {}
    /\ UNCHANGED <<queue_vars, link, network_link_status, thread, job, page, owed,
                   sync, bounds>>

LinkFlips ==
    /\ flips < MaxFlips
    /\ link' = ~link /\ flips' = flips + 1
    /\ UNCHANGED <<queue_vars, network_link_status, info_update_bitmap, thread, job,
                   page_vars, owed, sync, rounds, fails, loads>>

Next ==
    \/ DelayExpires \/ WorkQueue \/ WeatherThread
    \/ FirstLoad \/ Load \/ Run \/ Unload \/ weather_update_cb
    \/ LinkFlips

(* The work queue gets the processor again and again, although each time   *)
(* the weather thread may take it away: strong fairness.  Whether the page *)
(* is loaded or left is the user's choice.                                 *)
Fairness ==
    /\ SF_vars(WorkQueue) /\ WF_vars(WeatherThread)
    /\ \A w \in Works : WF_vars(DelayExpires /\ w \in delayed /\ w \notin delayed')
    /\ WF_vars(FirstLoad) /\ WF_vars(Run) /\ WF_vars(weather_update_cb)

Spec == Init /\ [][Next]_vars /\ Fairness

-----------------------------------------------------------------------------
(* The values of the variables; no work is in the list twice, which would  *)
(* break the list.                                                         *)
TypeOK ==
    /\ work_list \in Seq(Works)
    /\ \A m, n \in DOMAIN work_list : work_list[m] = work_list[n] => m = n
    /\ delayed \subseteq Works /\ work_current \in Works \cup {"none"}
    /\ link \in BOOLEAN /\ network_link_status \in {0, 1}
    /\ info_update_bitmap \subseteq Masks
    /\ thread \in [at : {"round", "write_bits", "weather", "sleep"},
                   bits : SUBSET Masks, time : 0..(TIME_UPDATE_INVT - 1),
                   wea : 0..(WEA_UPDATE_INVT - 1)]
    /\ job \in [at : DownloadPlaces \cup SyncPlaces \cup {"idle"},
                bits : SUBSET Masks, tries : 0..(NtpTries - 1)]
    /\ page \in {"boot", "loading", "running", "away"}
    /\ agrees \subseteq Fields /\ clock_agrees \in BOOLEAN /\ owed \in BOOLEAN
    /\ sync \in [said : {"nothing", "success", "fail"}, answered : BOOLEAN]
    /\ rounds \in 0..MaxRounds /\ fails \in 0..MaxFails
    /\ loads \in 0..MaxLoads /\ flips \in 0..MaxFlips

(* A page that is up never keeps showing an outdated or half-written       *)
(* weather: when no download is being written and none is announced, every *)
(* field on the screen is that of weaInfo.  The unlocked bitmap is safe    *)
(* for this bit only because of the priorities of its four users.          *)
FreshWeather ==
    /\ page \in {"loading", "running"}
    /\ "WEA" \notin info_update_bitmap
    /\ job.at \notin {"write", "read_bits", "write_bits"}
    => agrees = Fields

Alive(w) == w \in delayed \/ work_current = w \/ Listed(w, work_list)

(* No job is forgotten, although the queue drops a work whose delay        *)
(* expires while it runs: a download that was asked for and has not        *)
(* succeeded is on its way, and so is, once the network came up, the next  *)
(* synchronisation of the clock.                                           *)
NothingForgotten ==
    /\ owed => Alive("weather")
    /\ network_link_status = 1 => Alive("ntp")

(* When the link stays up, a download that was asked for succeeds, however *)
(* it is delayed by asking again, by failures and by the synchronisation   *)
(* it shares the queue with.                                               *)
DownloadSucceeds == <>[]link => (owed ~> ~owed)

(* The boot screen is left: both bits the liz thread waits for are set at  *)
(* the same time in the end, if the link stays up.                         *)
BootWaitEnds == <>[]link => <>(page # "boot")

(* weather_gui.c:252 "refresh the time shown on the screen": when no time  *)
(* is announced and none is being announced the page shows timeInfo.       *)
FreshTime ==
    /\ page = "running" /\ "TIME" \notin info_update_bitmap
    /\ thread.at # "write_bits"
    => clock_agrees

(* at_device_sim76xx.c:788 "sim ntp sync success!": said only after the    *)
(* modem has synchronised its own clock.                                   *)
SuccessMeansNtp == sync.said = "success" => sync.answered
=============================================================================
