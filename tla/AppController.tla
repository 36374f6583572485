--------------------------- MODULE AppController ---------------------------
(***************************************************************************)
(* The application controller (sys/app_controller.c) and the thread that   *)
(* drives it (liz_app_thread in liz_app.c): registration, first load, and  *)
(* the loop that polls the tilt sensor, debounces it, takes the message    *)
(* flag and switches applications.                                         *)
(*                                                                         *)
(* One pass of the loop is three steps, "poll", "dispatch" and "apply",    *)
(* because the MQTT thread may raise the message flag between any two of   *)
(* them: loading a screen alone keeps the loop busy for half a second.     *)
(***************************************************************************)
EXTENDS Integers, Sequences

CONSTANTS
  APP_MAX_NUM,      \* slots of appList
  RegisterOrder,    \* the applications, in the order they are registered
  NoApp,            \* an empty slot
  GetParmApps,      \* the applications whose APP_OBJ has a get_parm
  OnEventApps,      \* the applications whose APP_OBJ has an on_event
  DebouncePasses,   \* passes a tilt is ignored for after one was accepted
  LoopDelay         \* milliseconds slept at the end of a pass

App == {RegisterOrder[i] : i \in DOMAIN RegisterOrder}

ASSUME ControllerAssumption ==
  /\ APP_MAX_NUM \in Nat /\ APP_MAX_NUM >= 2
  /\ RegisterOrder \in Seq(App) /\ Len(RegisterOrder) >= 2
  /\ \A i, j \in 1..Len(RegisterOrder) :
       RegisterOrder[i] = RegisterOrder[j] => i = j
  /\ NoApp \notin App
  /\ DebouncePasses \in Nat
  /\ LoopDelay \in Nat

(* The settling time the loop's comment promises, in milliseconds. *)
SettleTime == 400
ASSUME SettleAssumption == (DebouncePasses + 1) * LoopDelay > SettleTime

(* What liz_bsp_get_act_info returns, and the screen animations. *)
ActType  == {"MOVE_RIGHT", "MOVE_LEFT", "MOVE_UP", "MOVE_DOWN", "UNKNOWN"}
AnimType == {"NONE", "MOVE_LEFT", "MOVE_RIGHT", "MOVE_TOP", "MOVE_BOTTOM"}

VARIABLES
  system_start_flag,    \* set by liz_init_thread when the board is up
  network_link_status,  \* set by the modem's start-up before that
  first_info,           \* the first application's info_bitmap is 0x05
  pc,                   \* where liz_app_thread stands
  offered,              \* app_register calls made so far
  appList, app_num,
  cur_app_index, pre_app_index, inter_app_index,
  app_change_flag, anim_type,
  act_info,             \* shared with the MQTT thread, which sets .inter
  shown,                \* applications whose screen and timers exist
  since                 \* passes since a tilt was accepted (a history variable)

bootVars == <<system_start_flag, network_link_status, first_info>>
listVars == <<offered, appList, app_num, inter_app_index>>
navVars  == <<cur_app_index, pre_app_index, app_change_flag, anim_type>>
vars     == <<bootVars, pc, listVars, navVars, act_info, shown, since>>

cur_app   == appList[cur_app_index]
pre_app   == appList[pre_app_index]
inter_app == appList[inter_app_index]
AtInter   == cur_app_index = inter_app_index

ActInfo == [act_type : ActType, is_valid : {0, 1},
            duration : 0..DebouncePasses, inter : {0, 1}]

TypeOK ==
  /\ system_start_flag \in {0, 1}
  /\ network_link_status \in {0, 1}
  /\ first_info \in BOOLEAN
  /\ pc \in {"wait_system", "register", "init", "wait_first", "load",
             "poll", "dispatch", "apply"}
  /\ offered \in 0..Len(RegisterOrder)
  /\ appList \in [0..APP_MAX_NUM - 1 -> App \cup {NoApp}]
  /\ app_num \in 0..APP_MAX_NUM
  /\ cur_app_index \in 0..APP_MAX_NUM - 1
  /\ pre_app_index \in 0..APP_MAX_NUM - 1
  /\ inter_app_index \in 0..APP_MAX_NUM - 1
  /\ app_change_flag \in {0, 1}
  /\ anim_type \in AnimType
  /\ act_info \in ActInfo
  /\ shown \in SUBSET App
  /\ since \in 0..DebouncePasses + 1

-----------------------------------------------------------------------------
(* Statically initialised variables; act_info is a zeroed global, so its    *)
(* act_type starts as the enumerator 0, MOVE_RIGHT.                         *)
Init ==
  /\ system_start_flag = 0 /\ network_link_status = 0 /\ first_info = FALSE
  /\ pc = "wait_system"
  /\ offered = 0
  /\ appList = [i \in 0..APP_MAX_NUM - 1 |-> NoApp]
  /\ app_num = 0
  /\ cur_app_index = 0 /\ pre_app_index = 0 /\ inter_app_index = 0
  /\ app_change_flag = 0
  /\ anim_type = "NONE"
  /\ act_info = [act_type |-> "MOVE_RIGHT", is_valid |-> 0,
                 duration |-> 0, inter |-> 0]
  /\ shown = {}
  /\ since = 0

-----------------------------------------------------------------------------
(* The other threads.                                                       *)

(* The modem's start-up found a network; it runs before liz_init_thread ends. *)
NetworkUp ==
  /\ system_start_flag = 0
  /\ network_link_status' = 1
  /\ UNCHANGED <<system_start_flag, first_info, pc, listVars, navVars,
                 act_info, shown, since>>

(* liz_init_thread has brought the board up, with or without a network. *)
LizInitDone ==
  /\ system_start_flag = 0
  /\ system_start_flag' = 1
  /\ UNCHANGED <<network_link_status, first_info, pc, listVars, navVars,
                 act_info, shown, since>>

(* The weather thread and its work item have filled the first application's *)
(* bitmap, which they only do once that application was initialised.        *)
FirstInfo ==
  /\ pc = "wait_first"
  /\ first_info' = TRUE
  /\ UNCHANGED <<system_start_flag, network_link_status, pc, listVars,
                 navVars, act_info, shown, since>>

(* The MQTT thread's subscription callback: a level, not a count. *)
mqtt_sub_cb ==
  /\ network_link_status = 1
  /\ act_info' = [act_info EXCEPT !.inter = 1]
  /\ UNCHANGED <<bootVars, pc, listVars, navVars, shown, since>>

-----------------------------------------------------------------------------
(* liz_app_thread up to its loop.                                           *)

wait_system_start ==
  /\ pc = "wait_system"
  /\ system_start_flag = 1
  /\ pc' = "register"
  /\ UNCHANGED <<bootVars, listVars, navVars, act_info, shown, since>>

(* Mutant: the last slot of the table is never given out. *)
app_is_legal_OffByOne == app_num < APP_MAX_NUM - 1

(* app_is_legal: no application is NULL, so only the table's size counts. *)
app_is_legal == app_num < APP_MAX_NUM

(* One app_register call; a refusal is logged by the caller and ignored. *)
app_register ==
  /\ pc = "register"
  /\ offered < Len(RegisterOrder)
  /\ offered' = offered + 1
  /\ IF app_is_legal
       THEN /\ appList' = [appList EXCEPT ![app_num] = RegisterOrder[offered + 1]]
            /\ app_num' = app_num + 1
            /\ inter_app_index' = app_num
       ELSE UNCHANGED <<appList, app_num, inter_app_index>>
  /\ pc' = IF offered' = Len(RegisterOrder) THEN "init" ELSE "register"
  /\ UNCHANGED <<bootVars, navVars, act_info, shown, since>>

(* The first application's init has no effect modelled here. *)
app_controller_init ==
  /\ pc = "init"
  /\ cur_app_index' = 0 /\ pre_app_index' = 0 /\ app_change_flag' = 0
  /\ pc' = IF network_link_status = 1 THEN "wait_first" ELSE "load"
  /\ UNCHANGED <<bootVars, listVars, anim_type, act_info, shown, since>>

wait_first_app_update_finish ==
  /\ pc = "wait_first"
  /\ first_info
  /\ pc' = "load"
  /\ UNCHANGED <<bootVars, listVars, navVars, act_info, shown, since>>

app_controller_load ==
  /\ pc = "load"
  /\ shown' = shown \cup {cur_app}
  /\ \E a \in ActType : act_info' = [act_info EXCEPT !.act_type = a]
  /\ pc' = "poll"
  /\ UNCHANGED <<bootVars, listVars, navVars, since>>

-----------------------------------------------------------------------------
(* The loop.                                                                *)

(* This pass is the first of the settling time's end. *)
Ripe == act_info.duration + 1 > DebouncePasses

(* Mutant: the counter is not reset when a tilt may be accepted again. *)
Debounce_NoReset(a) ==
  [act_type |-> a,
   is_valid |-> IF act_info.is_valid = 0 /\ ~Ripe THEN 0 ELSE 1,
   duration |-> IF act_info.is_valid = 1 \/ Ripe THEN act_info.duration
                  ELSE act_info.duration + 1,
   inter    |-> act_info.inter]

(* Mutant: the settling time begins when the cube is upright again. *)
Debounce_FromRest(a) ==
  [act_type |-> a,
   is_valid |-> IF act_info.is_valid = 0 /\ ~Ripe THEN 0 ELSE 1,
   duration |-> IF act_info.is_valid = 1 \/ Ripe THEN 0
                  ELSE IF a = "UNKNOWN" THEN act_info.duration + 1 ELSE 0,
   inter    |-> act_info.inter]

(* get_act_info, and the debounce counter while no tilt may be accepted. *)
Debounce(a) ==
  [act_type |-> a,
   is_valid |-> IF act_info.is_valid = 0 /\ ~Ripe THEN 0 ELSE 1,
   duration |-> CASE act_info.is_valid = 1 -> act_info.duration
                  [] act_info.is_valid = 0 /\ Ripe -> 0
                  [] act_info.is_valid = 0 /\ ~Ripe -> act_info.duration + 1,
   inter    |-> act_info.inter]

(* Mutant: the sensor thread's record is rebuilt and the flag with it. *)
Poll_ClearsInter ==
  /\ pc = "poll"
  /\ \E a \in ActType : act_info' = [Debounce(a) EXCEPT !.inter = 0]
  /\ since' = IF since > DebouncePasses THEN since ELSE since + 1
  /\ pc' = "dispatch"
  /\ UNCHANGED <<bootVars, listVars, navVars, shown>>

Poll ==
  /\ pc = "poll"
  /\ \E a \in ActType : act_info' = Debounce(a)
  /\ since' = IF since > DebouncePasses THEN since ELSE since + 1
  /\ pc' = "dispatch"
  /\ UNCHANGED <<bootVars, listVars, navVars, shown>>

(* The message flag is tested first and hides a tilt of the same pass. *)
TakeMessage ==
  /\ pc = "dispatch"
  /\ act_info.inter = 1
  /\ act_info' = [act_info EXCEPT !.inter = 0]
  /\ pc' = "apply"
  /\ UNCHANGED <<bootVars, listVars, shown, since>>

TakeTilt(a) ==
  /\ pc = "dispatch"
  /\ act_info.inter = 0
  /\ act_info.is_valid = 1
  /\ act_info.act_type = a
  /\ act_info' = [act_info EXCEPT !.is_valid = 0, !.act_type = "UNKNOWN"]
  /\ since' = 0
  /\ pc' = "apply"
  /\ UNCHANGED <<bootVars, listVars, shown>>

(* switch_to_next_app on a page of the ring. *)
RingSize == app_num - 1

(* Mutant: the ring is not closed on the left. *)
LeftOf_Open == cur_app_index - 1

LeftOf == (cur_app_index - 1 + RingSize) % RingSize

RotateLeft ==
  /\ TakeTilt("MOVE_LEFT")
  /\ ~AtInter
  /\ pre_app_index' = cur_app_index
  /\ anim_type' = "MOVE_RIGHT"
  /\ cur_app_index' = LeftOf
  /\ app_change_flag' = 1

RotateRight ==
  /\ TakeTilt("MOVE_RIGHT")
  /\ ~AtInter
  /\ pre_app_index' = cur_app_index
  /\ anim_type' = "MOVE_LEFT"
  /\ cur_app_index' = (cur_app_index + 1) % RingSize
  /\ app_change_flag' = 1

(* Mutant: the application left is not remembered. *)
LeaveInter_KeepsPre ==
  /\ \E a \in {"MOVE_LEFT", "MOVE_RIGHT"} : TakeTilt(a)
  /\ AtInter
  /\ anim_type' = "MOVE_BOTTOM"
  /\ cur_app_index' = pre_app_index
  /\ app_change_flag' = 1
  /\ UNCHANGED pre_app_index

(* switch_to_next_app on the inter application: back to where it came from. *)
LeaveInter ==
  /\ \E a \in {"MOVE_LEFT", "MOVE_RIGHT"} : TakeTilt(a)
  /\ AtInter
  /\ anim_type' = "MOVE_BOTTOM"
  /\ cur_app_index' = pre_app_index
  /\ pre_app_index' = inter_app_index
  /\ app_change_flag' = 1

(* Mutant: the page left is forgotten, as if it were always the first. *)
GoToInter_Forgets(anim) ==
  /\ ~AtInter
  /\ anim_type' = anim
  /\ pre_app_index' = 0
  /\ cur_app_index' = inter_app_index
  /\ app_change_flag' = 1

(* Mutant: the animation of the last switch is kept. *)
GoToInter_KeepsAnim(anim) ==
  /\ ~AtInter
  /\ pre_app_index' = cur_app_index
  /\ cur_app_index' = inter_app_index
  /\ app_change_flag' = 1
  /\ UNCHANGED anim_type

(* switch_to_inter_app from a page of the ring. *)
GoToInter(anim) ==
  /\ ~AtInter
  /\ anim_type' = anim
  /\ pre_app_index' = cur_app_index
  /\ cur_app_index' = inter_app_index
  /\ app_change_flag' = 1

EnterByMessage == TakeMessage /\ GoToInter("MOVE_BOTTOM")
EnterByTilt    == TakeTilt("MOVE_UP") /\ GoToInter("MOVE_TOP")

(* switch_to_inter_app on the inter application: its on_event(2), on_event(1). *)
EventByMessage == TakeMessage /\ AtInter /\ UNCHANGED navVars
EventByTilt    == TakeTilt("MOVE_UP") /\ AtInter /\ UNCHANGED navVars

(* Neither a message nor a tilt that means anything: MOVE_DOWN stays valid. *)
NothingToDo ==
  /\ pc = "dispatch"
  /\ act_info.inter = 0
  /\ \/ act_info.is_valid = 0
     \/ act_info.act_type \in {"MOVE_DOWN", "UNKNOWN"}
  /\ pc' = "apply"
  /\ UNCHANGED <<bootVars, listVars, navVars, act_info, shown, since>>

(* exit_callback of the application left, then init and load of the new one. *)
SwitchApp ==
  /\ pc = "apply"
  /\ app_change_flag = 1
  /\ app_change_flag' = 0
  /\ shown' = (shown \ {pre_app}) \cup {cur_app}
  /\ pc' = "poll"
  /\ UNCHANGED <<bootVars, listVars, cur_app_index, pre_app_index, anim_type,
                 act_info, since>>

(* No change: process of the current application, empty in all of them. *)
RunApp ==
  /\ pc = "apply"
  /\ app_change_flag = 0
  /\ pc' = "poll"
  /\ UNCHANGED <<bootVars, listVars, navVars, act_info, shown, since>>

-----------------------------------------------------------------------------
Boot ==
  \/ wait_system_start
  \/ app_register
  \/ app_controller_init
  \/ wait_first_app_update_finish
  \/ app_controller_load

Dispatch ==
  \/ RotateLeft
  \/ RotateRight
  \/ LeaveInter
  \/ EnterByMessage
  \/ EnterByTilt
  \/ EventByMessage
  \/ EventByTilt
  \/ NothingToDo

LizAppThread == Boot \/ Poll \/ Dispatch \/ SwitchApp \/ RunApp

Next ==
  \/ NetworkUp
  \/ LizInitDone
  \/ FirstInfo
  \/ mqtt_sub_cb
  \/ LizAppThread

(* The thread has the highest priority of those that stay busy (9), and no *)
(* step of it waits once the loop is reached: it is never kept from running. *)
Spec == Init /\ [][Next]_vars /\ WF_vars(LizAppThread)

-----------------------------------------------------------------------------
(* Properties.                                                              *)

Running == pc \in {"poll", "dispatch", "apply"}

(* Exactly one application has a screen, the controller knows which, and so *)
(* exit_callback always tears down the one being left (its timers and       *)
(* threads), and no application is loaded twice.                            *)
OneScreen ==
  /\ Running /\ app_change_flag = 0 => shown = {cur_app}
  /\ Running /\ app_change_flag = 1 => shown = {pre_app}

(* The callbacks the controller and its thread call without a NULL test are *)
(* there: get_parm of the first application, on_event of the one in the     *)
(* inter slot (app_controller.c calls through the table unconditionally).   *)
CallbacksPresent ==
  /\ pc = "wait_first" => cur_app \in GetParmApps
  /\ pc = "dispatch" /\ AtInter => cur_app \in OnEventApps

(* Two accepted tilts are further apart than the settling time, however the *)
(* passes interleave with messages: one tilt of the hand turns one page.    *)
TiltSpacing ==
  [][act_info.is_valid = 1 /\ act_info'.is_valid = 0
       => since * LoopDelay > SettleTime]_vars

(* A message raised while the loop runs ends on the inter application's     *)
(* screen, whatever tilts and switches are under way.                       *)
MessageShown ==
  Running /\ act_info.inter = 1 ~> inter_app \in shown /\ act_info.inter = 0

(* The controller implements the carousel: the page under the overlay is    *)
(* the one pre_app_index remembers.                                         *)
AppCount == IF Len(RegisterOrder) < APP_MAX_NUM
              THEN Len(RegisterOrder) ELSE APP_MAX_NUM

CarouselPage == IF AtInter THEN pre_app_index ELSE cur_app_index

Ring == INSTANCE Carousel WITH
          Pages <- AppCount - 1,
          page <- CarouselPage,
          overlay <- Running /\ AtInter

ImplementsCarousel == Ring!CarouselSpec

=============================================================================
