---------------------------- MODULE HeartbeatApp ----------------------------
(***************************************************************************)
(* The heartbeat application (app/hearbeat), the inter application of the  *)
(* controller: what its load and on_event do to its counters, its screen,  *)
(* the LED and the MQTT client.  Its actions are the controller's, with    *)
(* those effects added; every other step of the controller leaves it alone.*)
(***************************************************************************)
EXTENDS AppController

CONSTANT CntMod   \* send_cnt and recv_cnt count modulo this: 2^8 in the code

ASSUME CntAssumption == CntMod \in Nat /\ CntMod >= 2

(* The messages behind one raised flag are counted up to this bound. *)
MaxPending == 2

VARIABLES
  send_cnt, recv_cnt, need_del_inter,
  s_r_type,            \* the picture shown
  label,               \* the two numbers on the screen
  led_mode,            \* the mode last asked of the LED driver
  is_online,           \* of the MQTT client
  sentHere, gotHere,   \* sends and receipts of this visit, up to CntMod ...
  allPublished,        \* ... and whether each of those sends went out (history)
  pending,             \* messages behind the raised flag (history)
  announced            \* a message brought the screen up, and the user has
                       \* not answered since (history)

visitVars == <<send_cnt, recv_cnt, s_r_type, label, sentHere, gotHere,
               allPublished>>
lampVars == <<need_del_inter, led_mode>>
heartbeatVars == <<visitVars, lampVars, is_online, pending, announced>>
hbVars == <<vars, heartbeatVars>>

HbTypeOK ==
  /\ TypeOK
  /\ send_cnt \in 0..CntMod - 1 /\ recv_cnt \in 0..CntMod - 1
  /\ need_del_inter \in {0, 1}
  /\ s_r_type \in {"SEND", "RECV", "HEART"}
  /\ label \in [sent : 0..CntMod - 1, received : 0..CntMod - 1]
  /\ led_mode \in {"NONE", "BREATHE", "FADEOUT"}
  /\ is_online \in {0, 1}
  /\ sentHere \in 0..CntMod /\ gotHere \in 0..CntMod
  /\ allPublished \in BOOLEAN
  /\ pending \in 0..MaxPending
  /\ announced \in BOOLEAN

HbInit ==
  /\ Init
  /\ send_cnt = 0 /\ recv_cnt = 0 /\ need_del_inter = 0
  /\ s_r_type = "SEND"
  /\ label = [sent |-> 0, received |-> 0]
  /\ led_mode = "NONE"
  /\ is_online = 0
  /\ sentHere = 0 /\ gotHere = 0 /\ allPublished = TRUE
  /\ pending = 0 /\ announced = FALSE

-----------------------------------------------------------------------------
(* The MQTT client: its two callbacks, and a message for the subscription.   *)
mqtt_online_callback ==
  /\ network_link_status = 1
  /\ is_online' = 1
  /\ UNCHANGED <<vars, visitVars, lampVars, pending, announced>>

mqtt_offline_callback ==
  /\ is_online' = 0
  /\ UNCHANGED <<vars, visitVars, lampVars, pending, announced>>

Message ==
  /\ mqtt_sub_cb
  /\ pending' = IF pending < MaxPending THEN pending + 1 ELSE pending
  /\ UNCHANGED <<visitVars, lampVars, is_online, announced>>

(* liz_mqtt_publish gives up when offline, and its caller does not look. *)
Published == is_online = 1

(* One more in a uint8_t. *)
Count(n) == (n + 1) % CntMod

(* A history counter that stops at the width of the code's counters. *)
Tally(n) == IF n < CntMod THEN n + 1 ELSE n

-----------------------------------------------------------------------------
(* heartbeat_load for a message: the picture and the label of heartbeat_gui_ *)
(* load, then the counters, then the light.                                  *)
LoadForMessage ==
  /\ SwitchApp /\ AtInter /\ anim_type = "MOVE_BOTTOM"
  /\ s_r_type' = "RECV"
  /\ label' = [sent |-> 0, received |-> 1]
  /\ send_cnt' = 0 /\ recv_cnt' = 1
  /\ need_del_inter' = 1 /\ led_mode' = "BREATHE"
  /\ sentHere' = 0 /\ gotHere' = 1 /\ allPublished' = TRUE
  /\ UNCHANGED <<is_online, pending, announced>>

(* Mutant: the counters of the last visit are kept. *)
LoadForUser_KeepsCounts ==
  /\ SwitchApp /\ AtInter /\ anim_type # "MOVE_BOTTOM"
  /\ s_r_type' = "SEND"
  /\ label' = [sent |-> 1, received |-> 0]
  /\ send_cnt' = 1
  /\ sentHere' = 1 /\ gotHere' = 0 /\ allPublished' = Published
  /\ UNCHANGED <<recv_cnt, lampVars, is_online, pending, announced>>

(* heartbeat_load for the user: the visit starts with a message sent.        *)
LoadForUser ==
  /\ SwitchApp /\ AtInter /\ anim_type # "MOVE_BOTTOM"
  /\ s_r_type' = "SEND"
  /\ label' = [sent |-> 1, received |-> 0]
  /\ send_cnt' = 1 /\ recv_cnt' = 0
  /\ sentHere' = 1 /\ gotHere' = 0 /\ allPublished' = Published
  /\ UNCHANGED <<lampVars, is_online, pending, announced>>

(* on_event(1), the user: it ends a notification's breathing or flashes, and *)
(* does either by fading out.                                                *)
on_event_user ==
  /\ EventByTilt
  /\ send_cnt' = Count(send_cnt)
  /\ need_del_inter' = 0
  /\ led_mode' = "FADEOUT"
  /\ s_r_type' = IF recv_cnt > 0 THEN "HEART" ELSE s_r_type
  /\ label' = [sent |-> send_cnt', received |-> recv_cnt]
  /\ sentHere' = Tally(sentHere)
  /\ allPublished' = (allPublished /\ Published)
  /\ announced' = FALSE
  /\ UNCHANGED <<recv_cnt, gotHere, is_online, pending>>

(* on_event(2), a message: it flashes unless the light is breathing.         *)
on_event_message ==
  /\ EventByMessage
  /\ s_r_type' = IF send_cnt > 0 THEN "HEART" ELSE s_r_type
  /\ led_mode' = IF need_del_inter = 0 THEN "FADEOUT" ELSE led_mode
  /\ recv_cnt' = Count(recv_cnt)
  /\ label' = [sent |-> send_cnt, received |-> recv_cnt']
  /\ gotHere' = Tally(gotHere)
  /\ pending' = 0
  /\ UNCHANGED <<send_cnt, sentHere, need_del_inter, is_online, allPublished,
                 announced>>

-----------------------------------------------------------------------------
(* The controller's other steps.  It decides here that a message brings the  *)
(* screen up; the load that follows tells so by the animation alone.         *)
GoForMessage ==
  /\ EnterByMessage
  /\ pending' = 0
  /\ announced' = TRUE
  /\ UNCHANGED <<visitVars, lampVars, is_online>>

SwitchAway == SwitchApp /\ ~AtInter /\ UNCHANGED heartbeatVars

Elsewhere ==
  /\ \/ NetworkUp \/ LizInitDone \/ FirstInfo
     \/ Boot \/ Poll \/ RunApp
     \/ RotateLeft \/ RotateRight \/ LeaveInter \/ EnterByTilt \/ NothingToDo
  /\ UNCHANGED heartbeatVars

HbNext ==
  \/ mqtt_online_callback
  \/ mqtt_offline_callback
  \/ Message
  \/ LoadForMessage
  \/ LoadForUser
  \/ on_event_user
  \/ on_event_message
  \/ GoForMessage
  \/ SwitchAway
  \/ Elsewhere

HbSpec == HbInit /\ [][HbNext]_hbVars

-----------------------------------------------------------------------------
(* Properties.                                                               *)

(* The heartbeat screen is up and the loop is between two passes' effects.   *)
OnScreen == Running /\ AtInter /\ app_change_flag = 0

(* While the screen is up the light breathes exactly when a message brought  *)
(* the screen up, in this visit or an earlier one, and the user has not      *)
(* answered since: not for a visit of the user's own, nor for a message that *)
(* finds the screen up.  The load only knows which it is from the animation  *)
(* the controller left, and on_event from need_del_inter, which must say it. *)
BreathingAnnounces ==
  /\ need_del_inter = 1 <=> led_mode = "BREATHE"
  /\ OnScreen => (led_mode = "BREATHE" <=> announced)

(* The picture is the heart exactly when, in this visit, something was sent  *)
(* and something received; on_event reads that off the two counters.         *)
HeartIffBoth ==
  OnScreen => (s_r_type = "HEART" <=> sentHere > 0 /\ gotHere > 0)

(* While no counter has wrapped the screen tells what happened in this       *)
(* visit: the two numbers, and the picture.                                  *)
ScreenTells ==
  OnScreen /\ sentHere < CntMod /\ gotHere < CntMod =>
    /\ label = [sent |-> sentHere, received |-> gotHere]
    /\ gotHere = 0 => s_r_type = "SEND"
    /\ sentHere = 0 => s_r_type = "RECV"
    /\ gotHere > 0 /\ sentHere > 0 => s_r_type = "HEART"

(* The label counts as sent what was sent.                                   *)
EverySendPublished == OnScreen => allPublished

(* The label counts as received what arrived: one message per raised flag.   *)
EveryMessageCounted == OnScreen => pending = act_info.inter
=============================================================================
