----------------------- MODULE AppController_proofs -----------------------
(***************************************************************************)
(* Proofs about AppController for every list of applications, table size   *)
(* and debounce length; about HeartbeatApp, whose steps are the            *)
(* controller's with its own effects added, for every width of its         *)
(* counters; and about Gesture, where the gestures the controller takes    *)
(* come from a measured attitude, for all attitudes and thresholds.        *)
(***************************************************************************)
EXTENDS HeartbeatApp, Gesture, TLAPS

(* The table holds the applications offered so far, in order, up to its size. *)
TableInv ==
  /\ app_num = IF offered < APP_MAX_NUM THEN offered ELSE APP_MAX_NUM
  /\ inter_app_index = IF app_num = 0 THEN 0 ELSE app_num - 1
  /\ \A i \in 0..app_num - 1 : appList[i] = RegisterOrder[i + 1]
  /\ pc = "wait_system" => offered = 0
  /\ pc = "register" => offered < Len(RegisterOrder)
  /\ pc \notin {"wait_system", "register"} => offered = Len(RegisterOrder)

(* The inter application never has itself underneath. *)
IndexInv ==
  /\ ~Running => cur_app_index = 0 /\ pre_app_index = 0
  /\ Running => cur_app_index \in 0..app_num - 1
  /\ Running => pre_app_index \in 0..app_num - 1
  /\ Running /\ AtInter => pre_app_index \in 0..app_num - 2
  /\ app_change_flag = 1 => pc = "apply"

ScreenInv ==
  /\ OneScreen
  /\ ~Running => shown = {}

(* While a tilt is refused the debounce counter counts the passes. *)
SinceInv ==
  /\ act_info.is_valid = 0 => since = act_info.duration
  /\ act_info.is_valid = 1 => since = DebouncePasses + 1 /\ act_info.duration = 0

IInv == TypeOK /\ TableInv /\ IndexInv /\ ScreenInv /\ SinceInv

-----------------------------------------------------------------------------
(* Every application offered is in App. *)
LEMMA OfferedInApp ==
  ASSUME NEW k \in 1..Len(RegisterOrder)
  PROVE  RegisterOrder[k] \in App
BY ControllerAssumption DEF App

(* Turning left or right stays on the ring. *)
LEMMA RingStep ==
  ASSUME NEW n \in Nat, n > 0, NEW i \in 0..n - 1
  PROVE  /\ (i + 1) % n \in 0..n - 1
         /\ (i - 1 + n) % n \in 0..n - 1
         /\ (i - 1 + n) % n = (i + n - 1) % n
OBVIOUS

(* Once the loop runs, at least one page and the inter application are there. *)
LEMMA RunningCount ==
  ASSUME TypeOK, TableInv, Running
  PROVE  /\ app_num = AppCount
         /\ app_num \in Nat
         /\ app_num >= 2
         /\ inter_app_index = app_num - 1
BY ControllerAssumption DEF TypeOK, TableInv, Running, AppCount

(* The record poll writes is well typed and keeps the flag. *)
LEMMA DebounceType ==
  ASSUME TypeOK, NEW a \in ActType
  PROVE  /\ Debounce(a) \in ActInfo
         /\ act_info.is_valid = 1 =>
              /\ Debounce(a).is_valid = 1
              /\ Debounce(a).duration = act_info.duration
         /\ act_info.is_valid = 0 /\ Ripe =>
              /\ Debounce(a).is_valid = 1
              /\ Debounce(a).duration = 0
         /\ act_info.is_valid = 0 /\ ~Ripe =>
              /\ Debounce(a).is_valid = 0
              /\ Debounce(a).duration = act_info.duration + 1
<1>0. /\ act_info \in ActInfo /\ DebouncePasses \in Nat
      /\ act_info.is_valid \in {0, 1}
      /\ act_info.duration \in 0..DebouncePasses
  BY ControllerAssumption DEF TypeOK, ActInfo
<1>1. CASE act_info.is_valid = 1
  BY <1>0, <1>1 DEF Debounce, ActInfo
<1>2. CASE act_info.is_valid = 0 /\ Ripe
  BY <1>0, <1>2 DEF Debounce, ActInfo
<1>3. CASE act_info.is_valid = 0 /\ ~Ripe
  BY <1>0, <1>3 DEF Debounce, ActInfo, Ripe
<1>4. QED BY <1>0, <1>1, <1>2, <1>3 DEF ActInfo

-----------------------------------------------------------------------------
(* The initial states satisfy the inductive invariant. *)
LEMMA InitIInv == Init => IInv
<1> SUFFICES ASSUME Init PROVE IInv
  OBVIOUS
<1> USE ControllerAssumption DEF Init
<1>1. TypeOK
  <2>1. act_info \in ActInfo
    BY DEF ActInfo, ActType
  <2>2. appList \in [0..APP_MAX_NUM - 1 -> App \cup {NoApp}]
    OBVIOUS
  <2>3. /\ offered \in 0..Len(RegisterOrder)
        /\ app_num \in 0..APP_MAX_NUM
        /\ since \in 0..DebouncePasses + 1
        /\ {cur_app_index, pre_app_index, inter_app_index} \in
             SUBSET (0..APP_MAX_NUM - 1)
    OBVIOUS
  <2>4. anim_type \in AnimType
    BY DEF AnimType
  <2>5. QED BY <2>1, <2>2, <2>3, <2>4 DEF TypeOK
<1>2. TableInv
  BY DEF TableInv
<1>3. IndexInv /\ ScreenInv /\ SinceInv
  BY DEF IndexInv, ScreenInv, OneScreen, SinceInv, Running
<1>4. QED BY <1>1, <1>2, <1>3 DEF IInv

(* The steps before the loop. *)
LEMMA BootStep == IInv /\ Boot => IInv'
<1> SUFFICES ASSUME IInv, Boot PROVE IInv'
  OBVIOUS
<1> USE ControllerAssumption
<1>0. TypeOK /\ TableInv /\ IndexInv /\ ScreenInv /\ SinceInv
  BY DEF IInv
<1>1. CASE wait_system_start
  BY <1>0, <1>1 DEF wait_system_start, bootVars, listVars, navVars, IInv, TypeOK,
     TableInv, IndexInv, ScreenInv, SinceInv, OneScreen, Running, cur_app, pre_app
<1>2. CASE app_register
  <2> USE <1>0, <1>2 DEF app_register, bootVars, navVars, app_is_legal
  <2>1. RegisterOrder[offered + 1] \in App
    BY OfferedInApp DEF TypeOK
  <2>2. TypeOK'
    BY <2>1 DEF TypeOK
  <2>3. pc = "register" /\ pc' \in {"init", "register"}
    OBVIOUS
  <2>4. TableInv'
    BY DEF TypeOK, TableInv
  <2>5. (IndexInv /\ ScreenInv /\ SinceInv)'
    BY <2>3 DEF IndexInv, ScreenInv, SinceInv, OneScreen, Running, TypeOK
  <2>6. QED BY <2>2, <2>4, <2>5 DEF IInv
<1>3. CASE app_controller_init
  BY <1>0, <1>3 DEF app_controller_init, bootVars, listVars, IInv, TypeOK,
     TableInv, IndexInv, ScreenInv, SinceInv, OneScreen, Running, cur_app, pre_app
<1>4. CASE wait_first_app_update_finish
  BY <1>0, <1>4 DEF wait_first_app_update_finish, bootVars, listVars, navVars, IInv,
     TypeOK, TableInv, IndexInv, ScreenInv, SinceInv, OneScreen, Running, cur_app,
     pre_app
<1>5. CASE app_controller_load
  <2> USE <1>0, <1>5 DEF app_controller_load, bootVars, listVars, navVars
  <2>1. offered = Len(RegisterOrder) /\ app_num \in Nat /\ app_num >= 2
    BY DEF TableInv, TypeOK
  <2>2. cur_app_index = 0 /\ cur_app \in App
    BY <2>1, OfferedInApp DEF TableInv, IndexInv, Running, cur_app, TypeOK
  <2>3. PICK a \in ActType : act_info' = [act_info EXCEPT !.act_type = a]
    OBVIOUS
  <2>4. TypeOK'
    BY <2>2, <2>3 DEF TypeOK, ActInfo
  <2>5. TableInv'
    BY DEF TableInv
  <2>6. IndexInv'
    BY <2>1 DEF IndexInv, TableInv, Running, AtInter, TypeOK
  <2>7. ScreenInv'
    BY DEF ScreenInv, OneScreen, Running, IndexInv, cur_app
  <2>8. SinceInv'
    BY <2>3 DEF SinceInv, TypeOK, ActInfo
  <2>9. QED BY <2>4, <2>5, <2>6, <2>7, <2>8 DEF IInv
<1>6. QED BY <1>1, <1>2, <1>3, <1>4, <1>5 DEF Boot

(* Polling the sensor. *)
LEMMA PollStep == IInv /\ Poll => IInv'
<1> SUFFICES ASSUME IInv, Poll PROVE IInv'
  OBVIOUS
<1> USE ControllerAssumption DEF Poll, bootVars, listVars, navVars
<1>0. TypeOK /\ TableInv /\ IndexInv /\ ScreenInv /\ SinceInv
  BY DEF IInv
<1>1. PICK a \in ActType : act_info' = Debounce(a)
  OBVIOUS
<1>2. /\ act_info' \in ActInfo
      /\ act_info.is_valid = 1 =>
           act_info'.is_valid = 1 /\ act_info'.duration = act_info.duration
      /\ act_info.is_valid = 0 /\ Ripe =>
           act_info'.is_valid = 1 /\ act_info'.duration = 0
      /\ act_info.is_valid = 0 /\ ~Ripe =>
           /\ act_info'.is_valid = 0
           /\ act_info'.duration = act_info.duration + 1
  BY <1>0, <1>1, DebounceType
<1>3. TypeOK'
  BY <1>0, <1>2 DEF TypeOK
<1>4. (TableInv /\ IndexInv /\ ScreenInv)'
  BY <1>0 DEF TableInv, IndexInv, ScreenInv, OneScreen, Running, AtInter,
     cur_app, pre_app
<1>5. SinceInv'
  BY <1>0, <1>2 DEF SinceInv, TypeOK, ActInfo, Ripe
<1>6. QED BY <1>3, <1>4, <1>5 DEF IInv

(* What every step that takes a message or a tilt does to the record. *)
LEMMA TakeStep ==
  ASSUME IInv, TakeMessage \/ \E a \in ActType : TakeTilt(a)
  PROVE  /\ act_info' \in ActInfo /\ since' \in 0..DebouncePasses + 1
         /\ SinceInv'
         /\ UNCHANGED <<bootVars, listVars, shown>>
         /\ pc = "dispatch" /\ pc' = "apply"
<1> USE ControllerAssumption
<1>0. TypeOK /\ SinceInv /\ act_info \in ActInfo
  BY DEF IInv, TypeOK
<1>1. CASE TakeMessage
  BY <1>0, <1>1 DEF TakeMessage, SinceInv, TypeOK, ActInfo
<1>2. CASE \E a \in ActType : TakeTilt(a)
  <2>1. PICK a \in ActType : TakeTilt(a)
    BY <1>2
  <2>2. act_info' = [act_info EXCEPT !.is_valid = 0, !.act_type = "UNKNOWN"]
    BY <2>1 DEF TakeTilt
  <2>3. /\ act_info' \in ActInfo
        /\ act_info'.is_valid = 0
        /\ act_info'.duration = act_info.duration
    BY <1>0, <2>2 DEF ActInfo, ActType
  <2>4. QED BY <1>0, <2>1, <2>3 DEF TakeTilt, SinceInv, TypeOK
<1>3. QED BY <1>1, <1>2

(* A switch keeps the invariant when the application left is recorded, the  *)
(* one entered is another entry of the table, and the inter application is  *)
(* never entered from itself.                                               *)
LEMMA NavStep ==
  ASSUME IInv,
         TakeMessage \/ \E a \in ActType : TakeTilt(a),
         pre_app_index' = cur_app_index,
         cur_app_index' \in 0..app_num - 1,
         cur_app_index' = app_num - 1 => cur_app_index # app_num - 1,
         app_change_flag' = 1,
         anim_type' \in AnimType
  PROVE  IInv'
<1> USE ControllerAssumption
<1>0. TypeOK /\ TableInv /\ IndexInv /\ ScreenInv /\ SinceInv
  BY DEF IInv
<1>1. /\ act_info' \in ActInfo /\ since' \in 0..DebouncePasses + 1
      /\ SinceInv'
      /\ UNCHANGED <<bootVars, listVars, shown>>
      /\ pc = "dispatch" /\ pc' = "apply"
  BY TakeStep
<1>2. Running /\ Running'
  BY <1>1 DEF Running
<1>3. /\ app_num \in Nat /\ app_num >= 2 /\ app_num <= APP_MAX_NUM
      /\ inter_app_index = app_num - 1
  BY <1>0, <1>2, RunningCount DEF TypeOK
<1>4. TypeOK'
  BY <1>0, <1>1, <1>3 DEF TypeOK, bootVars, listVars
<1>5. TableInv'
  BY <1>0, <1>1 DEF TableInv, listVars
<1>6. IndexInv'
  BY <1>0, <1>1, <1>2, <1>3 DEF IndexInv, AtInter, listVars, TypeOK
<1>7. app_change_flag = 0 /\ shown = {cur_app}
  BY <1>0, <1>1, <1>2 DEF IndexInv, ScreenInv, OneScreen, TypeOK
<1>8. ScreenInv'
  BY <1>1, <1>2, <1>7 DEF ScreenInv, OneScreen, cur_app, pre_app, listVars
<1>9. QED BY <1>1, <1>4, <1>5, <1>6, <1>8 DEF IInv

(* Each action of one pass of the loop. *)
LEMMA DispatchStep == IInv /\ Dispatch => IInv'
<1> SUFFICES ASSUME IInv, Dispatch PROVE IInv'
  OBVIOUS
<1> USE ControllerAssumption
<1>0. TypeOK /\ TableInv /\ IndexInv /\ ScreenInv /\ SinceInv
  BY DEF IInv
<1>p. pc = "dispatch"
  BY DEF Dispatch, RotateLeft, RotateRight, LeaveInter, EnterByMessage, EnterByTilt,
     EventByMessage, EventByTilt, NothingToDo, TakeMessage, TakeTilt
<1>n. /\ app_num \in Nat /\ app_num >= 2
      /\ inter_app_index = app_num - 1
      /\ cur_app_index \in 0..app_num - 1
      /\ pre_app_index \in 0..app_num - 1
      /\ AtInter => pre_app_index \in 0..app_num - 2
  BY <1>0, <1>p, RunningCount DEF Running, IndexInv
<1>r. ~AtInter => /\ cur_app_index \in 0..RingSize - 1
                  /\ RingSize \in Nat /\ RingSize > 0
                  /\ (cur_app_index + 1) % RingSize \in 0..RingSize - 1
                  /\ LeftOf \in 0..RingSize - 1
  <2>1. ASSUME ~AtInter
        PROVE  /\ cur_app_index \in 0..RingSize - 1
               /\ RingSize \in Nat /\ RingSize > 0
    BY <1>n, <2>1 DEF RingSize, AtInter
  <2>2. QED BY <2>1, RingStep DEF LeftOf
<1>1. CASE RotateLeft
  BY <1>1, <1>n, <1>r, NavStep DEF RotateLeft, RingSize, AnimType, ActType
<1>2. CASE RotateRight
  BY <1>2, <1>n, <1>r, NavStep DEF RotateRight, RingSize, AnimType, ActType
<1>3. CASE LeaveInter
  <2>1. pre_app_index' = cur_app_index /\ cur_app_index' \in 0..app_num - 2
    BY <1>3, <1>n DEF LeaveInter, AtInter
  <2>2. QED BY <1>3, <1>n, <2>1, NavStep DEF LeaveInter, AnimType, ActType
<1>4. CASE EnterByMessage
  BY <1>4, <1>n, NavStep DEF EnterByMessage, GoToInter, AtInter, AnimType
<1>5. CASE EnterByTilt
  BY <1>5, <1>n, NavStep DEF EnterByTilt, GoToInter, AtInter, AnimType, ActType
<1>6. CASE EventByMessage \/ EventByTilt
  <2>1. /\ act_info' \in ActInfo /\ since' \in 0..DebouncePasses + 1
        /\ SinceInv'
        /\ UNCHANGED <<bootVars, listVars, shown>>
        /\ pc' = "apply"
    BY <1>6, TakeStep DEF EventByMessage, EventByTilt, ActType
  <2>2. UNCHANGED navVars
    BY <1>6 DEF EventByMessage, EventByTilt
  <2>3. app_change_flag = 0
    BY <1>0, <1>p DEF IndexInv, TypeOK
  <2>4. TypeOK'
    BY <1>0, <2>1, <2>2 DEF TypeOK, bootVars, listVars, navVars
  <2>5. (TableInv /\ IndexInv /\ ScreenInv)'
    BY <1>0, <1>p, <2>1, <2>2, <2>3 DEF TableInv, IndexInv, ScreenInv, OneScreen,
       Running, AtInter, cur_app, pre_app, listVars, navVars
  <2>6. QED BY <2>1, <2>4, <2>5 DEF IInv
<1>7. CASE NothingToDo
  BY <1>0, <1>7 DEF NothingToDo, bootVars, listVars, navVars, IInv, TypeOK, TableInv,
     IndexInv, ScreenInv, SinceInv, OneScreen, Running, AtInter, cur_app, pre_app
<1>8. QED BY <1>1, <1>2, <1>3, <1>4, <1>5, <1>6, <1>7 DEF Dispatch

(* The application left loses its screen, the one entered gets one. *)
LEMMA ApplyStep == IInv /\ (SwitchApp \/ RunApp) => IInv'
<1> SUFFICES ASSUME IInv, SwitchApp \/ RunApp PROVE IInv'
  OBVIOUS
<1> USE ControllerAssumption
<1>0. TypeOK /\ TableInv /\ IndexInv /\ ScreenInv /\ SinceInv
  BY DEF IInv
<1>1. CASE SwitchApp
  <2> USE <1>0, <1>1 DEF SwitchApp, bootVars, listVars
  <2>1. Running /\ Running' /\ shown = {pre_app} /\ shown' = {cur_app}
    BY DEF ScreenInv, OneScreen, Running
  <2>2. cur_app \in App
    <3>1. cur_app_index \in 0..app_num - 1 /\ app_num \in Nat
          /\ app_num <= Len(RegisterOrder)
      BY <2>1 DEF IndexInv, TableInv, TypeOK
    <3>2. cur_app = RegisterOrder[cur_app_index + 1]
      BY <3>1 DEF TableInv, cur_app
    <3>3. QED BY <3>1, <3>2, OfferedInApp
  <2>3. TypeOK'
    BY <2>1, <2>2 DEF TypeOK
  <2>4. ScreenInv'
    BY <2>1 DEF ScreenInv, OneScreen, cur_app
  <2>5. (TableInv /\ IndexInv /\ SinceInv)'
    BY DEF TableInv, IndexInv, SinceInv, Running, AtInter
  <2>6. QED BY <2>3, <2>4, <2>5 DEF IInv
<1>2. CASE RunApp
  BY <1>0, <1>2 DEF RunApp, bootVars, listVars, navVars, IInv, TypeOK, TableInv,
     IndexInv, ScreenInv, SinceInv, OneScreen, Running, AtInter, cur_app, pre_app
<1>3. QED BY <1>1, <1>2

(* The other threads and stuttering. *)
LEMMA OtherStep ==
  IInv /\ (NetworkUp \/ LizInitDone \/ FirstInfo \/ mqtt_sub_cb \/ UNCHANGED vars)
    => IInv'
<1> SUFFICES ASSUME IInv, NetworkUp \/ LizInitDone \/ FirstInfo \/ mqtt_sub_cb
                          \/ UNCHANGED vars
             PROVE  IInv'
  OBVIOUS
<1> USE ControllerAssumption DEF bootVars, listVars, navVars
<1>0. TypeOK /\ TableInv /\ IndexInv /\ ScreenInv /\ SinceInv
  BY DEF IInv
<1>1. UNCHANGED <<pc, listVars, navVars, shown, since>>
  BY DEF NetworkUp, LizInitDone, FirstInfo, mqtt_sub_cb, vars
<1>2. (TableInv /\ IndexInv /\ ScreenInv)'
  BY <1>0, <1>1 DEF TableInv, IndexInv, ScreenInv, OneScreen, Running, AtInter,
     cur_app, pre_app
<1>3. TypeOK' /\ SinceInv'
  <2>1. CASE mqtt_sub_cb
    <3>1. act_info' = [act_type |-> act_info.act_type, is_valid |-> act_info.is_valid,
                       duration |-> act_info.duration, inter |-> 1]
      BY <1>0, <2>1 DEF mqtt_sub_cb, TypeOK, ActInfo
    <3>2. act_info' \in ActInfo
      BY <1>0, <3>1 DEF TypeOK, ActInfo
    <3>3. TypeOK'
      BY <1>0, <1>1, <2>1, <3>2 DEF mqtt_sub_cb, TypeOK
    <3>4. SinceInv'
      BY <1>0, <1>1, <3>1 DEF SinceInv
    <3>5. QED BY <3>3, <3>4
  <2>2. CASE NetworkUp \/ LizInitDone \/ FirstInfo \/ UNCHANGED vars
    <3>1. UNCHANGED act_info
      BY <2>2 DEF NetworkUp, LizInitDone, FirstInfo, vars
    <3>2. SinceInv'
      BY <1>0, <1>1, <3>1 DEF SinceInv
    <3>3. TypeOK'
      BY <1>0, <1>1, <2>2, <3>1 DEF NetworkUp, LizInitDone, FirstInfo, vars, TypeOK
    <3>4. QED BY <3>2, <3>3
  <2>3. QED BY <2>1, <2>2
<1>4. QED BY <1>2, <1>3 DEF IInv

LEMMA NextIInv == IInv /\ [Next]_vars => IInv'
BY BootStep, PollStep, DispatchStep, ApplyStep, OtherStep DEF Next, LizAppThread

(* The inductive invariant: whatever the threads do, the tables, the indexes,  *)
(* the screen and the tilt counter agree in every reachable state.            *)
THEOREM Inductive == Spec => []IInv
<1>1. QED BY InitIInv, NextIInv, PTL DEF Spec

-----------------------------------------------------------------------------
(* The indexes never leave the table, so appList is never read past its end *)
(* or at an empty slot, for any table size and any list of applications.    *)
THEOREM TypeCorrect == Spec => []TypeOK
<1>1. IInv => TypeOK
  BY DEF IInv
<1>2. QED BY Inductive, <1>1, PTL

(* exit_callback always tears down the one application on the screen. *)
THEOREM OneScreenAlways == Spec => []OneScreen
<1>1. IInv => OneScreen
  BY DEF IInv, ScreenInv
<1>2. QED BY Inductive, <1>1, PTL

LEMMA CallbacksThere ==
  ASSUME RegisterOrder[1] \in GetParmApps, RegisterOrder[AppCount] \in OnEventApps, IInv
  PROVE  CallbacksPresent
<1>0. TypeOK /\ TableInv /\ IndexInv
  BY DEF IInv
<1>1. ASSUME pc = "wait_first" PROVE cur_app \in GetParmApps
  <2>1. cur_app_index = 0 /\ app_num \in Nat /\ app_num >= 2
    BY <1>0, <1>1, ControllerAssumption DEF IndexInv, TableInv, Running, TypeOK
  <2>2. QED BY <1>0, <2>1 DEF TableInv, cur_app
<1>2. ASSUME pc = "dispatch", AtInter PROVE cur_app \in OnEventApps
  <2>1. /\ app_num = AppCount /\ app_num \in Nat /\ app_num >= 2
        /\ cur_app_index = app_num - 1
    BY <1>0, <1>2, RunningCount DEF Running, AtInter
  <2>2. QED BY <1>0, <2>1 DEF TableInv, cur_app
<1>3. QED BY <1>1, <1>2 DEF CallbacksPresent

(* With get_parm in the first application and on_event in the last that     *)
(* fits the table, no callback is called through a NULL pointer.            *)
THEOREM CallbacksAlwaysPresent ==
  ASSUME RegisterOrder[1] \in GetParmApps, RegisterOrder[AppCount] \in OnEventApps
  PROVE  Spec => []CallbacksPresent
<1>1. IInv => CallbacksPresent
  BY CallbacksThere
<1>2. QED BY Inductive, <1>1, PTL

LEMMA TiltStep ==
  IInv /\ [Next]_vars =>
    [act_info.is_valid = 1 /\ act_info'.is_valid = 0
       => since * LoopDelay > SettleTime]_vars
BY ControllerAssumption, SettleAssumption DEF IInv, SinceInv

(* Two tilts are accepted only SettleTime apart. *)
THEOREM TiltsSpaced == Spec => TiltSpacing
<1>1. QED BY Inductive, TiltStep, PTL DEF Spec, TiltSpacing

-----------------------------------------------------------------------------
(* The steps that move between applications are the carousel's moves. *)
LEMMA CarouselStep ==
  ASSUME IInv, IInv', [Next]_vars
  PROVE  [Ring!CarouselNext]_(Ring!cvars)
<1> USE ControllerAssumption
<1> DEFINE overlay == Running /\ AtInter
<1>0. TypeOK /\ TableInv /\ IndexInv
  BY DEF IInv
<1>1. CASE Dispatch
  <2>0. pc = "dispatch" /\ pc' = "apply" /\ UNCHANGED listVars
    BY <1>1 DEF Dispatch, RotateLeft, RotateRight, LeaveInter, EnterByMessage,
       EnterByTilt, EventByMessage, EventByTilt, NothingToDo, TakeMessage, TakeTilt
  <2>n. /\ Running /\ Running' /\ app_num = AppCount
        /\ app_num \in Nat /\ app_num >= 2
        /\ inter_app_index = app_num - 1 /\ inter_app_index' = inter_app_index
        /\ cur_app_index \in 0..app_num - 1
        /\ pre_app_index \in 0..app_num - 1
        /\ AtInter => pre_app_index \in 0..app_num - 2
    BY <1>0, <2>0, RunningCount DEF Running, IndexInv, listVars
  <2>r. ~AtInter =>
          /\ (cur_app_index + 1) % RingSize \in 0..RingSize - 1
          /\ LeftOf \in 0..RingSize - 1
          /\ LeftOf = (cur_app_index + RingSize - 1) % RingSize
    <3>1. ASSUME ~AtInter
          PROVE  /\ cur_app_index \in 0..RingSize - 1
                 /\ RingSize \in Nat /\ RingSize > 0
      BY <2>n, <3>1 DEF RingSize, AtInter
    <3>2. QED BY <3>1, RingStep DEF LeftOf
  <2>1. CASE RotateLeft \/ RotateRight
    <3>1. ~AtInter /\ ~AtInter'
      BY <2>1, <2>n, <2>r DEF RotateLeft, RotateRight, AtInter, RingSize
    <3>2. CarouselPage' \in {(CarouselPage + 1) % (AppCount - 1),
                            (CarouselPage + (AppCount - 1) - 1) % (AppCount - 1)}
      BY <2>1, <2>n, <2>r, <3>1 DEF RotateLeft, RotateRight, CarouselPage, RingSize
    <3>3. QED BY <3>1, <3>2 DEF Ring!CarouselNext, Ring!Turn
  <2>2. CASE LeaveInter
    <3>1. AtInter /\ ~AtInter' /\ CarouselPage' = CarouselPage
      BY <2>2, <2>n DEF LeaveInter, AtInter, CarouselPage
    <3>2. QED BY <2>n, <3>1 DEF Ring!CarouselNext, Ring!Dismiss
  <2>3. CASE EnterByMessage \/ EnterByTilt
    <3>1. ~AtInter /\ AtInter' /\ CarouselPage' = CarouselPage
      BY <2>3, <2>n DEF EnterByMessage, EnterByTilt, GoToInter, AtInter, CarouselPage
    <3>2. QED BY <2>n, <3>1 DEF Ring!CarouselNext, Ring!Raise
  <2>4. CASE EventByMessage \/ EventByTilt \/ NothingToDo
    <3>1. UNCHANGED navVars
      BY <2>4 DEF EventByMessage, EventByTilt, NothingToDo
    <3>2. QED BY <2>n, <3>1 DEF Ring!cvars, CarouselPage, AtInter, navVars
  <2>5. QED BY <1>1, <2>1, <2>2, <2>3, <2>4 DEF Dispatch
<1>2. CASE Boot
  <2>1. ~Running /\ cur_app_index = 0 /\ pre_app_index = 0
    BY <1>0, <1>2 DEF Boot, wait_system_start, app_register, app_controller_init,
       wait_first_app_update_finish, app_controller_load, Running, IndexInv
  <2>2. cur_app_index' = 0 /\ pre_app_index' = 0
    BY <1>2, <2>1 DEF Boot, wait_system_start, app_register, app_controller_init,
       wait_first_app_update_finish, app_controller_load, navVars
  <2>3. Running' => ~AtInter'
    <3>1. TypeOK' /\ TableInv'
      BY DEF IInv
    <3>2. ASSUME Running' PROVE inter_app_index' = app_num' - 1 /\ app_num' >= 2
      <4>1. offered' = Len(RegisterOrder)
        BY <3>1, <3>2 DEF TableInv, Running
      <4>2. app_num' >= 2 /\ app_num' # 0
        BY <3>1, <4>1 DEF TableInv
      <4>3. QED BY <3>1, <4>2 DEF TableInv
    <3>3. QED BY <2>2, <3>1, <3>2 DEF AtInter, TypeOK
  <2>4. QED BY <2>1, <2>2, <2>3 DEF Ring!cvars, CarouselPage
<1>3. CASE Poll \/ SwitchApp \/ RunApp
  BY <1>3 DEF Poll, SwitchApp, RunApp, Ring!cvars, CarouselPage, AtInter, Running,
     listVars, navVars
<1>4. CASE NetworkUp \/ LizInitDone \/ FirstInfo \/ mqtt_sub_cb \/ UNCHANGED vars
  BY <1>4 DEF NetworkUp, LizInitDone, FirstInfo, mqtt_sub_cb, vars, Ring!cvars,
     CarouselPage, AtInter, Running, listVars, navVars
<1>5. QED BY <1>1, <1>2, <1>3, <1>4 DEF Next, LizAppThread

LEMMA CarouselStart == Init => Ring!CarouselInit
BY DEF Init, Ring!CarouselInit, CarouselPage, AtInter, Running

(* Turning, raising and dismissing are all the controller ever does, and    *)
(* dismissing always uncovers the page the overlay was raised on.           *)
THEOREM CarouselImplemented == Spec => ImplementsCarousel
<1>1. Init => Ring!CarouselInit
  BY CarouselStart
<1>2. IInv /\ IInv' /\ [Next]_vars => [Ring!CarouselNext]_(Ring!cvars)
  BY CarouselStep
<1>3. QED
  BY Inductive, <1>1, <1>2, PTL DEF Spec, ImplementsCarousel, Ring!CarouselSpec

-----------------------------------------------------------------------------
(* HeartbeatApp.                                                             *)

(* Every step of the application is a step of the controller or leaves it   *)
(* alone.                                                                   *)
LEMMA ControllerStep == [HbNext]_hbVars => [Next]_vars
<1>. USE DEF vars, bootVars, listVars, navVars
<1>1. mqtt_online_callback => [Next]_vars
  BY DEF mqtt_online_callback
<1>2. mqtt_offline_callback => [Next]_vars
  BY DEF mqtt_offline_callback
<1>3. Message => Next
  BY DEF Message, Next
<1>4. LoadForMessage \/ LoadForUser \/ SwitchAway => Next
  BY DEF LoadForMessage, LoadForUser, SwitchAway, Next, LizAppThread
<1>5. on_event_user \/ on_event_message \/ GoForMessage => Next
  BY DEF on_event_user, on_event_message, GoForMessage, Next, LizAppThread,
         Dispatch
<1>6. Elsewhere => Next
  BY DEF Elsewhere, Next, LizAppThread, Dispatch
<1>7. UNCHANGED hbVars => UNCHANGED vars
  BY DEF hbVars
<1>8. QED
  BY <1>1, <1>2, <1>3, <1>4, <1>5, <1>6, <1>7 DEF HbNext

(* The controller's invariant therefore holds of the application's runs too. *)
LEMMA ControllerInv == HbSpec => []IInv
<1>1. HbInit => Init
  BY DEF HbInit
<1>2. QED
  BY <1>1, InitIInv, NextIInv, ControllerStep, PTL DEF HbSpec

(* A count in the code's width is never one the width does not hold.         *)
LEMMA CountType ==
  ASSUME NEW n \in 0..CntMod - 1
  PROVE  Count(n) \in 0..CntMod - 1
BY CntAssumption DEF Count

LEMMA TallyType ==
  ASSUME NEW n \in 0..CntMod
  PROVE  Tally(n) \in 0..CntMod
BY CntAssumption DEF Tally

VisitTypes ==
  /\ send_cnt \in 0..CntMod - 1 /\ recv_cnt \in 0..CntMod - 1
  /\ s_r_type \in {"SEND", "RECV", "HEART"}
  /\ label \in [sent : 0..CntMod - 1, received : 0..CntMod - 1]
  /\ sentHere \in 0..CntMod /\ gotHere \in 0..CntMod

LampTypes ==
  /\ need_del_inter \in {0, 1}
  /\ led_mode \in {"NONE", "BREATHE", "FADEOUT"}
  /\ is_online \in {0, 1}
  /\ pending \in 0..MaxPending

(* Counters, picture, label and lamp keep their types: no event, visit or    *)
(* message brings a counter past its width or the lamp into another mode.    *)
THEOREM HbTypeCorrect == HbSpec => []HbTypeOK
<1>1. HbInit => /\ VisitTypes /\ LampTypes
                /\ allPublished \in BOOLEAN /\ announced \in BOOLEAN
  <2> SUFFICES ASSUME HbInit
               PROVE  /\ VisitTypes /\ LampTypes
                      /\ allPublished \in BOOLEAN /\ announced \in BOOLEAN
    OBVIOUS
  <2>1. VisitTypes /\ LampTypes
    BY CntAssumption DEF HbInit, VisitTypes, LampTypes, MaxPending
  <2>2. allPublished \in BOOLEAN /\ announced \in BOOLEAN
    BY Zenon DEF HbInit
  <2>3. QED
    BY <2>1, <2>2
<1>2. VisitTypes /\ [HbNext]_hbVars => VisitTypes'
  <2> SUFFICES ASSUME VisitTypes, [HbNext]_hbVars PROVE VisitTypes'
    OBVIOUS
  <2>1. CASE LoadForMessage
    BY <2>1, CntAssumption DEF LoadForMessage, VisitTypes
  <2>2. CASE LoadForUser
    BY <2>2, CntAssumption DEF LoadForUser, VisitTypes
  <2>3. CASE on_event_user
    BY <2>3, CountType, TallyType DEF on_event_user, VisitTypes
  <2>4. CASE on_event_message
    BY <2>4, CountType, TallyType DEF on_event_message, VisitTypes
  <2>5. CASE UNCHANGED visitVars
    BY <2>5 DEF visitVars, VisitTypes
  <2>6. QED
    BY <2>1, <2>2, <2>3, <2>4, <2>5
    DEF HbNext, hbVars, heartbeatVars, mqtt_online_callback, mqtt_offline_callback,
        Message, GoForMessage, SwitchAway, Elsewhere
<1>3. LampTypes /\ [HbNext]_hbVars => LampTypes'
  <2> SUFFICES ASSUME LampTypes, [HbNext]_hbVars PROVE LampTypes'
    OBVIOUS
  <2>. USE DEF LampTypes, MaxPending, lampVars
  <2>1. CASE mqtt_online_callback \/ mqtt_offline_callback
    BY <2>1 DEF mqtt_online_callback, mqtt_offline_callback
  <2>2. CASE Message \/ GoForMessage
    BY <2>2 DEF Message, GoForMessage
  <2>3. CASE LoadForMessage \/ LoadForUser
    BY <2>3 DEF LoadForMessage, LoadForUser
  <2>4. CASE on_event_user \/ on_event_message
    BY <2>4 DEF on_event_user, on_event_message
  <2>5. CASE SwitchAway \/ Elsewhere \/ UNCHANGED hbVars
    BY <2>5 DEF SwitchAway, Elsewhere, hbVars, heartbeatVars
  <2>6. QED
    BY <2>1, <2>2, <2>3, <2>4, <2>5 DEF HbNext
<1>4. allPublished \in BOOLEAN /\ [HbNext]_hbVars => (allPublished \in BOOLEAN)'
  <2> SUFFICES ASSUME allPublished \in BOOLEAN, [HbNext]_hbVars
               PROVE  allPublished' \in BOOLEAN
    OBVIOUS
  <2>1. CASE LoadForMessage \/ LoadForUser \/ on_event_user
    BY <2>1, Zenon DEF LoadForMessage, LoadForUser, on_event_user, Published
  <2>2. CASE allPublished' = allPublished
    BY <2>2
  <2>3. QED
    BY <2>1, <2>2
    DEF HbNext, hbVars, heartbeatVars, visitVars, on_event_message, Message,
        mqtt_online_callback, mqtt_offline_callback, GoForMessage, SwitchAway, Elsewhere
<1>5. announced \in BOOLEAN /\ [HbNext]_hbVars => (announced \in BOOLEAN)'
  <2> SUFFICES ASSUME announced \in BOOLEAN, [HbNext]_hbVars
               PROVE  announced' \in BOOLEAN
    OBVIOUS
  <2>1. CASE GoForMessage \/ on_event_user
    BY <2>1, Zenon DEF GoForMessage, on_event_user
  <2>2. CASE announced' = announced
    BY <2>2
  <2>3. QED
    BY <2>1, <2>2
    DEF HbNext, hbVars, heartbeatVars, LoadForMessage, LoadForUser, on_event_message,
        Message, mqtt_online_callback, mqtt_offline_callback, SwitchAway, Elsewhere
<1>6. /\ IInv /\ VisitTypes /\ LampTypes
      /\ allPublished \in BOOLEAN /\ announced \in BOOLEAN
      => HbTypeOK
  BY DEF IInv, VisitTypes, LampTypes, HbTypeOK
<1>7. QED
  BY <1>1, <1>2, <1>3, <1>4, <1>5, <1>6, ControllerInv, PTL DEF HbSpec

-----------------------------------------------------------------------------
(* What is known of the light: also while the screen is down it tells whether*)
(* a message is unanswered, but between the controller's decision and the    *)
(* load, where the animation tells what the load is going to do.             *)
Announcing == led_mode = "BREATHE" <=> announced

Loading == AtInter /\ app_change_flag = 1

LampInv ==
  /\ need_del_inter = 1 <=> led_mode = "BREATHE"
  /\ ~Loading => Announcing
  /\ Loading => IF anim_type = "MOVE_BOTTOM" THEN announced ELSE Announcing

(* Only a decision to show the application starts a load of it, and only the *)
(* load itself ends that.                                                    *)
LEMMA LoadStarts ==
  ASSUME IInv, IInv', [Next]_vars, ~EnterByMessage, ~EnterByTilt
  PROVE  /\ Loading' => Loading /\ UNCHANGED anim_type
         /\ ~SwitchApp => (Loading => Loading')
<1>0. TypeOK /\ TableInv /\ IndexInv /\ IndexInv'
  BY DEF IInv
<1>1. CASE NetworkUp \/ LizInitDone \/ FirstInfo \/ mqtt_sub_cb \/ UNCHANGED vars
  BY <1>1 DEF NetworkUp, LizInitDone, FirstInfo, mqtt_sub_cb, vars, bootVars,
     listVars, navVars, Loading, AtInter
<1>2. CASE Boot \/ Poll \/ SwitchApp \/ RunApp
  <2>1. ~Loading'
    <3>1. CASE Boot \/ Poll
      <4>1. pc' # "apply"
        BY <3>1 DEF Boot, wait_system_start, app_register, app_controller_init,
           wait_first_app_update_finish, app_controller_load, Poll
      <4>2. QED BY <1>0, <4>1 DEF IndexInv, Loading
    <3>2. CASE SwitchApp \/ RunApp
      BY <3>2 DEF SwitchApp, RunApp, navVars, Loading
    <3>3. QED BY <1>2, <3>1, <3>2
  <2>2. ~SwitchApp => ~Loading
    <3>1. CASE Boot \/ Poll
      <4>1. pc # "apply"
        BY <3>1 DEF Boot, wait_system_start, app_register, app_controller_init,
           wait_first_app_update_finish, app_controller_load, Poll
      <4>2. QED BY <1>0, <4>1 DEF IndexInv, Loading
    <3>2. CASE RunApp
      BY <3>2 DEF RunApp, Loading
    <3>3. QED BY <1>2, <3>1, <3>2
  <2>3. QED BY <2>1, <2>2
<1>3. CASE Dispatch
  <2>1. pc = "dispatch" /\ UNCHANGED listVars
    BY <1>3 DEF Dispatch, RotateLeft, RotateRight, LeaveInter, EnterByMessage,
       EnterByTilt, EventByMessage, EventByTilt, NothingToDo, TakeMessage, TakeTilt
  <2>2. ~Loading /\ app_change_flag # 1
    BY <1>0, <2>1 DEF IndexInv, Loading
  <2>3. /\ app_num \in Nat /\ app_num >= 2
        /\ inter_app_index = app_num - 1 /\ inter_app_index' = inter_app_index
        /\ cur_app_index \in 0..app_num - 1
        /\ AtInter => pre_app_index \in 0..app_num - 2
    BY <1>0, <2>1, RunningCount DEF Running, IndexInv, listVars
  <2>4. ~Loading'
    <3>1. CASE RotateLeft \/ RotateRight
      <4>1. RingSize \in Nat /\ RingSize > 0 /\ cur_app_index \in 0..RingSize - 1
        BY <2>3, <3>1 DEF RingSize, AtInter, RotateLeft, RotateRight
      <4>2. cur_app_index' \in 0..RingSize - 1
        BY <3>1, <4>1, RingStep DEF RotateLeft, RotateRight, LeftOf
      <4>3. QED BY <2>3, <4>2 DEF RingSize, AtInter, Loading
    <3>2. CASE LeaveInter
      BY <2>3, <3>2 DEF LeaveInter, AtInter, Loading
    <3>3. CASE EventByMessage \/ EventByTilt \/ NothingToDo
      BY <2>2, <3>3 DEF EventByMessage, EventByTilt, NothingToDo, navVars, Loading
    <3>4. QED BY <1>3, <3>1, <3>2, <3>3 DEF Dispatch
  <2>5. QED BY <2>2, <2>4
<1>4. QED BY <1>1, <1>2, <1>3 DEF Next, LizAppThread

(* The controller's decisions find no load under way.                        *)
LEMMA LoadDecided ==
  ASSUME IInv, EnterByMessage \/ EnterByTilt
  PROVE  /\ ~Loading
         /\ Loading'
         /\ EnterByMessage => anim_type' = "MOVE_BOTTOM"
         /\ EnterByTilt => anim_type' # "MOVE_BOTTOM"
BY DEF IInv, IndexInv, EnterByMessage, EnterByTilt, GoToInter, TakeMessage,
       TakeTilt, Loading, AtInter, listVars

(* The light breathes for a message until the user answers, through visits,  *)
(* tilts and further messages in any order, and for nothing else: a message  *)
(* that finds the screen up starts no breathing, a visit of the user's own   *)
(* neither starts nor ends it.                                               *)
THEOREM BreathingAlwaysAnnounces == HbSpec => []BreathingAnnounces
<1>1. HbInit => LampInv
  BY DEF HbInit, Init, LampInv, Announcing, Loading
<1>2. IInv /\ IInv' /\ LampInv /\ [HbNext]_hbVars => LampInv'
  <2> SUFFICES ASSUME IInv, IInv', LampInv, [HbNext]_hbVars
               PROVE  LampInv'
    OBVIOUS
  <2>0. [Next]_vars
    BY ControllerStep
  <2>1. CASE LoadForMessage
    <3>1. announced
      BY <2>1 DEF LoadForMessage, SwitchApp, LampInv, Loading
    <3>2. ~Loading'
      BY <2>1 DEF LoadForMessage, SwitchApp, Loading
    <3>3. QED BY <2>1, <3>1, <3>2 DEF LoadForMessage, LampInv, Announcing
  <2>2. CASE LoadForUser
    <3>1. Announcing
      BY <2>2 DEF LoadForUser, SwitchApp, LampInv, Loading
    <3>2. ~Loading'
      BY <2>2 DEF LoadForUser, SwitchApp, Loading
    <3>3. QED BY <2>2, <3>1, <3>2 DEF LoadForUser, LampInv, Announcing, lampVars
  <2>3. CASE on_event_user \/ on_event_message
    <3>1. ~Loading /\ ~Loading'
      BY <2>3 DEF on_event_user, on_event_message, EventByTilt, EventByMessage,
         TakeTilt, TakeMessage, navVars, IInv, IndexInv, Loading
    <3>2. CASE on_event_user
      BY <3>1, <3>2 DEF on_event_user, LampInv, Announcing
    <3>3. CASE on_event_message
      BY <3>1, <3>3 DEF on_event_message, LampInv, Announcing
    <3>4. QED BY <2>3, <3>2, <3>3
  <2>4. CASE GoForMessage
    BY <2>4, LoadDecided DEF GoForMessage, LampInv, lampVars
  <2>6. CASE SwitchAway
    BY <2>6 DEF SwitchAway, SwitchApp, heartbeatVars, lampVars, LampInv, Announcing,
       Loading
  <2>7. CASE /\ UNCHANGED <<lampVars, announced>>
             /\ ~EnterByMessage /\ ~EnterByTilt /\ ~SwitchApp
    BY <2>0, <2>7, LoadStarts DEF LampInv, Announcing, lampVars
  <2>8. CASE mqtt_online_callback \/ mqtt_offline_callback \/ UNCHANGED hbVars
    BY <2>8 DEF mqtt_online_callback, mqtt_offline_callback, hbVars, heartbeatVars,
       vars, navVars, listVars, LampInv, Announcing, Loading, AtInter, lampVars
  <2>9. CASE Message \/ Elsewhere
    <3>1. UNCHANGED <<lampVars, announced>>
      BY <2>9 DEF Message, Elsewhere, heartbeatVars
    <3>2. ~EnterByMessage /\ ~SwitchApp
      BY <2>9 DEF Message, mqtt_sub_cb, Elsewhere, NetworkUp, LizInitDone, FirstInfo,
         Boot, wait_system_start, app_register, app_controller_init,
         wait_first_app_update_finish, app_controller_load, Poll, RunApp,
         RotateLeft, RotateRight, LeaveInter, EnterByTilt, NothingToDo,
         EnterByMessage, SwitchApp, TakeMessage, TakeTilt
    <3>3. CASE ~EnterByTilt
      BY <2>7, <3>1, <3>2, <3>3
    <3>4. CASE EnterByTilt
      BY <3>1, <3>4, LoadDecided DEF LampInv, Announcing, lampVars
    <3>5. QED BY <3>3, <3>4
  <2>10. QED
    BY <2>1, <2>2, <2>3, <2>4, <2>6, <2>8, <2>9 DEF HbNext
<1>3. IInv /\ LampInv => BreathingAnnounces
  BY DEF LampInv, Announcing, Loading, BreathingAnnounces, OnScreen
<1>4. QED
  BY <1>1, <1>2, <1>3, ControllerInv, PTL DEF HbSpec

-----------------------------------------------------------------------------
(* Until they wrap the code's counters are the visit's.  Saying what they   *)
(* are only on the screen is enough: every visit sets all of them.          *)
VisitType ==
  /\ sentHere \in Nat /\ gotHere \in Nat
  /\ send_cnt \in Nat /\ recv_cnt \in Nat

CountInv ==
  OnScreen /\ sentHere < CntMod /\ gotHere < CntMod =>
    send_cnt = sentHere /\ recv_cnt = gotHere

(* A visit starts with one or the other. *)
VisitOpen == sentHere > 0 \/ gotHere > 0

VisitInv ==
  /\ VisitType /\ CountInv /\ ScreenTells
  /\ OnScreen => VisitOpen

(* Counting modulo the width is counting, until the width is reached.       *)
LEMMA CountIsTally ==
  ASSUME NEW n \in Nat
  PROVE  /\ Tally(n) \in Nat
         /\ Tally(n) > 0
         /\ Tally(n) < CntMod => Tally(n) = n + 1 /\ Count(n) = n + 1 /\ n < CntMod
         /\ Count(n) \in Nat
BY CntAssumption DEF Tally, Count

(* A step that leaves the visit alone and does not bring the screen up.      *)
LEMMA VisitUnchanged ==
  ASSUME VisitInv, UNCHANGED visitVars, OnScreen' => OnScreen
  PROVE  VisitInv'
BY DEF VisitInv, VisitType, CountInv, ScreenTells, VisitOpen, visitVars

(* The screen comes up only when the application is loaded.                  *)
LEMMA ScreenUp ==
  ASSUME IInv, [HbNext]_hbVars,
         ~LoadForMessage, ~LoadForUser
  PROVE  OnScreen' => OnScreen
<1>. USE DEF OnScreen, AtInter, Running
<1>1. CASE UNCHANGED vars
  BY <1>1 DEF vars, bootVars, listVars, navVars
<1>2. CASE mqtt_sub_cb \/ NetworkUp \/ LizInitDone \/ FirstInfo
  BY <1>2 DEF mqtt_sub_cb, NetworkUp, LizInitDone, FirstInfo, bootVars,
              listVars, navVars
<1>3. CASE Poll \/ RunApp \/ NothingToDo
  BY <1>3 DEF Poll, RunApp, NothingToDo, listVars, navVars
<1>4. CASE RotateLeft \/ RotateRight \/ LeaveInter \/ EnterByMessage \/ EnterByTilt
  BY <1>4 DEF RotateLeft, RotateRight, LeaveInter, EnterByMessage, EnterByTilt,
              GoToInter
<1>5. CASE EventByMessage \/ EventByTilt
  BY <1>5 DEF EventByMessage, EventByTilt, TakeMessage, TakeTilt, navVars,
              listVars
<1>6. CASE SwitchApp /\ ~AtInter
  BY <1>6 DEF SwitchApp, listVars
<1>7. CASE wait_system_start \/ app_register \/ app_controller_init
           \/ wait_first_app_update_finish
  BY <1>7 DEF wait_system_start, app_register, app_controller_init,
              wait_first_app_update_finish
<1>8. CASE app_controller_load
  <2>1. Running' /\ app_num' = app_num /\ cur_app_index' = cur_app_index
        /\ inter_app_index' = inter_app_index
    BY <1>8 DEF app_controller_load, listVars, navVars
  <2>2. cur_app_index = 0
    BY <1>8 DEF app_controller_load, IInv, IndexInv
  <2>3. inter_app_index # 0
    <3>1. offered = Len(RegisterOrder)
      BY <1>8 DEF app_controller_load, IInv, TableInv
    <3>2. app_num \in Nat /\ app_num >= 2
      BY <3>1, ControllerAssumption DEF IInv, TableInv
    <3>3. QED
      BY <3>2 DEF IInv, TableInv
  <2>4. QED
    BY <2>1, <2>2, <2>3
<1>9. QED
  <2>1. CASE HbNext
    <3>1. CASE mqtt_online_callback \/ mqtt_offline_callback
      BY <3>1, <1>1 DEF mqtt_online_callback, mqtt_offline_callback, vars
    <3>2. CASE Message
      BY <3>2, <1>2 DEF Message
    <3>3. CASE on_event_user \/ on_event_message
      BY <3>3, <1>5 DEF on_event_user, on_event_message
    <3>4. CASE GoForMessage
      BY <3>4, <1>4 DEF GoForMessage
    <3>5. CASE SwitchAway
      BY <3>5, <1>6 DEF SwitchAway
    <3>6. CASE Elsewhere
      BY <3>6, <1>2, <1>3, <1>4, <1>7, <1>8 DEF Elsewhere, Boot
    <3>7. QED
      BY <2>1, <3>1, <3>2, <3>3, <3>4, <3>5, <3>6 DEF HbNext
  <2>2. QED
    BY <2>1, <1>1 DEF hbVars

(* While a pass is dispatched no switch is under way.                        *)
LEMMA DispatchOnScreen ==
  ASSUME IInv, pc = "dispatch", AtInter
  PROVE  OnScreen
BY DEF IInv, IndexInv, TypeOK, OnScreen, Running

(* A visit starts with one message, or with one send.                        *)
LEMMA VisitStarts == LoadForMessage \/ LoadForUser => VisitInv'
<1>1. CASE LoadForMessage
  BY <1>1 DEF LoadForMessage, VisitInv, VisitType, CountInv, ScreenTells,
              VisitOpen
<1>2. CASE LoadForUser
  BY <1>2 DEF LoadForUser, VisitInv, VisitType, CountInv, ScreenTells, VisitOpen
<1>3. QED
  BY <1>1, <1>2

(* What the user's event does to the visit: the counters are read before the *)
(* send is counted, which is why CountInv is needed.                         *)
LEMMA UserEvent == IInv /\ VisitInv /\ on_event_user => VisitInv'
<1> SUFFICES ASSUME IInv, VisitInv, on_event_user
             PROVE  VisitInv'
  OBVIOUS
<1>1. OnScreen
  BY DispatchOnScreen DEF on_event_user, EventByTilt, TakeTilt
<1>2. /\ send_cnt' = Count(send_cnt) /\ recv_cnt' = recv_cnt
      /\ sentHere' = Tally(sentHere) /\ gotHere' = gotHere
      /\ s_r_type' = IF recv_cnt > 0 THEN "HEART" ELSE s_r_type
      /\ label' = [sent |-> send_cnt', received |-> recv_cnt']
  BY DEF on_event_user
<1>3. VisitType'
  BY <1>2, CountIsTally DEF VisitInv, VisitType
<1>4. ASSUME sentHere' < CntMod, gotHere' < CntMod
      PROVE  /\ sentHere < CntMod /\ gotHere < CntMod
             /\ send_cnt = sentHere /\ recv_cnt = gotHere
             /\ send_cnt' = sentHere' /\ recv_cnt' = gotHere'
             /\ sentHere' > 0
  BY <1>1, <1>2, <1>4, CountIsTally DEF VisitInv, VisitType, CountInv
<1>5. CountInv'
  BY <1>4 DEF CountInv
<1>6. ASSUME sentHere' < CntMod, gotHere' < CntMod
      PROVE  /\ gotHere' = 0 => s_r_type' = "SEND"
             /\ sentHere' = 0 => s_r_type' = "RECV"
             /\ gotHere' > 0 /\ sentHere' > 0 => s_r_type' = "HEART"
  <2>1. gotHere = 0 => s_r_type = "SEND"
    BY <1>1, <1>4, <1>6 DEF VisitInv, ScreenTells
  <2>2. CASE gotHere = 0
    BY <2>1, <2>2, <1>2, <1>4, <1>6 DEF VisitInv, VisitType
  <2>3. CASE gotHere # 0
    BY <2>3, <1>2, <1>4, <1>6 DEF VisitInv, VisitType
  <2>4. QED
    BY <2>2, <2>3
<1>7. ScreenTells'
  BY <1>2, <1>4, <1>6 DEF ScreenTells
<1>8. VisitOpen'
  BY <1>2, CountIsTally DEF VisitInv, VisitType, VisitOpen
<1>9. QED
  BY <1>3, <1>5, <1>7, <1>8 DEF VisitInv

(* What a message's event does to the visit.                                 *)
LEMMA MessageEvent == IInv /\ VisitInv /\ on_event_message => VisitInv'
<1> SUFFICES ASSUME IInv, VisitInv, on_event_message
             PROVE  VisitInv'
  OBVIOUS
<1>1. OnScreen
  BY DispatchOnScreen DEF on_event_message, EventByMessage, TakeMessage
<1>2. /\ send_cnt' = send_cnt /\ recv_cnt' = Count(recv_cnt)
      /\ sentHere' = sentHere /\ gotHere' = Tally(gotHere)
      /\ s_r_type' = IF send_cnt > 0 THEN "HEART" ELSE s_r_type
      /\ label' = [sent |-> send_cnt', received |-> recv_cnt']
  BY DEF on_event_message
<1>3. VisitType'
  BY <1>2, CountIsTally DEF VisitInv, VisitType
<1>4. ASSUME sentHere' < CntMod, gotHere' < CntMod
      PROVE  /\ sentHere < CntMod /\ gotHere < CntMod
             /\ send_cnt = sentHere /\ recv_cnt = gotHere
             /\ send_cnt' = sentHere' /\ recv_cnt' = gotHere'
             /\ gotHere' > 0
  BY <1>1, <1>2, <1>4, CountIsTally DEF VisitInv, VisitType, CountInv
<1>5. CountInv'
  BY <1>4 DEF CountInv
<1>6. ASSUME sentHere' < CntMod, gotHere' < CntMod
      PROVE  /\ gotHere' = 0 => s_r_type' = "SEND"
             /\ sentHere' = 0 => s_r_type' = "RECV"
             /\ gotHere' > 0 /\ sentHere' > 0 => s_r_type' = "HEART"
  <2>1. sentHere = 0 => s_r_type = "RECV"
    BY <1>1, <1>4, <1>6 DEF VisitInv, VisitType, ScreenTells, VisitOpen
  <2>2. CASE sentHere = 0
    BY <2>1, <2>2, <1>2, <1>4, <1>6 DEF VisitInv, VisitType
  <2>3. CASE sentHere # 0
    BY <2>3, <1>2, <1>4, <1>6 DEF VisitInv, VisitType
  <2>4. QED
    BY <2>2, <2>3
<1>7. ScreenTells'
  BY <1>2, <1>4, <1>6 DEF ScreenTells
<1>8. VisitOpen'
  BY <1>2, CountIsTally DEF VisitInv, VisitType, VisitOpen
<1>9. QED
  BY <1>3, <1>5, <1>7, <1>8 DEF VisitInv

(* While no counter has wrapped, the numbers and the picture on the screen   *)
(* are those of the visit, whatever order sends and receipts came in.        *)
THEOREM ScreenAlwaysTells == HbSpec => []ScreenTells
<1>1. HbInit => VisitInv
  BY DEF HbInit, Init, VisitInv, VisitType, CountInv, ScreenTells, OnScreen,
         Running
<1>2. IInv /\ VisitInv /\ [HbNext]_hbVars => VisitInv'
  <2> SUFFICES ASSUME IInv, VisitInv, [HbNext]_hbVars
               PROVE  VisitInv'
    OBVIOUS
  <2>1. CASE LoadForMessage \/ LoadForUser
    BY <2>1, VisitStarts
  <2>2. CASE on_event_user
    BY <2>2, UserEvent
  <2>3. CASE on_event_message
    BY <2>3, MessageEvent
  <2>4. CASE /\ ~LoadForMessage /\ ~LoadForUser
             /\ ~on_event_user /\ ~on_event_message
    <3>1. UNCHANGED visitVars
      BY <2>4 DEF HbNext, hbVars, heartbeatVars, mqtt_online_callback,
                  mqtt_offline_callback, Message, GoForMessage, SwitchAway,
                  Elsewhere
    <3>2. OnScreen' => OnScreen
      BY <2>4, ScreenUp
    <3>3. QED
      BY <3>1, <3>2, VisitUnchanged
  <2>5. QED
    BY <2>1, <2>2, <2>3, <2>4
<1>3. VisitInv => ScreenTells
  BY DEF VisitInv
<1>4. QED
  BY <1>1, <1>2, <1>3, ControllerInv, PTL DEF HbSpec

-----------------------------------------------------------------------------
(* Gesture: a step of the sensor's model is a step of the controller or      *)
(* leaves it alone, so that all of the above holds of it.                    *)
LEMMA GestureStep == [GestureNext]_gestureVars => [Next]_vars
BY DEF GestureNext, HandMoves, imu_data_update, StorePitch, StoreRoll, LizThread,
   Others, Next, gestureVars

LEMMA GestureController == GestureSpec => []IInv
<1>1. GestureInit => Init
  BY DEF GestureInit
<1>2. QED BY <1>1, InitIInv, NextIInv, GestureStep, PTL DEF GestureSpec

(* The fields hold what the sensor measured, each from one attitude.         *)
ImuInv ==
  /\ hand \in Attitudes
  /\ imu \in [pitch : {0} \cup {a.pitch : a \in Attitudes},
             roll  : {0} \cup {a.roll : a \in Attitudes}]
  /\ local \in {NoSample} \cup {a.roll : a \in Attitudes}

(* No field ever holds anything but a measured value or the zero it starts   *)
(* with, wherever the loop's reads fall between the imu thread's stores.     *)
THEOREM GestureTypeCorrect == GestureSpec => []GestureTypeOK
<1>1. GestureInit => ImuInv
  BY DEF GestureInit, ImuInv
<1>2. ImuInv /\ [GestureNext]_gestureVars => ImuInv'
  <2> SUFFICES ASSUME ImuInv, [GestureNext]_gestureVars
               PROVE  ImuInv'
    OBVIOUS
  <2>1. CASE HandMoves
    BY <2>1 DEF HandMoves, ImuInv
  <2>2. CASE StorePitch
    BY <2>2 DEF StorePitch, ImuInv
  <2>3. CASE StoreRoll
    BY <2>3 DEF StoreRoll, ImuInv
  <2>4. CASE LizThread \/ Others \/ UNCHANGED gestureVars
    BY <2>4 DEF LizThread, Others, gestureVars, imuVars, ImuInv
  <2>5. QED BY <2>1, <2>2, <2>3, <2>4 DEF GestureNext, imu_data_update
<1>3. IInv /\ ImuInv => GestureTypeOK
  BY DEF IInv, ImuInv, GestureTypeOK
<1>4. QED BY <1>1, <1>2, <1>3, GestureController, PTL DEF GestureSpec

(* Whatever is measured: one screen, tilts apart, and the carousel's moves.  *)
THEOREM GestureOneScreen == GestureSpec => []OneScreen
<1>1. IInv => OneScreen
  BY DEF IInv, ScreenInv
<1>2. QED BY <1>1, GestureController, PTL

(* No callback is missing under the measured gestures either.                *)
THEOREM GestureCallbacksPresent ==
  ASSUME RegisterOrder[1] \in GetParmApps, RegisterOrder[AppCount] \in OnEventApps
  PROVE  GestureSpec => []CallbacksPresent
<1>1. IInv => CallbacksPresent
  BY CallbacksThere
<1>2. QED BY <1>1, GestureController, PTL

(* A tilt of the measured attitude turns one page per settling time.         *)
THEOREM GestureTiltsSpaced == GestureSpec => TiltSpacing
<1>1. QED
  BY GestureController, GestureStep, TiltStep, PTL DEF GestureSpec, TiltSpacing

(* The measured gestures drive the carousel and nothing else does.           *)
THEOREM GestureImplementsCarousel == GestureSpec => ImplementsCarousel
<1>1. GestureInit => Ring!CarouselInit
  BY CarouselStart DEF GestureInit
<1>2. IInv /\ IInv' /\ [Next]_vars => [Ring!CarouselNext]_(Ring!cvars)
  BY CarouselStep
<1>3. QED
  BY <1>1, <1>2, GestureController, GestureStep, PTL
     DEF GestureSpec, ImplementsCarousel, Ring!CarouselSpec
=============================================================================
