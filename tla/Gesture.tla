------------------------------ MODULE Gesture ------------------------------
(***************************************************************************)
(* The tilt sensor under the controller: the hand that holds the cube, the *)
(* imu thread that copies its attitude into the struct imu one field after *)
(* the other (imu_data_update in imu_action.c), and the loop that reads    *)
(* them (imu_get_move_dir, liz_bsp_get_act_info).  The loop outranks the   *)
(* imu thread: it may read between two fields, the imu thread never reads  *)
(* or writes within a pass.  AppController takes any gesture at any time;  *)
(* here it takes the one the fields stand for.                             *)
(***************************************************************************)
EXTENDS AppController

CONSTANTS
  IMU_LEFT_THRESHOLD, IMU_RIGHT_THRESHOLD,   \* of the pitch, in degrees
  IMU_DOWN_THRESHOLD, IMU_UP_THRESHOLD,      \* of the roll
  Attitudes,    \* the attitudes the cube is held in: [pitch, roll]
  NoSample      \* the imu thread is between two samples

ASSUME GestureAssumption ==
  /\ Attitudes \subseteq [pitch : -90..90, roll : -180..180]
  /\ IMU_LEFT_THRESHOLD \in Int /\ IMU_RIGHT_THRESHOLD \in Int
  /\ IMU_DOWN_THRESHOLD \in Int /\ IMU_UP_THRESHOLD \in Int
  /\ NoSample \notin Int

VARIABLES
  hand,      \* the attitude of the cube
  imu,       \* the fields the loop reads; zero before the first sample
  local      \* the roll read from the sensor and not yet stored

imuVars == <<hand, imu, local>>
gestureVars == <<vars, imuVars>>

GestureTypeOK ==
  /\ TypeOK
  /\ hand \in Attitudes
  /\ imu.pitch \in {0} \cup {a.pitch : a \in Attitudes}
  /\ imu.roll \in {0} \cup {a.roll : a \in Attitudes}
  /\ local \in {NoSample} \cup {a.roll : a \in Attitudes}

GestureInit ==
  /\ Init
  /\ hand \in Attitudes
  /\ imu = [pitch |-> 0, roll |-> 0]
  /\ local = NoSample

-----------------------------------------------------------------------------
(* imu_get_move_dir: the pitch goes before the roll; held upright, the roll  *)
(* is at its jump from 180 to -180.                                          *)
imu_get_move_dir(i) ==
  CASE i.pitch > IMU_RIGHT_THRESHOLD -> "DIR_RIGHT"
    [] i.pitch < IMU_LEFT_THRESHOLD  -> "DIR_LEFT"
    [] /\ i.pitch \in IMU_LEFT_THRESHOLD..IMU_RIGHT_THRESHOLD
       /\ i.roll < IMU_UP_THRESHOLD /\ i.roll > 0 -> "DIR_UP"
    [] /\ i.pitch \in IMU_LEFT_THRESHOLD..IMU_RIGHT_THRESHOLD
       /\ i.roll > IMU_DOWN_THRESHOLD /\ i.roll < 0 -> "DIR_DOWN"
    [] OTHER -> "DIR_NOMOV"

(* liz_bsp_get_act_info. *)
liz_bsp_get_act_info(i) ==
  CASE imu_get_move_dir(i) = "DIR_RIGHT" -> "MOVE_RIGHT"
    [] imu_get_move_dir(i) = "DIR_LEFT"  -> "MOVE_LEFT"
    [] imu_get_move_dir(i) = "DIR_UP"    -> "MOVE_UP"
    [] imu_get_move_dir(i) = "DIR_DOWN"  -> "MOVE_DOWN"
    [] OTHER -> "UNKNOWN"

-----------------------------------------------------------------------------
HandMoves ==
  /\ \E a \in Attitudes \ {hand} : hand' = a
  /\ UNCHANGED <<vars, imu, local>>

(* The sensor's FIFO has a packet, after any number of empty reads; the      *)
(* thread may lose the processor before it has stored the rest.              *)
StorePitch ==
  /\ local = NoSample
  /\ imu' = [imu EXCEPT !.pitch = hand.pitch]
  /\ local' = hand.roll
  /\ UNCHANGED <<vars, hand>>

(* Mutant: the thread returns after its first sample. *)
StoreRoll_Once ==
  /\ local # NoSample /\ imu.roll = 0
  /\ imu' = [imu EXCEPT !.roll = local]
  /\ local' = NoSample
  /\ UNCHANGED <<vars, hand>>

StoreRoll ==
  /\ local # NoSample
  /\ imu' = [imu EXCEPT !.roll = local]
  /\ local' = NoSample
  /\ UNCHANGED <<vars, hand>>

imu_data_update == StorePitch \/ StoreRoll

(* The loop's reads take what the fields hold. *)
ReadsGesture ==
  pc \in {"load", "poll"} => act_info'.act_type = liz_bsp_get_act_info(imu)

LizThread == LizAppThread /\ ReadsGesture /\ UNCHANGED imuVars

Others == (NetworkUp \/ LizInitDone \/ FirstInfo \/ mqtt_sub_cb) /\ UNCHANGED imuVars

GestureNext == HandMoves \/ imu_data_update \/ LizThread \/ Others

(* The loop sleeps at the end of each pass, the imu thread between two       *)
(* samples, and no thread above the imu thread stays busy.                   *)
GestureSpec ==
  /\ GestureInit /\ [][GestureNext]_gestureVars
  /\ WF_gestureVars(LizThread)
  /\ WF_gestureVars(imu_data_update)

-----------------------------------------------------------------------------
(* Properties.                                                               *)

Meant(a) == liz_bsp_get_act_info(a)

(* A cube held tilted to a side keeps turning pages, whatever page it comes  *)
(* to, unless messages keep coming, which are taken first.                   *)
HeldTurns ==
  \A a \in {b \in Attitudes : Meant(b) \in {"MOVE_LEFT", "MOVE_RIGHT", "MOVE_UP"}} :
    (<>[](Running /\ hand = a)) => []<>(since = 0) \/ []<>(act_info.inter = 1)

(* A cube put down stops turning pages, whatever it was turned through: no   *)
(* gesture is kept that the settling time has delayed.                       *)
AtRestQuiet ==
  \A a \in {b \in Attitudes : Meant(b) = "UNKNOWN"} :
    (<>[](hand = a)) => <>[](pc = "apply" => since # 0)

(* The gesture the loop acts on is one of an attitude the cube was held in.  *)
GestureMeasured ==
  pc = "dispatch" => \E a \in Attitudes : act_info.act_type = Meant(a)
=============================================================================
