--------------------------- MODULE MCHeartbeatApp ---------------------------
(* HeartbeatApp with one page beside it, or with all four applications. *)
EXTENDS HeartbeatApp

CONSTANTS weather, spectrum, anniversary, heartbeat

FourApps == <<weather, spectrum, anniversary, heartbeat>>
TwoApps == <<weather, heartbeat>>
OnlyWeather == {weather}
OnlyHeartbeat == {heartbeat}

(* A long visit: the user stays on the heartbeat screen and sends once, and *)
(* each message finds the flag down.                                        *)
StayHere ==
  /\ ~LeaveInter
  /\ mqtt_sub_cb => act_info.inter = 0
  /\ sentHere' <= 1

LongVisitSpec == HbInit /\ [][HbNext /\ StayHere]_hbVars
=============================================================================
