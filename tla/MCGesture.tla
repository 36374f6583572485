----------------------------- MODULE MCGesture -----------------------------
(* Gesture with the product's applications and thresholds.  The cube stands *)
(* upright, leans to a side, backwards, or backwards over a corner.         *)
EXTENDS Gesture

CONSTANTS weather, spectrum, anniversary, heartbeat

FourApps == <<weather, spectrum, anniversary, heartbeat>>
OnlyWeather == {weather}
OnlyHeartbeat == {heartbeat}

Left == -16
Down == -140
Upright == [pitch |-> 0, roll |-> 180]
Held == {Upright, [pitch |-> -30, roll |-> 180], [pitch |-> 30, roll |-> 180],
         [pitch |-> 0, roll |-> 150], [pitch |-> 30, roll |-> 150]}

(* Only leaning over a corner and put back. *)
CornerOnly == {Upright, [pitch |-> 30, roll |-> 150]}
=============================================================================
