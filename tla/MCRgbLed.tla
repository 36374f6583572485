------------------------------ MODULE MCRgbLed ------------------------------
(* RgbLed with the command sequences of heartbeat.c and of the rgb shell. *)
EXTENDS RgbLed

CONSTANTS message, sent   \* the colours 0x324567 and 0x700000

Notify    == <<SetColor(message), SetBreathePeriod, SetMode("BREATHE")>>
Cancel    == <<SetMode("FADEOUT")>>
FlashSent == <<SetColor(sent), SetBreathePeriod, SetMode("FADEOUT")>>
FlashRecv == <<SetColor(message), SetBreathePeriod, SetMode("FADEOUT")>>

HeartbeatCommands == {Notify, Cancel, FlashSent, FlashRecv}
ShellCommands ==
  {<<SetMode(m)>> : m \in Modes} \cup {<<SetColor(sent)>>, <<SetBlinkPeriod>>}
AllCommands == HeartbeatCommands \cup ShellCommands

(* heartbeat.c cancels a notification exactly when one is on, and flashes    *)
(* exactly when none is (need_del_inter, see BreathingAnnounces in           *)
(* HeartbeatApp); it announces a message in either case.                     *)
HeartbeatOrder ==
  calls = <<>> /\ calls' # <<>> =>
    \/ calls' = Notify
    \/ calls' = Cancel /\ lastMode = "BREATHE"
    \/ calls' \in {FlashSent, FlashRecv} /\ lastMode # "BREATHE"

(* In addition the rgb thread has caught up whenever a command is given: it  *)
(* waits for events, or sleeps in HOLDOFF.                                   *)
RgbKeepsUp ==
  calls = <<>> /\ calls' # <<>> => rpc \in {"wait", "holdoff"}

PromptSpec == LedInit /\ [][LedNext /\ HeartbeatOrder /\ RgbKeepsUp]_ledVars
=============================================================================
