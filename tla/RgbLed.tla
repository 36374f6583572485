------------------------------- MODULE RgbLed -------------------------------
(***************************************************************************)
(* The LED driver (bsp/WS2812B/ws2812b.c).  Three parties share its        *)
(* variables without a lock: the application thread that calls the         *)
(* setters, the "rgb" thread that handles the change events, and the       *)
(* fade/breathe timer, whose callback runs in the tick interrupt.          *)
(*                                                                         *)
(* The rgb thread has the lowest priority but one, so it never runs between*)
(* two setters of one caller; the interrupt may run between any two steps. *)
(***************************************************************************)
EXTENDS Integers, Sequences

CONSTANTS
  Hues,         \* colours the callers ask for
  NoHue,        \* black has none
  VMax,         \* brightness levels above dark
  Commands,     \* sequences of setter calls a caller makes without blocking
  MaxCommands   \* bound on the number of such sequences

Modes == {"BLINK", "BREATHE", "FADEOUT", "HOLDLIGHT", "HOLDOFF", "NONE"}
Bits  == {"MODE", "COLOR", "BLINK_PERIOD", "BREATHE_PERIOD"}

(* A setter call: its name, and the colour or the mode it is given. *)
Call == [set  : {"color", "mode", "breathe_period", "blink_period"},
         hue  : Hues \cup {NoHue},
         mode : Modes]
SetColor(h) == [set |-> "color", hue |-> h, mode |-> "NONE"]
SetMode(m)  == [set |-> "mode", hue |-> NoHue, mode |-> m]
SetBreathePeriod == [set |-> "breathe_period", hue |-> NoHue, mode |-> "NONE"]
SetBlinkPeriod   == [set |-> "blink_period", hue |-> NoHue, mode |-> "NONE"]

ASSUME LedAssumption ==
  /\ NoHue \notin Hues
  /\ VMax \in Nat \ {0}
  /\ Commands \subseteq Seq(Call)
  /\ MaxCommands \in Nat

VARIABLES
  led_mode, rgb_color,      \* what the setters store
  events,                   \* led_sta_change_event.set
  e, rpc,                   \* the events the rgb thread received; where it is
  now_color,                \* the colour last written, a hue and a brightness
  led,                      \* the colour the LED shows
  breathe_on, blink_on,     \* the two timers are started
  blink_lit,                \* led_on_off_flag
  cfg,                      \* led_breathe_cfg
  calls, issued,            \* setter calls the caller still has to make
  lastMode                  \* mode last asked for by a caller (history)

driverVars == <<now_color, led, breathe_on, blink_on, blink_lit, cfg>>
callerVars == <<rgb_color, calls, issued, lastMode>>
ledVars == <<led_mode, events, e, rpc, driverVars, callerVars>>

Colour == [hue : Hues \cup {NoHue}, v : 0..VMax]
Black  == [hue |-> NoHue, v |-> 0]

(* Zero brightness leaves no hue in the bytes; without one hsv2rgb gives 0. *)
Rgb(h, v) == IF h = NoHue \/ v = 0 THEN Black ELSE [hue |-> h, v |-> v]
Full(h) == Rgb(h, VMax)

(* After ws2812b_rgb_led_init: the thread waits seconds before the first call. *)
LedInit ==
  /\ led_mode = "NONE" /\ rgb_color = NoHue
  /\ events = {} /\ e = {} /\ rpc = "wait"
  /\ now_color = Black /\ led = Black
  /\ breathe_on = FALSE /\ blink_on = FALSE /\ blink_lit = FALSE
  /\ cfg = [flag |-> 0, v |-> 0, h |-> NoHue]
  /\ calls = <<>> /\ issued = 0 /\ lastMode = "NONE"

-----------------------------------------------------------------------------
(* Mutant: the event set is assigned, and forgets what was pending. *)
Send_Assigns(bit) ==
  IF rpc = "wait"
    THEN e' = {bit} /\ rpc' = "mode" /\ UNCHANGED events
    ELSE events' = {bit} /\ UNCHANGED <<e, rpc>>

(* rt_event_send: a thread waiting for the bit is handed it and made ready, *)
(* which takes the bit out of the set again.                                *)
Send(bit) ==
  IF rpc = "wait"
    THEN e' = {bit} /\ rpc' = "mode" /\ UNCHANGED events
    ELSE events' = events \cup {bit} /\ UNCHANGED <<e, rpc>>

(* The caller: heartbeat's load and on_event, and the rgb shell command. *)
StartCommand ==
  /\ calls = <<>>
  /\ issued < MaxCommands
  /\ calls' \in Commands
  /\ issued' = issued + 1
  /\ UNCHANGED <<led_mode, rgb_color, events, e, rpc, driverVars, lastMode>>

ws_set_color ==
  /\ calls # <<>> /\ Head(calls).set = "color"
  /\ rgb_color' = Head(calls).hue
  /\ Send("COLOR")
  /\ calls' = Tail(calls)
  /\ UNCHANGED <<led_mode, driverVars, issued, lastMode>>

ws_set_mode ==
  /\ calls # <<>> /\ Head(calls).set = "mode"
  /\ led_mode' = Head(calls).mode
  /\ Send("MODE")
  /\ calls' = Tail(calls)
  /\ lastMode' = Head(calls).mode
  /\ UNCHANGED <<rgb_color, driverVars, issued>>

ws_set_period ==
  /\ calls # <<>> /\ Head(calls).set \in {"breathe_period", "blink_period"}
  /\ Send(IF Head(calls).set = "breathe_period"
            THEN "BREATHE_PERIOD" ELSE "BLINK_PERIOD")
  /\ calls' = Tail(calls)
  /\ UNCHANGED <<led_mode, rgb_color, driverVars, issued, lastMode>>

-----------------------------------------------------------------------------
(* The timers' callbacks, in the tick interrupt.                            *)

Show(c) == now_color' = c /\ led' = c

(* rgb_led_breathe_loop while breathing. *)
BreatheTick ==
  /\ breathe_on
  /\ cfg.flag \in {0, 1}
  /\ cfg' = CASE cfg.flag = 1 /\ cfg.v > 1 -> [cfg EXCEPT !.v = @ - 1]
              [] cfg.flag = 1 /\ cfg.v <= 1 -> [cfg EXCEPT !.v = 0, !.flag = 0]
              [] cfg.flag = 0 /\ cfg.v < VMax - 1 -> [cfg EXCEPT !.v = @ + 1]
              [] cfg.flag = 0 /\ cfg.v >= VMax - 1 ->
                   [cfg EXCEPT !.v = VMax, !.flag = 1]
  /\ Show(Rgb(cfg.h, cfg'.v))
  /\ UNCHANGED <<led_mode, events, e, rpc, breathe_on, blink_on, blink_lit,
                 callerVars>>

(* rgb_led_breathe_loop while fading out, above the minimum. *)
FadeTick ==
  /\ breathe_on
  /\ cfg.flag = 2
  /\ cfg.v > 1
  /\ cfg' = [cfg EXCEPT !.v = @ - 1]
  /\ Show(Rgb(cfg.h, cfg'.v))
  /\ UNCHANGED <<led_mode, events, e, rpc, breathe_on, blink_on, blink_lit,
                 callerVars>>

(* Mutant: the level wraps at the minimum instead of ending the fade. *)
FadeEnd_Wraps ==
  /\ breathe_on
  /\ cfg.flag = 2
  /\ cfg.v <= 1
  /\ cfg' = [cfg EXCEPT !.v = VMax]
  /\ Show(Rgb(cfg.h, VMax))
  /\ UNCHANGED <<led_mode, events, e, rpc, breathe_on, blink_on, blink_lit,
                 callerVars>>

(* Its last tick stops the timer and asks for HOLDOFF, whatever mode is set. *)
FadeEnd ==
  /\ breathe_on
  /\ cfg.flag = 2
  /\ cfg.v <= 1
  /\ cfg' = [cfg EXCEPT !.v = 0]
  /\ breathe_on' = FALSE
  /\ led_mode' = "HOLDOFF"
  /\ Send("MODE")
  /\ UNCHANGED <<now_color, led, blink_on, blink_lit, callerVars>>

BlinkTick ==
  /\ blink_on
  /\ blink_lit' = ~blink_lit
  /\ Show(IF blink_lit THEN Full(rgb_color) ELSE Black)
  /\ UNCHANGED <<led_mode, events, e, rpc, breathe_on, blink_on, cfg, callerVars>>

Interrupt == BreatheTick \/ FadeTick \/ FadeEnd \/ BlinkTick

-----------------------------------------------------------------------------
(* The rgb thread, which runs while its caller is not in a command.         *)
RgbRuns(at) == calls = <<>> /\ rpc = at

(* rt_event_recv(OR | CLEAR, forever). *)
Receive ==
  /\ RgbRuns("recv")
  /\ IF events # {}
       THEN e' = events /\ events' = {} /\ rpc' = "mode"
       ELSE rpc' = "wait" /\ UNCHANGED <<e, events>>
  /\ UNCHANGED <<led_mode, driverVars, callerVars>>

NoModeChange ==
  /\ RgbRuns("mode")
  /\ "MODE" \notin e
  /\ rpc' = "period"
  /\ UNCHANGED <<led_mode, events, e, driverVars, callerVars>>

(* BREATHE and FADEOUT first set the direction ... *)
ModeDirection ==
  /\ RgbRuns("mode") /\ "MODE" \in e
  /\ led_mode \in {"BREATHE", "FADEOUT"}
  /\ cfg' = [cfg EXCEPT !.flag = IF led_mode = "BREATHE" THEN 1 ELSE 2]
  /\ rpc' = "level"
  /\ UNCHANGED <<led_mode, events, e, now_color, led, breathe_on, blink_on,
                 blink_lit, callerVars>>

(* ... then the level and the hue, from now_color, and start the timer. *)
ModeLevel ==
  /\ RgbRuns("level")
  /\ cfg' = [cfg EXCEPT !.v = IF cfg.flag = 2 THEN now_color.v ELSE 0,
                        !.h = now_color.hue]
  /\ blink_on' = FALSE /\ breathe_on' = TRUE
  /\ rpc' = "period"
  /\ UNCHANGED <<led_mode, events, e, now_color, led, blink_lit, callerVars>>

ModeBlink ==
  /\ RgbRuns("mode") /\ "MODE" \in e
  /\ led_mode = "BLINK"
  /\ now_color' = Full(rgb_color)
  /\ blink_on' = TRUE /\ breathe_on' = FALSE
  /\ rpc' = "period"
  /\ UNCHANGED <<led_mode, events, e, led, blink_lit, cfg, callerVars>>

(* HOLDLIGHT asks itself for the colour to be shown. *)
ModeHoldLight ==
  /\ RgbRuns("mode") /\ "MODE" \in e
  /\ led_mode = "HOLDLIGHT"
  /\ now_color' = Full(rgb_color)
  /\ blink_on' = FALSE /\ breathe_on' = FALSE
  /\ events' = events \cup {"COLOR"}
  /\ rpc' = "period"
  /\ UNCHANGED <<led_mode, e, led, blink_lit, cfg, callerVars>>

(* HOLDOFF resets now_color ... *)
ModeHoldOff ==
  /\ RgbRuns("mode") /\ "MODE" \in e
  /\ led_mode = "HOLDOFF"
  /\ now_color' = Full(rgb_color)
  /\ rpc' = "off_blink"
  /\ UNCHANGED <<led_mode, events, e, led, breathe_on, blink_on, blink_lit, cfg,
                 callerVars>>

(* Mutant: the LED is cleared first and the timers are stopped then. *)
HoldOff_ClearFirst ==
  /\ \/ /\ RgbRuns("off_blink")
        /\ Show(Black)
        /\ rpc' = "off_breathe"
        /\ UNCHANGED <<breathe_on, blink_on>>
     \/ /\ RgbRuns("off_breathe")
        /\ blink_on' = FALSE
        /\ rpc' = "off_clear"
        /\ UNCHANGED <<now_color, led, breathe_on>>
     \/ /\ RgbRuns("off_clear")
        /\ breathe_on' = FALSE
        /\ rpc' = "holdoff"
        /\ UNCHANGED <<now_color, led, blink_on>>
  /\ UNCHANGED <<led_mode, events, e, blink_lit, cfg, callerVars>>

(* ... stops one timer, then the other, and only then clears the LED, with   *)
(* the interrupt free to tick in between, and sleeps 20 ms ...               *)
HoldOff ==
  /\ \/ /\ RgbRuns("off_blink")
        /\ blink_on' = FALSE
        /\ rpc' = "off_breathe"
        /\ UNCHANGED <<now_color, led, breathe_on>>
     \/ /\ RgbRuns("off_breathe")
        /\ breathe_on' = FALSE
        /\ rpc' = "off_clear"
        /\ UNCHANGED <<now_color, led, blink_on>>
     \/ /\ RgbRuns("off_clear")
        /\ Show(Black)
        /\ rpc' = "holdoff"
        /\ UNCHANGED <<breathe_on, blink_on>>
  /\ UNCHANGED <<led_mode, events, e, blink_lit, cfg, callerVars>>

(* ... before it stops the transfer. *)
HoldOffStop ==
  /\ RgbRuns("holdoff")
  /\ rpc' = "period"
  /\ UNCHANGED <<led_mode, events, e, driverVars, callerVars>>

ModeNone ==
  /\ RgbRuns("mode") /\ "MODE" \in e
  /\ led_mode = "NONE"
  /\ blink_on' = FALSE /\ breathe_on' = FALSE
  /\ rpc' = "period"
  /\ UNCHANGED <<led_mode, events, e, now_color, led, blink_lit, cfg, callerVars>>

(* The two period changes only set how often the timers tick. *)
Period ==
  /\ RgbRuns("period")
  /\ rpc' = IF "COLOR" \in e THEN "color" ELSE "recv"
  /\ UNCHANGED <<led_mode, events, e, driverVars, callerVars>>

(* A colour change resets now_color ... *)
ColorReset ==
  /\ RgbRuns("color")
  /\ now_color' = Full(rgb_color)
  /\ rpc' = "hue"
  /\ UNCHANGED <<led_mode, events, e, led, breathe_on, blink_on, blink_lit, cfg,
                 callerVars>>

(* ... from which breathing takes its hue ... *)
ColorBreathe ==
  /\ RgbRuns("hue")
  /\ led_mode = "BREATHE"
  /\ cfg' = [cfg EXCEPT !.h = now_color.hue]
  /\ rpc' = "recv"
  /\ UNCHANGED <<led_mode, events, e, now_color, led, breathe_on, blink_on,
                 blink_lit, callerVars>>

(* ... which blinking does not need, and which every other mode shows. *)
ColorBlink ==
  /\ RgbRuns("hue")
  /\ led_mode = "BLINK"
  /\ rpc' = "recv"
  /\ UNCHANGED <<led_mode, events, e, driverVars, callerVars>>

ColorShow ==
  /\ RgbRuns("hue")
  /\ led_mode \notin {"BREATHE", "BLINK"}
  /\ Show(Full(rgb_color))
  /\ rpc' = "recv"
  /\ UNCHANGED <<led_mode, events, e, breathe_on, blink_on, blink_lit, cfg,
                 callerVars>>

HandleMode ==
  \/ NoModeChange
  \/ ModeDirection
  \/ ModeLevel
  \/ ModeBlink
  \/ ModeHoldLight
  \/ ModeHoldOff
  \/ HoldOff
  \/ HoldOffStop
  \/ ModeNone

HandleColor == ColorReset \/ ColorBreathe \/ ColorBlink \/ ColorShow

RgbThread == Receive \/ HandleMode \/ Period \/ HandleColor

Caller == ws_set_color \/ ws_set_mode \/ ws_set_period

LedNext ==
  \/ StartCommand
  \/ Caller
  \/ Interrupt
  \/ RgbThread

(* Callers finish what they started, the rgb thread runs when the others    *)
(* sleep, and a started timer ticks; nobody has to issue a command.         *)
LedSpec ==
  /\ LedInit /\ [][LedNext]_ledVars
  /\ WF_ledVars(Caller) /\ WF_ledVars(RgbThread) /\ WF_ledVars(FadeTick \/ FadeEnd)

-----------------------------------------------------------------------------
(* Properties.                                                              *)
LedTypeOK ==
  /\ led_mode \in Modes /\ lastMode \in Modes
  /\ rgb_color \in Hues \cup {NoHue}
  /\ events \in SUBSET Bits /\ e \in SUBSET Bits
  /\ rpc \in {"recv", "wait", "mode", "level", "off_blink", "off_breathe",
             "off_clear", "holdoff", "period", "color", "hue"}
  /\ now_color \in Colour /\ led \in Colour
  /\ breathe_on \in BOOLEAN /\ blink_on \in BOOLEAN /\ blink_lit \in BOOLEAN
  /\ cfg \in [flag : 0..2, v : 0..VMax, h : Hues \cup {NoHue}]
  /\ calls \in Seq(Call) /\ issued \in 0..MaxCommands

(* Every command given has been handled and no new one is under way. *)
Settled == calls = <<>> /\ rpc = "wait"

(* Once everything is handled the timers that run are those the mode needs, *)
(* although the interrupt and the callers change the mode while the thread  *)
(* is handling an earlier one: no mode change is ever dropped.              *)
TimersMatchMode ==
  Settled => /\ breathe_on <=> led_mode \in {"BREATHE", "FADEOUT"}
             /\ blink_on <=> led_mode = "BLINK"

(* HOLDOFF leaves no frame of a breath, a fade or a blink on the LED: it is  *)
(* dark, or shows the colour last asked for (see DarkInHoldOff).  A tick of  *)
(* either timer after the clear would leave one for good, so both must be    *)
(* stopped before it, and no mode may start them behind its back.            *)
HoldOffLeavesNoFrame ==
  Settled /\ led_mode = "HOLDOFF" => led \in {Black, Full(rgb_color)}

(* A fade ends: FADEOUT never stays on, whatever the interleaving.          *)
FadeTerminates == led_mode = "FADEOUT" ~> led_mode # "FADEOUT"

(* heartbeat.c: the breathing that announces a message.  Once asked for, it *)
(* is what the LED does until a caller asks for something else.             *)
NotificationBreathes == Settled /\ lastMode = "BREATHE" => led_mode = "BREATHE"

(* ws2812b.c: HOLDOFF is the mode in which the LED is off. *)
DarkInHoldOff == Settled /\ led_mode = "HOLDOFF" => led = Black

(* ws2812b.c: a colour change while breathing changes the breathing colour. *)
BreathesInColour == Settled /\ led_mode = "BREATHE" => cfg.h = rgb_color
=============================================================================
