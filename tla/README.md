# LizCubic in TLA+

A verification development for the firmware of LizCubic
(`src/firmware/LizCubic`), a desk cube with an STM32F412, a 4G modem, an LCD
driven by LVGL and an RGB LED, on RT-Thread. A cube shows weather, a music
spectrum, an anniversary and the HeartBeat page; tilting it changes the page,
and tilting it forward sends a heartbeat to the other cube over MQTT.

The modules state what the program's threads, interrupts and callbacks do to
its shared state, TLC checks them on small instances, and TLAPS proves part of
it for every instance. The reference for every definition is the code;
`PROJECT.json` names, under `map`, the lines each definition stands for.

Contents: 1 the system · 2 modules · 3 runs and bounds · 4 fairness ·
5 proofs · 6 disagreements found · 7 not modelled · 8 plan

## 1. The system

RT-Thread schedules strictly by priority (a smaller number runs first). The
threads: `liz_init` 2, `liz` 9 (the application loop), `lvgl` 11, `adc_fft` 15,
`sim76_net` 16 (modem bring-up), `imu` 18, `weather` 19, the system work queue
23, `rgb` 30, the link check of the modem 30, the MQTT client and the AT
client's parser, and the tick interrupt, in which hard timers run.

| component | state it keeps | operations | interacts with |
|---|---|---|---|
| controller (`sys/app_controller.c`, loop in `liz_app.c`) | `appList`, current, previous and interrupting index, `app_change_flag`, `act_info` | register, init, load, process; tilt, message | IMU (polls), MQTT thread (sets `act_info.inter`), applications (callbacks) |
| HeartBeat (`app/hearbeat`) | `send_cnt`, `recv_cnt`, `need_del_inter` | load, `on_event`, `exit_callback` | controller, LED, MQTT publish |
| RGB LED (`bsp/WS2812B`) | mode, colour, event set, two timers, brightness | setters; `rgb` thread; timer callbacks | HeartBeat; tick interrupt |
| spectrum (`bsp/ADC_FFT`, `app/spectrum`) | flag, semaphore, sampling timer, worker threads | start, stop, DMA callback, worker loop | controller (load, exit); interrupts |
| modem sockets (`port/A7680C/at_socket_sim76xx.c`) | AT lock, event set, table of addresses, socket states | connect, send, close; URC handlers | modem, AT client, AT socket layer |
| modem bring-up (`port/A7680C/at_device_sim76xx.c`, `network/network.c`) | attempt, `parsed_data`, `network_status`, link flag | bring-up thread, link thread, notifications | boot thread, MQTT client, modem |
| MQTT glue (`network/liz_mqtt.c`) | `is_started`, `is_online` | start, publish, callbacks | link flag, broker (paho package) |
| background work (`app/weather`, `sys/sys_ntp.c`, work queue) | `info_update_bitmap`, `weaInfo`, the queue, the delays | weather thread, download job, clock job, page timer | controller, boot wait, modem |
| LCD (`bsp/LCD`, `lv_port_disp.c`) | DMA stream, flushing flag, two draw buffers, window and cursor of the panel | flush, address, fill, row by row transfer, DMA interrupt | LVGL |
| gestures (`bsp/IMU`, `liz_bsp.c`) | `imu`, written field by field | imu thread; `imu_get_move_dir` | controller (polls) |
| clock (`rtc.c`, `drv_rtc.c`, `time.c`, `sim76xx_ntp_sync`) | the clock chip's date and time, written in two halves | `set_date`, `set_time`, conversions, synchronisation | work queue, modem, anniversary page |
| anniversary (`app/anniversary`) | target date, the label | load, leave, `dateDiff` | controller, clock |
| settings (`kvdb`) | the cube's role | get with default | MQTT glue |
| light sensor, colour gradient | none worth checking | one reading, one duty cycle; interpolation | LCD back light, spectrum page |

What is hard here, and what makes each component correct, is listed line by
line under `hazards` in `PROJECT.json`. In short: flags shared by threads
without locks, interrupts that restart what a thread stops, answers of the modem
that arrive late, one buffer used for several answers, a page that is left while
its worker runs, boot waits without a time-out, a buffer handed to the DMA while
LVGL draws, a clock that is set in two halves, and two cubes that only hear each
other while both sessions with the broker are open.

## 2. Modules

| module | models | abstracted |
|---|---|---|
| `Carousel` | the abstract promise: a ring of pages, one overlay that can be raised and dismissed | - |
| `AppController` | registration, boot waits, the main loop (poll, dispatch, apply), `switch_to_next_app`, `switch_to_inter_app`, debouncing, the message flag | what an application draws |
| `HeartbeatApp` | EXTENDS `AppController`: load, `on_event`, the counters (modulo `CntMod`), LED mode asked for, publishing on- and offline; history variables remember what was really sent and received and what brought the page up | pictures |
| `Gesture` | EXTENDS `AppController`: the hand, the imu thread that copies the attitude one field after the other, `imu_get_move_dir` and `liz_bsp_get_act_info` as the loop's poll | the fusion that computes the angles; attitudes are a small set |
| `RgbLed` | setters, `rt_event_send/recv`, the rgb thread step by step, blink and breathe callbacks in interrupt context | hues are model values, brightness 0..`VMax` |
| `AdcFft` | start and stop, sampling timer, DMA callback, semaphore with its deletion, several generations of workers, those that hang in a failed assertion, the idle thread that frees those that ended | samples, filter, FFT |
| `AtSocket` | connect, send and close of every socket, the AT lock, the shared event bits (with the socket number's bits, as the code forms them), time-outs, the URC handlers, `link_num_addr` with its 30-byte clear | bytes; UDP; DNS |
| `ModemInit` | `sim76xx_init_thread_entry` one AT command at a time, `network_notification`, the link thread, `mqtt_connect_callback`, the boot thread | two registrations in one set of values; 0,6 is 0,5 |
| `SystemWork` | the work queue with its delays and its dropped submissions, the weather thread, the download, the clock job, the page timer, the boot wait; reads and writes of the shared byte as separate steps where the priorities let another thread in between | replies; `weaInfo` is two fields |
| `LcdFlush` | LVGL's two buffers, `disp_flush`, `lcd_address_set`, `lcd_fill_array`, the DMA stream row by row, its interrupt, a transfer that fails | a row is one pixel; LVGL as `lv_port_disp.c` relies on it |
| `BeatChannel` | the abstract promise between two people: a beat reaches the other cube at most once, never its sender, and is lost only if the two are not both connected, before or after the loss | - |
| `HeartLink` | two cubes: `liz_mqtt_start`, the three callbacks, publishing in two steps (check and pipe), the subscription callback; a broker with clean sessions that throws out a second client of a name | paho's own protocol; payload |
| `Calendar` | `gmtime_r`, `timegm` and `dateDiff` against a day-after rule | time of day |
| `SystemClock` | `sim76xx_ntp_sync` setting the chip through `set_date` and `set_time` in four writes, local time, a world and a chip that count on between any two steps, the anniversary page | a day has three parts of eight hours |

`MC...` modules give the constants values; `..._proofs` hold the theorems
(`AppController_proofs` those of `HeartbeatApp` and `Gesture` too,
`Drivers_proofs` those of `LcdFlush` and `RgbLed`). Two
abstract specifications are PROPERTIES of the detailed ones, each an INSTANCE
with a refinement mapping. `ImplementsCarousel` of `AppController`: the page is
the current index, or the one the overlay was raised from. `ImplementsChannel`
of `HeartLink`: a beat is on its way from the moment it is in the pipe until the
flag of the other cube is set, and the two are connected when both sessions are
open and subscribed.

Who composes whom: `Gesture` and `HeartbeatApp` stand on `AppController` (the
sensor and the application under the same loop), `SystemClock` on `Calendar`,
`HeartLink` joins two clients and the broker, and `ModemInit` joins bring-up,
link thread, client and boot. The other modules share no variable; where they
touch, the side that is not theirs is an environment action (`LinkFlips` in
`SystemWork`, the setter calls in `RgbLed`).

Conventions. An action is what the code does between two points where another
thread or an interrupt can see or change what it touches; a process with a
`pc` (or `at`) goes through the places of its loop. Names are the source's.
Operators marked *Mutant* are faulty variants of the definition that follows
them; they are not part of any specification, and show which mistake each
property notices.

Environment actions (what the modem answers, which tilt is read, when a
message comes) are free except for the bounds below.

## 3. Runs and bounds

Passing runs:

| run | question | instance | states |
|---|---|---|---|
| `gesture` | one screen, no null callback, tilts spaced, messages shown, implements `Carousel`; a cube held tilted keeps turning pages, one put down stops | the four applications and the thresholds of the product, five attitudes, a hand that moves at any time, 3 passes of 140 ms | 172 k |
| `heartbeat` | the LED is told to breathe while the page is up exactly for a message not answered yet; the screen tells what was sent and received | as above with short debounce, counters modulo 3 so that they wrap | 251 k |
| `led` | timers agree with the mode, hold-off leaves no frame behind, fades end | any 3 setter calls of all kinds, 2 hues, brightness 0..2 | 155 k |
| `fft` | one window in flight, one worker that goes on, workers end or hang, spectrum moves | memory for 3 threads, unlimited starts and stops, 3 samples a window | 1.5 k |
| `sockets` | nobody acts on another's answer, events left clean | 3 sockets, 2 servers, 3 operations, answers in time | 1.1 M |
| `sockets_lock` | the AT lock is always released | 2 sockets, answers late or missing | 319 k |
| `modem` | boot ends on a settled answer, SIM and attachment were confirmed, the client recovers | 2 attempts of 2 tries, 3 bad answers, 2 moves of the registration, 1 broken connection | 39 k |
| `work` | no outdated weather, no lost job, downloads succeed, boot wait ends | weather and clock job, 2 failures, 1 link change, 1 return to the page | 160 k |
| `lcd` | bus and buffer left alone during a transfer, the panel shows the frame, frames end | 3 rows, buffers of 2, 2 pictures, 1 failing transfer | 59 k |
| `link` | implements `BeatChannel`, a beat in a settled connection is felt, a cube gets online again | one cube of each role, 2 beats each, 3 breaks, refusals or link changes | 59 k |
| `clock` | days counted right, conversions agree, a synchronisation during which the chip's date does not change leaves the clock right, any other a bounded error | 5 corner dates, the chip wrong by up to 2 days either way | 276 k |

Every detailed specification has a type invariant, and each is a theorem (section
5); those of `Gesture`, `HeartLink` and `SystemClock` are among a run's
properties as well. The inductive invariants of the proofs were checked on the
instances of the runs before they were proved.

Why the bounds suffice. The controller's state is finite without bounds; in
`gesture` the loop sleeps 140 ms and debounces 3 passes (420 ms) instead of 40 ms
and 12 passes, the least that still makes a tilt wait for the 400 ms of the
loop's comment: with the code's values the same properties pass for four of the
five attitudes (362 k states), and `TiltsSpaced` is proved for every value. Two
attempts, two tries and three bad answers in `modem` are enough for every
combination of "first attempt leaves a value behind, second attempt reads it".
Three sockets are the fewest whose event bits overlap (1, 2 and 3 share bits).
Three thread objects in `fft` are enough for a worker that goes on beside one or
two that hang, and for visits without a worker once all memory is held. A failed
assertion keeps only the worker that made it in a loop (`rt_assert_handler`). It
has priority 15: the threads above it (`liz` 9, `lvgl` 11) and the interrupts go
on, a later worker shares its priority by time slices, and the idle thread, which
frees ended threads, gets no time any more. That the imu, weather and rgb threads
starve too is outside the module, but nothing in it needs them: starts and stops
stay free. `adc_fft_start` comes at the pace of a person tilting the cube, two
screen loads of half a second after the stop; action `adc_fft_start` therefore
requires `Rested`, unless `Overlap`. The race of a stop with a running worker is in
the model either way. What a start at once would find is in section 6
(`MCAdcFftOverlap.cfg`).
`SystemWork`'s counters of rounds only decide when a job is asked for. In `led`
the property that fails (section 6) needs two calls; three leave room for one
more. In `lcd` the panel is one and a half buffers high, so that a frame takes a
full part and a short one, and both buffers are in use at once. In `link` two
beats show one lost and one delivered, and three breaks one for each cube and one
more while the other is away. The dates of `clock` are the product's target date,
the ends of a 28-, 29- and 30-day month, and the last day before the years the
modem's answer begins with; the theorems cover every other date.

`CHECK_DEADLOCK FALSE` appears where a bounded model (`AtSocket`, `RgbLed`,
`HeartLink`), a display that waits for ever after a failed transfer (`LcdFlush`), or
a program that has finished its boot (`ModemInit`) really stops.

Runs that end in a counterexample, one property each, are in section 6.

## 4. Fairness

Weak fairness of a thread says that a thread that can run does in the end. The
scheduler guarantees it because every thread of a higher priority sleeps in each
round of its loop. Interrupts (`AdcFft`, `RgbLed`) are fair since the timer
runs. Beyond that:
- `ModemInit`: `BootEnds` takes weak fairness of the whole bring-up thread, which
  covers the two waits for the modem's status pin; that the modem obeys its power
  pin is an assumption. The bad answers are bounded; refusals ("no SIM", "not
  registered") are not.
- `SystemWork`: strong fairness of the work queue, because the weather thread
  takes the processor from it again and again; its rounds are 100 ms apart. The
  work of one delay is fair by itself. Failed downloads and synchronisations are
  bounded, and the properties ask for a link that stays up. Nothing obliges the
  user to load or leave the page.
- `AtSocket`: every socket's thread is fair, each wait has a time-out; nothing
  obliges the modem to answer.
- `AppController`: the `liz` thread is fair; nobody tilts the cube fairly. In
  `Gesture` the imu thread is fair too: the loop outranks it but sleeps after
  every pass.
- `LcdFlush`: the lvgl thread, and the DMA stream, which moves by itself once
  started. Neither a new drawing nor a fault is fair.
- `HeartLink`: the client thread of each cube, the pipe, the broker's forwarding
  and the caller of `liz_mqtt_start`. Breaks are bounded; beats are not obliged to
  be sent.
- `SystemClock` and `Calendar` have no liveness property.
- `RgbLed`: the caller, the rgb thread and the fading timer.
- `AdcFft`: each worker, also beside one that spins at the same priority, which
  gets its time slice and no more; a start or stop that has begun. Nobody is
  obliged to enter or leave the page.

## 5. Proofs

Eight modules end in `_proofs`; TLAPS checks all of them to the last leaf. They
hold for every value of the constants that the named ASSUMEs of the component's
module allow.

| module | theorem | establishes |
|---|---|---|
| `AppController_proofs` | `TypeCorrect`, `OneScreenAlways`, `CallbacksAlwaysPresent` | the controller's invariants, for any list of at least two applications that fits the table; the third given the callbacks the product registers |
| | `TiltsSpaced` | the action property `TiltSpacing`, for every debounce time that satisfies `SettleAssumption` |
| | `CarouselImplemented` | `AppController` implements `Carousel` |
| | `HbTypeCorrect`, `BreathingAlwaysAnnounces`, `ScreenAlwaysTells` | the type invariant of `HeartbeatApp` and the properties of `heartbeat`, for every `CntMod` |
| | `GestureTypeCorrect`, `GestureOneScreen`, `GestureCallbacksPresent`, `GestureTiltsSpaced`, `GestureImplementsCarousel` | the safety properties of `gesture`, for any attitudes and thresholds |
| `Drivers_proofs` | `TypeCorrect`, `BusIsQuiet`, `PanelAlwaysShowsFrame` | the invariants of `lcd`, for every height of panel and buffers and any number of faults |
| | `LedTypeCorrect`, `TimersAlwaysMatchMode`, `HoldOffLeavesNoFrameAlways` | the invariants of `led`, for any lists of setter calls, colours and brightness |
| `AtSocket_proofs` | `TypeCorrect` | the driver's types, for up to ten sockets (the driver's table), with answers in time, late or missing |
| | `OwnAnswerAlways`, `CleanSlateAlways` | the invariants of `sockets`, for any number of operations and lines, given `~Late` |
| `HeartLink_proofs` | `LinkTypes`, `ChannelImplemented` | `HeartLink` implements `BeatChannel`, for all roles and any number of beats and breaks |
| `SystemClock_proofs` | `TypeCorrect`, `CountsDaysAlways` | every date is one the calendar has, and the page counts days right, for every target date |
| | `SyncSetsAlways`, `BoundedErrorAlways` | the invariants of `clock` about a synchronisation, for every target date and wherever chip and world stand |
| | `ConversionsAgreeAlways` | `timegm` counts the calendar's days and `gmtime_r` gives its date back, given a chip whose calendar begins in 1970 or later (the product's begins in 2000) |
| `AdcFft_proofs` | `OneWindowAlways`, `OneWorkerAlways` | the invariants of `fft`, for any number of threads and samples, given `~Overlap` |
| | `TypeCorrect`, `AssertsOnlyAfterStop` | the types; and the kernel's assertion, which does fail (section 6), never fails while a visit lasts, whenever a start comes |
| `ModemInit_proofs` | `TypeCorrect`, `SimAndAttachAlwaysSeen`, `StartAlwaysKnows` | the invariants of `modem`, for any number of attempts, tries and bad answers |
| `SystemWork_proofs` | `TypeCorrect`, `WeatherAlwaysFresh`, `NothingEverForgotten` | the invariants of `work`, for all intervals and any number of failures and changes |

Some theorems have a hypothesis besides the named assumptions. `~Late` says that
the modem answers a request before the driver's wait for it ends; without it
`OwnAnswer` is false, which `MCAtSocketStale.cfg` shows (section 6). So the
theorem says what the violation says, from the other side: a late answer is the
only way for a socket to act on another's. `~Overlap` says that a start of the
spectrum finds the last visit's worker at rest, ended or hung; without it
`OneWindow` and `OneWorker` are false (`MCAdcFftOverlap.cfg`). The hypothesis of
`ConversionsAgreeAlways` is the range in which `timegm` is defined; `DaysAgreeAlways`,
the half of it about `timegm` alone, has the same.

Each component has one inductive invariant, a conjunction of named parts
(`IInv`; `LedInv` for the LED, `ClockInv` and `SyncInv` for the clock), one lemma per action or group of
actions that it is preserved, and its theorems as consequences. What the
strengthening adds, and why it is needed:

- *Controller.* That `exit_callback` is called on the loaded page needs the
  relation between the previous index and the loaded page while a change is
  pending; that `on_event` is never null needs that the interrupting index is the
  last registered application and that it registered with one; that the modulo of
  the ring is safe needs that the controller initialises after registration. The
  HeartBeat theorems reuse this invariant through `EXTENDS` and add the relation
  of the counters to the history variables that count what really happened, and,
  for the lamp (`LampInv`), what each step between a message and the load of the
  page has decided about it.
  `Gesture` needs no more than `GestureStep`: a step of it is a step of the
  controller with some reading of the tilt, or leaves it alone.
- *LED.* `TimersInv`: the timers are those of the last mode the thread handled, or
  an event for a newer mode is set; on the way through hold-off they are stopped
  one after the other, and `FrameInv` says that from the clear on, while no change
  is pending, the frame is dark or the colour last asked for. That needs both
  stopped before the clear: a tick that comes between the two stops draws a frame,
  and the clear wipes it out. Between the choice
  of a fade's direction and its level (`rpc = "level"`) it says only that the mode is
  one of the two that fade, whose timer is about to start. It needs that the thread
  sleeps only with no event left.
- *Sockets.* `Holding`: who holds the AT lock is inside connect or send, and
  nobody else is. `Underway`: there is at most one answer on its way, owed by the
  modem or in a line, and it is the holder's. `Stage`: what the shared events hold
  at each place of the holder, between "nothing" and "the bits of this socket and
  one result of this kind of request". That two sockets share bits then does no
  harm, because only one of them waits.
- *LCD.* `Handshake`: inside `disp_flush` the stream is at rest and the flag is
  up. `Transfer`: a running transfer reads the part that was addressed, the panel's
  cursor is as far as the rows sent, and what it sent is what LVGL drew, but for
  rows to be redrawn.
- *Two cubes.* `TwoNames`: two open sessions mean two client names, so two roles,
  so each topic has the other cube for its audience. `Counted`: every beat in the
  pipe, at the broker or about to be handed over was published once.
- *Clock.* `CountsDays` is a fact about `dateDiff`'s formula, which has no
  induction in it: four lemmas show that the day after adds one to it, within a
  month, over a month's end and over a year's. `DatesCounted` then carries the
  right number along with every date in flight (chip, answer, half-written), and
  keeps each far enough above the first year for its day before to exist. For the
  synchronisation a moment is a number of parts, in which the next one is one more
  (`LaterNum`), and `SyncInv` says how far world, answer, chip and what is to be
  written are apart at each step: the date that `set_time` reads back is off by at
  most one day in either direction, the second pair of halves loses one more at
  most, and neither without a change of the chip's date. `SyncSets` compares dates,
  not numbers; it needs that the formula numbers no two dates alike
  (`SerialInjective`). `gmtime_r`'s loop over the years is a recursive function, and
  the provers cannot instantiate the library's induction theorems. `YearAndRest` is
  therefore given in closed form (`Closed`, the year that contains the day and what
  is left of it), which solves the recursion (`LoopDefined`), and is its only
  solution: of the numbers of days at which another differed there would be a least
  one (`LeastNat`, from the well-foundedness of `<`), and one year less differs too
  (`YearAndRestIs`). The rest is a table of months (`MonthSpans`, `MonthUnique`) and the
  29th of February (`RoundTrip`).
- *Spectrum.* `Token`: timer, semaphore and worker pass one token round. `Lone`: one
  worker that can go on. `Phase`: what each place of the application's thread says of
  flag, semaphore and workers. A hung worker holds no token and touches nothing any
  more; that it hangs only after a stop needs no more than `SemKnown`, the places at
  which the semaphore exists.
- *Bring-up.* `Evidence`: `parsed_data` does not say "attached" when the
  attachment is asked for, so a missing line cannot pass for an answer. `Told`: nobody hears of
  the link before the attempt that has it is over.
- *Work queue.* `Queued`: a work is listed once and never both delayed and
  listed. This rests on lemmas about the list operations (`WithoutKeeps`,
  `AppendKeeps`, `TailKeeps`). `NoLostBit`: what the weather thread has read of
  the bitmap is not older than the weather's bit, which its priority above the
  work queue gives.

Only model-checked: all liveness, `MessageShown`,
`HeldTurns`, `AtRestQuiet`, `FadeTerminates`, `WorkerEnds`, `SpectrumMoves`,
`LockReleased`, `BootEnds`, `ClientRecovers`, `DownloadSucceeds`, `BootWaitEnds`,
`FrameEnds`, `BeatArrives` and `Reconnects`: the prover has neither liveness under
fairness nor ENABLED.

## 6. Disagreements between the code and what it says

Each row is a property that states what a comment, a document or an assertion
says (or, where nothing does, what the code plainly aims at), and that TLC refutes
with a trace of the code. The first is a run of the project, and `findings` in
`PROJECT.json` quotes its line. The others are run by hand,
`tlc -config <cfg> <module>`; where a configuration lists several properties TLC
reports the first, and commenting it out shows the next. `hazards` names each at
its line.

| configuration, module | property | what happens |
|---|---|---|
| `MCAdcFftAssert.cfg`, `MCAdcFft` (run `fft_assert`) | `NeverAsserts` | the page is left between the worker's test of its flag and `rt_sem_take`, whose assertion fails on the deleted semaphore |
| `MCAdcFftOverlap.cfg`, `MCAdcFft` | `OneWindow`, `OneWorker` | a start at once after a stop finds the last worker at work: two windows in flight, two workers in the global buffers of the FFT |
| `MCRgbLedFails.cfg`, `MCRgbLed` | `NotificationBreathes` | the end of a fade wipes out a message's breathing |
| | `DarkInHoldOff` | a colour change handled together with hold-off lights the LED |
| | `BreathesInColour` | a breathe tick in the middle of a colour change undoes it |
| `MCAtSocketRoute.cfg`, `MCAtSocket` | `DeliveredToOwner` | an empty row of the table matches every address |
| | `TableCorresponds` | closing a link clears 30 bytes of its 25-byte row, and the address of the next |
| `MCAtSocketStale.cfg`, `MCAtSocket` | `OwnAnswer` | a late answer decides a later request |
| `MCModemInitFails.cfg`, `MCModemInit` | `RegisteredIsEvidence` | the answer to one query passes for the next |
| | `RegisteredConnects` | bring-up accepts a roaming SIM, the link thread does not, and the MQTT client waits for ever |
| `MCHeartbeatWrap.cfg`, `MCHeartbeatApp` | `HeartIffBoth` | 256 sends wrap the counter to "nothing sent" |
| `MCHeartbeatLost.cfg`, `MCHeartbeatApp` | `EverySendPublished` | a send while offline is shown as sent |
| | `EveryMessageCounted` | two messages within one pass count as one |
| `MCSystemWorkFails.cfg`, `MCSystemWork` | `FreshTime` | an update of the clock label is lost in the bitmap |
| | `SuccessMeansNtp` | a synchronisation whose `AT+CNTP` failed reports success |
| `MCSystemClockFails.cfg`, `MCSystemClock` | `SuccessMeansRight` | a midnight of the chip while it is being set leaves it a day off |
| | `DaysTogether` | once the target date has passed the label shows the days with a minus sign |
| `MCLcdFlushError.cfg`, `MCLcdFlush` | `ReadyCalled` | after a failed transfer nobody calls `lv_disp_flush_ready`, and LVGL waits for ever |
| `MCHeartLinkFactory.cfg`, `MCHeartLink` | `Reconnects` | two cubes with the default role throw each other out at the broker |
| `MCGestureTorn.cfg`, `MCGesture` | `GestureMeasured` | pitch of one sample and roll of another make a gesture that the hand never made |

`MCCalendar.cfg` is by hand too, and passes: a day-by-day walk from 1970 to 2600
through the three conversions (230 k days).

## 7. Not modelled

- LVGL, paho MQTT, webclient, FlashDB and LittleFS are packages outside the
  repository. LVGL is called from two threads without a lock; the models assume
  that each call is whole.
- Layout, fonts, pictures, the FFT's arithmetic, the LED's waveform: data.
- UDP and DNS of the modem, shell commands, a second bring-up from the shell.
- Out of memory, but for the spectrum's threads (`AdcFft`); `rt_sem_create` there
  is taken to succeed. The bring-up thread then ends without a notification and
  the boot does not end; `BootEnds` is about a program that has its memory.
- `date_update` (`anniversary.c:73-77`): nothing calls it, so the page shows, until
  it is loaded again, the days of the moment it was loaded. `LIZ_mqtt_stop`,
  `send_to` and `app_exit` have no caller either.
- The last pixel on the wire: the interrupt of a transfer comes when the DMA has
  handed its last word to the SPI, and raises CS without waiting for the shift
  register (`spi_lcd.c:201-228`); `LcdFlush` takes it for the end of the transfer.
- `Resync` of `SystemWork` submits the clock job and clears `work_current` in one
  step (two in `workqueue.c:82-84`): the submission waits for seconds, so nothing
  can tell them apart.
- The chip's calendar ends in 2099; the model's goes on. The time zone is the
  constant the code has, UTC + 8.
- The light sensor (one reading, one duty cycle) and the colour gradient
  (interpolated colours that are looked at and not computed with).
- Start-up of panel, sensor and pins, and the boot screen's drawing.

The repository also holds the STM32 HAL, RT-Thread, and the tree of packages the
board was generated with, by far the largest part of it. They are vendored; of
them only what the firmware's own logic runs through is modelled (the work queue,
the semaphores and events, the clock driver and the calendar functions of
`time.c`).

## 8. Plan

Done: every module of section 2, in the order `Carousel`, `AppController`,
`HeartbeatApp`, `RgbLed`, `AdcFft`, `AtSocket`, `ModemInit`, `SystemWork`, `LcdFlush`,
`BeatChannel`, `HeartLink`, `Calendar`, `SystemClock`, `Gesture`, and the eight proof modules.

Left, for whoever goes on:
1. An abstract specification of a socket's requests (asked, answered, concluded)
   that `AtSocket` implements while no answer is late; `Stage` of its proof is the
   mapping's core.
2. `AtSocket`: `linkInd` between RECV FROM and +IPD as a property of its own; UDP.
3. A second bring-up while the client of the first lives, which only the shell
   starts today.
