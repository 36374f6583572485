------------------------------- MODULE AdcFft -------------------------------
(***************************************************************************)
(* The life of the spectrum's sampling (bsp/ADC_FFT/adc_fft.c): the            *)
(* application thread starts and stops it, the conversion-complete         *)
(* interrupt ends one window of samples, and a worker thread computes on   *)
(* the window and asks for the next.  They share a flag, the sampling      *)
(* timer and a semaphore that is created and deleted on every visit.       *)
(*                                                                         *)
(* The worker has a lower priority than the application thread and never   *)
(* runs inside its start or stop; the interrupt does.                      *)
(***************************************************************************)
EXTENDS Integers, FiniteSets

CONSTANTS
  Workers,   \* thread objects there is memory for
  FFT_LEN,   \* samples of a window
  Overlap    \* a start may find the last visit's worker still at work

ASSUME AdcAssumption ==
  /\ Workers # {}
  /\ FFT_LEN \in Nat \ {0}
  /\ Overlap \in BOOLEAN

(* The tokens a semaphore is followed up to. *)
MaxTokens == 2

VARIABLES
  app_pc,                \* where the application thread is
  adc_fft_start_flag,
  tim_on,                \* htim2 triggers conversions
  filled,                \* where the circular DMA stands in adc_buffer
  sem_alive, sem_value,  \* the object adc_fft_sem points to
  worker                 \* where each thread of fft_gen_thread is

vars == <<app_pc, adc_fft_start_flag, tim_on, filled, sem_alive, sem_value,
          worker>>

(* Where a thread can be: "stuck" in a failed assertion, "ended" and not yet *)
(* freed, or "none" at all.                                                  *)
Places == {"none", "check", "take", "blocked", "filter", "cal", "enable",
           "stuck", "ended"}

TypeOK ==
  /\ app_pc \in {"away", "start_sem", "start_thread", "start_tim",
                 "shown", "stop_flag", "stop_sem"}
  /\ adc_fft_start_flag \in {0, 1}
  /\ tim_on \in BOOLEAN /\ sem_alive \in BOOLEAN
  /\ filled \in 0..FFT_LEN - 1
  /\ sem_value \in 0..MaxTokens
  /\ worker \in [Workers -> Places]

(* The workers that may still touch what they share: not the memory free for *)
(* another, nor a thread that has ended and waits to be freed, nor one stuck *)
(* in a failed assertion.                                                    *)
Free  == {w \in Workers : worker[w] = "none"}
Stuck == {w \in Workers : worker[w] = "stuck"}
Ended == {w \in Workers : worker[w] = "ended"}
Live  == Workers \ (Free \cup Stuck \cup Ended)

(* After adc_fft_init: the timer is configured and off. *)
Init ==
  /\ app_pc = "away"
  /\ adc_fft_start_flag = 0
  /\ tim_on = FALSE /\ filled = 0
  /\ sem_alive = FALSE /\ sem_value = 0
  /\ worker = [w \in Workers |-> "none"]

-----------------------------------------------------------------------------
(* The idle thread frees a thread that has ended.  It has no time left while *)
(* a worker spins in a failed assertion above it.                            *)
MayReap == Stuck = {} /\ Ended # {}

(* The application thread.  Between a stop and the next start lie at least   *)
(* two screen loads of half a second, most of it slept: a window (25 ms)     *)
(* ends, a worker that can run gets to where it waits, or to its end, and is *)
(* freed.  The code has no such guard: with Overlap a start comes at once.   *)
Rested ==
  /\ ~tim_on /\ ~MayReap
  /\ \A w \in Live : worker[w] = "blocked"

adc_fft_start ==
  /\ app_pc = "away"
  /\ Overlap \/ Rested
  /\ adc_fft_start_flag' = 1
  /\ app_pc' = "start_sem"
  /\ UNCHANGED <<filled, tim_on, sem_alive, sem_value, worker>>

start_sem ==
  /\ app_pc = "start_sem"
  /\ sem_alive' = TRUE /\ sem_value' = 0
  /\ app_pc' = "start_thread"
  /\ UNCHANGED <<filled, adc_fft_start_flag, tim_on, worker>>

(* Without memory for a thread the visit goes on without one. *)
start_thread ==
  /\ app_pc = "start_thread"
  /\ \/ \E w \in Free : worker' = [worker EXCEPT ![w] = "check"]
     \/ Free = {} /\ UNCHANGED worker
  /\ app_pc' = "start_tim"
  /\ UNCHANGED <<filled, adc_fft_start_flag, tim_on, sem_alive, sem_value>>

start_tim ==
  /\ app_pc = "start_tim"
  /\ tim_on' = TRUE
  /\ app_pc' = "shown"
  /\ UNCHANGED <<filled, adc_fft_start_flag, sem_alive, sem_value, worker>>

(* Mutant: the sampling is left on. *)
adc_fft_stop_TimOn ==
  /\ app_pc = "shown"
  /\ app_pc' = "stop_flag"
  /\ UNCHANGED <<adc_fft_start_flag, tim_on, filled, sem_alive, sem_value,
                 worker>>

adc_fft_stop ==
  /\ app_pc = "shown"
  /\ tim_on' = FALSE
  /\ app_pc' = "stop_flag"
  /\ UNCHANGED <<filled, adc_fft_start_flag, sem_alive, sem_value, worker>>

stop_flag ==
  /\ app_pc = "stop_flag"
  /\ adc_fft_start_flag' = 0
  /\ app_pc' = "stop_sem"
  /\ UNCHANGED <<filled, tim_on, sem_alive, sem_value, worker>>

(* Mutant: the object is freed, and whoever waits for it goes on waiting. *)
stop_sem_WakesNobody ==
  /\ app_pc = "stop_sem"
  /\ sem_alive' = FALSE /\ sem_value' = 0
  /\ app_pc' = "away"
  /\ UNCHANGED <<filled, adc_fft_start_flag, tim_on, worker>>

(* rt_sem_delete wakes a waiting thread with an error, which the worker does *)
(* not look at.                                                              *)
stop_sem ==
  /\ app_pc = "stop_sem"
  /\ sem_alive' = FALSE /\ sem_value' = 0
  /\ worker' = [w \in Workers |->
                  IF worker[w] = "blocked" THEN "filter" ELSE worker[w]]
  /\ app_pc' = "away"
  /\ UNCHANGED <<filled, adc_fft_start_flag, tim_on>>

-----------------------------------------------------------------------------
(* The timer's trigger: one more sample of the window ...                    *)
Sample ==
  /\ tim_on
  /\ filled < FFT_LEN - 1
  /\ filled' = filled + 1
  /\ UNCHANGED <<app_pc, adc_fft_start_flag, tim_on, sem_alive, sem_value,
                 worker>>

(* rt_sem_release hands its token to a waiting thread if there is one.       *)
Release ==
  \/ \E w \in Workers :
       /\ worker[w] = "blocked"
       /\ worker' = [worker EXCEPT ![w] = "filter"]
       /\ UNCHANGED sem_value
  \/ /\ \A w \in Workers : worker[w] # "blocked"
     /\ sem_value' = IF sem_value < MaxTokens THEN sem_value + 1 ELSE sem_value
     /\ UNCHANGED worker

(* ... and its last one, which stops the timer and wakes the worker.         *)
HAL_ADC_ConvCpltCallback ==
  /\ tim_on
  /\ filled = FFT_LEN - 1
  /\ filled' = 0
  /\ tim_on' = FALSE
  /\ IF adc_fft_start_flag = 1 THEN Release ELSE UNCHANGED <<sem_value, worker>>
  /\ UNCHANGED <<app_pc, adc_fft_start_flag, sem_alive>>

Interrupt == Sample \/ HAL_ADC_ConvCpltCallback

-----------------------------------------------------------------------------
(* The worker, which runs while the application thread sleeps.               *)
AppSleeps == app_pc \in {"away", "shown"}

Goto(w, from, to) ==
  /\ AppSleeps
  /\ worker[w] = from
  /\ worker' = [worker EXCEPT ![w] = to]

Check(w) ==
  /\ Goto(w, "check", IF adc_fft_start_flag = 1 THEN "take" ELSE "ended")
  /\ UNCHANGED <<app_pc, filled, adc_fft_start_flag, tim_on, sem_alive,
                 sem_value>>

(* rt_sem_take asserts that its argument still is a semaphore.  The handler  *)
(* of a failed assertion keeps the thread that calls it in a loop for ever;  *)
(* threads of its priority share the time with it, those above it and the    *)
(* interrupts go on as before.                                               *)
TakeAsserts(w) ==
  /\ ~sem_alive
  /\ Goto(w, "take", "stuck")
  /\ UNCHANGED <<app_pc, filled, adc_fft_start_flag, tim_on, sem_alive,
                 sem_value>>

TakeToken(w) ==
  /\ sem_alive /\ sem_value > 0
  /\ Goto(w, "take", "filter")
  /\ sem_value' = sem_value - 1
  /\ UNCHANGED <<app_pc, filled, adc_fft_start_flag, tim_on, sem_alive>>

TakeBlocks(w) ==
  /\ sem_alive /\ sem_value = 0
  /\ Goto(w, "take", "blocked")
  /\ UNCHANGED <<app_pc, filled, adc_fft_start_flag, tim_on, sem_alive,
                 sem_value>>

(* adc_data_filiter copies the window out of adc_buffer ... *)
Filter(w) ==
  /\ Goto(w, "filter", "cal")
  /\ UNCHANGED <<app_pc, filled, adc_fft_start_flag, tim_on, sem_alive,
                 sem_value>>

(* ... for fft_cal and the spectrum's callback ... *)
Cal(w) ==
  /\ Goto(w, "cal", "enable")
  /\ UNCHANGED <<app_pc, filled, adc_fft_start_flag, tim_on, sem_alive,
                 sem_value>>

(* Mutant: the next window is not asked for. *)
Enable_Forgets(w) ==
  /\ Goto(w, "enable", "check")
  /\ UNCHANGED <<app_pc, filled, adc_fft_start_flag, tim_on, sem_alive,
                 sem_value>>

(* ... and the next window is asked for, even after a stop. *)
Enable(w) ==
  /\ Goto(w, "enable", "check")
  /\ tim_on' = TRUE
  /\ UNCHANGED <<app_pc, filled, adc_fft_start_flag, sem_alive, sem_value>>

Reap(w) ==
  /\ MayReap
  /\ Goto(w, "ended", "none")
  /\ UNCHANGED <<app_pc, filled, adc_fft_start_flag, tim_on, sem_alive,
                 sem_value>>

Worker(w) ==
  \/ Check(w)
  \/ TakeAsserts(w)
  \/ TakeToken(w)
  \/ TakeBlocks(w)
  \/ Filter(w)
  \/ Cal(w)
  \/ Enable(w)
  \/ Reap(w)

Start == adc_fft_start \/ start_sem \/ start_thread \/ start_tim
Stop  == adc_fft_stop \/ stop_flag \/ stop_sem

App == Start \/ Stop

Next ==
  \/ App
  \/ Interrupt
  \/ \E w \in Workers : Worker(w)

(* The timer's conversions complete, a ready worker gets to run while the    *)
(* application thread sleeps, and a start or stop begun is carried through;  *)
(* nobody has to leave the screen.                                           *)
Spec ==
  /\ Init /\ [][Next]_vars
  /\ WF_vars(Interrupt)
  /\ \A w \in Workers : WF_vars(Worker(w))
  /\ WF_vars(App /\ app_pc \notin {"away", "shown"})

-----------------------------------------------------------------------------
(* Properties.                                                               *)

Busy == {w \in Workers : worker[w] \in {"filter", "cal", "enable"}}

(* The timer, the semaphore and the worker hand one token around: at most one*)
(* window is being filled, waiting, or being worked on.  So no window is     *)
(* written while the worker reads it, also across a stop and a restart.      *)
OneWindow ==
  Cardinality(Busy) + sem_value + (IF tim_on THEN 1 ELSE 0) <= 1

(* Every visit has its own worker, unless there is no memory for one, and    *)
(* the last visit's has ended or hangs in the failed assertion: fft_cal works*)
(* in global buffers and must not run twice at once.                         *)
OneWorker ==
  /\ Cardinality(Live) <= 1
  /\ app_pc = "shown" => Live # {} \/ Free = {}

(* A stop lets the last worker go: it does not wait on what was deleted.     *)
WorkerEnds == app_pc = "away" ~> Live = {}

(* While the screen is shown the spectrum of a visit with a worker keeps     *)
(* moving, also beside workers stuck since earlier visits.                   *)
SpectrumMoves ==
  app_pc = "shown" /\ Live # {}
    ~> app_pc # "shown" \/ \E w \in Workers : worker[w] = "enable"

(* rt_sem_take, which asserts that it is given a semaphore: no worker hangs. *)
NeverAsserts == Stuck = {}
=============================================================================
