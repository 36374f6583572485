---------------------------- MODULE AdcFft_proofs ----------------------------
(***************************************************************************)
(* The properties of AdcFft for any number of thread objects and any       *)
(* length of a window.                                                     *)
(*                                                                         *)
(* The argument: workers hang only after a stop and touch nothing any      *)
(* more (Base, AssertsOnlyAfterStop).  When a start finds the last visit's *)
(* worker gone, at most one can do anything (Lone, Phase), so a single     *)
(* token goes round between timer, semaphore and worker (Token).           *)
(***************************************************************************)
EXTENDS AdcFft, TLAPS, FiniteSetTheorems

(* The semaphore exists between its creation by a start and its deletion.    *)
SemKnown == sem_alive <=> app_pc \notin {"away", "start_sem"}

Base == TypeOK /\ SemKnown

(* No two threads of fft_gen_thread can go on. *)
Lone == \A v, w \in Live : v = w

(* Where the token is: a window is being filled, waits in the semaphore, or  *)
(* is worked on.                                                             *)
Token ==
  /\ tim_on => sem_value = 0 /\ Busy = {}
  /\ sem_value > 0 => Busy = {}
  /\ sem_value <= 1

Starting == {"start_sem", "start_thread", "start_tim"}
Visiting == {"start_tim", "shown", "stop_flag", "stop_sem"}

(* What each place of the application thread says of the objects it makes    *)
(* and deletes.  A visit is without a worker only while ended ones fill the  *)
(* memory and a stuck one keeps the idle thread from freeing them.           *)
Phase ==
  /\ ~sem_alive => sem_value = 0 /\ \A w \in Workers : worker[w] # "blocked"
  /\ adc_fft_start_flag = 0 <=> app_pc \in {"away", "stop_sem"}
  /\ app_pc \in Starting => ~tim_on /\ sem_value = 0 /\ Busy = {}
  /\ app_pc \in {"start_sem", "start_thread"} => Live = {} /\ ~MayReap
  /\ app_pc \in Visiting => Live # {} \/ (Free = {} /\ ~MayReap)
  /\ app_pc \in {"stop_flag", "stop_sem"} => ~tim_on

IInv == Base /\ Lone /\ Token /\ Phase

-----------------------------------------------------------------------------
(* What holds also when a start finds the last visit's worker at work.       *)
LEMMA InitBase == Init => Base
<1> SUFFICES ASSUME Init PROVE Base
  OBVIOUS
<1>1. worker \in [Workers -> Places]
  BY DEF Init, Places
<1>2. tim_on \in BOOLEAN /\ sem_alive \in BOOLEAN
  BY DEF Init
<1>3. filled \in 0..FFT_LEN - 1 /\ sem_value \in 0..MaxTokens
  BY AdcAssumption DEF AdcAssumption, Init, MaxTokens
<1> QED BY <1>1, <1>2, <1>3 DEF Init, Base, SemKnown, TypeOK

LEMMA AppBase == Base /\ App => Base'
<1> SUFFICES ASSUME Base, App PROVE Base'
  OBVIOUS
<1> USE AdcAssumption DEF AdcAssumption, Base, SemKnown, TypeOK, MaxTokens
<1>1. CASE adc_fft_start
  BY <1>1 DEF adc_fft_start
<1>2. CASE start_sem
  BY <1>2 DEF start_sem
<1>3. CASE start_thread
  BY <1>3 DEF start_thread, Free, Places
<1>4. CASE start_tim
  BY <1>4 DEF start_tim
<1>5. CASE adc_fft_stop
  BY <1>5 DEF adc_fft_stop
<1>6. CASE stop_flag
  BY <1>6 DEF stop_flag
<1>7. CASE stop_sem
  <2>1. worker' \in [Workers -> Places]
    BY <1>7 DEF stop_sem, Places
  <2>2. sem_alive' = FALSE /\ sem_value' = 0 /\ app_pc' = "away"
    BY <1>7 DEF stop_sem
  <2>3. UNCHANGED <<filled, adc_fft_start_flag, tim_on>>
    BY <1>7 DEF stop_sem
  <2>4. sem_alive' \in BOOLEAN
    BY <2>2
  <2>5. sem_value' \in 0..MaxTokens
    BY <2>2
  <2> QED BY <2>1, <2>2, <2>3, <2>4, <2>5
<1> QED BY <1>1, <1>2, <1>3, <1>4, <1>5, <1>6, <1>7 DEF App, Start, Stop

LEMMA InterruptBase == Base /\ Interrupt => Base'
<1> SUFFICES ASSUME Base, Interrupt PROVE Base'
  OBVIOUS
<1> USE AdcAssumption DEF AdcAssumption, Base, SemKnown, TypeOK, MaxTokens
<1>1. CASE Sample
  BY <1>1 DEF Sample
<1>2. CASE HAL_ADC_ConvCpltCallback
  <2>1. filled' = 0 /\ tim_on' = FALSE
    BY <1>2 DEF HAL_ADC_ConvCpltCallback
  <2>5. 0 \in 0..FFT_LEN - 1
    OBVIOUS
  <2>2. UNCHANGED <<app_pc, adc_fft_start_flag, sem_alive>>
    BY <1>2 DEF HAL_ADC_ConvCpltCallback
  <2>3. Release \/ UNCHANGED <<sem_value, worker>>
    BY <1>2 DEF HAL_ADC_ConvCpltCallback
  <2>4. worker' \in [Workers -> Places] /\ sem_value' \in 0..MaxTokens
    <3>1. CASE UNCHANGED <<sem_value, worker>>
      BY <3>1 DEF Places
    <3>2. CASE \E w \in Workers :
                 /\ worker[w] = "blocked"
                 /\ worker' = [worker EXCEPT ![w] = "filter"]
                 /\ UNCHANGED sem_value
      BY <3>2 DEF Places
    <3>3. CASE /\ sem_value' = IF sem_value < MaxTokens THEN sem_value + 1
                                                        ELSE sem_value
               /\ UNCHANGED worker
      BY <3>3 DEF Places
    <3> QED BY <2>3, <3>1, <3>2, <3>3 DEF Release
  <2> QED BY <2>1, <2>2, <2>4, <2>5
<1> QED BY <1>1, <1>2 DEF Interrupt

(* Each step of a worker changes its own place. *)
LEMMA WorkerPlace ==
  ASSUME NEW w \in Workers, Worker(w)
  PROVE  /\ AppSleeps
         /\ \E to \in Places : worker' = [worker EXCEPT ![w] = to]
BY DEF Worker, Check, TakeAsserts, TakeToken, TakeBlocks, Filter, Cal, Enable,
       Reap, Goto, Places

LEMMA WorkerBase == ASSUME NEW w \in Workers PROVE Base /\ Worker(w) => Base'
<1> SUFFICES ASSUME Base, Worker(w) PROVE Base'
  OBVIOUS
<1> USE DEF Base, SemKnown, TypeOK, MaxTokens
<1>1. worker' \in [Workers -> Places]
  BY WorkerPlace DEF Places
<1>2. UNCHANGED <<app_pc, filled, adc_fft_start_flag, sem_alive>>
  BY DEF Worker, Check, TakeAsserts, TakeToken, TakeBlocks, Filter, Cal,
         Enable, Reap
<1>3. tim_on' \in BOOLEAN
  BY DEF Worker, Check, TakeAsserts, TakeToken, TakeBlocks, Filter, Cal,
         Enable, Reap
<1>4. sem_value' \in 0..MaxTokens
  BY DEF Worker, Check, TakeAsserts, TakeToken, TakeBlocks, Filter, Cal,
         Enable, Reap
<1> QED BY <1>1, <1>2, <1>3, <1>4

LEMMA BaseInductive == Base /\ [Next]_vars => Base'
<1> SUFFICES ASSUME Base, [Next]_vars PROVE Base'
  OBVIOUS
<1>1. CASE UNCHANGED vars
  BY <1>1 DEF vars, Base, SemKnown, TypeOK
<1> QED BY <1>1, AppBase, InterruptBase, WorkerBase DEF Next

THEOREM BaseInvariance == Spec => []Base
  BY InitBase, BaseInductive, PTL DEF Spec

(* The variables of the sampling keep their values' ranges.                  *)
THEOREM TypeCorrect == Spec => []TypeOK
<1>1. Base => TypeOK
  BY DEF Base
<1> QED BY <1>1, BaseInvariance, PTL

(* The assertion of rt_sem_take, which does fail, never fails while a visit  *)
(* lasts: only a worker that a stop left behind finds its semaphore deleted. *)
StuckOnlyAway ==
  \A w \in Workers : worker[w] # "stuck" /\ worker'[w] = "stuck" => app_pc = "away"

THEOREM AssertsOnlyAfterStop == Spec => [][StuckOnlyAway]_vars
<1>1. Base /\ [Next]_vars => [StuckOnlyAway]_vars
  <2> SUFFICES ASSUME Base, Next,
                      NEW v \in Workers, worker[v] # "stuck", worker'[v] = "stuck"
               PROVE  app_pc = "away"
    BY DEF StuckOnlyAway
  <2>0. worker \in [Workers -> Places]
    BY DEF Base, TypeOK, Places
  <2>1. CASE App
    BY <2>0, <2>1 DEF App, Start, Stop, adc_fft_start, start_sem, start_thread,
       start_tim, adc_fft_stop, stop_flag, stop_sem
  <2>2. CASE Interrupt
    BY <2>0, <2>2 DEF Interrupt, Sample, HAL_ADC_ConvCpltCallback, Release
  <2>3. CASE \E w \in Workers : Worker(w)
    <3>1. PICK w \in Workers : Worker(w)
      BY <2>3
    <3>2. CASE TakeAsserts(w)
      BY <3>2 DEF TakeAsserts, Goto, AppSleeps, Base, SemKnown
    <3>3. CASE ~TakeAsserts(w)
      BY <2>0, <3>1, <3>3 DEF Worker, Check, TakeToken, TakeBlocks, Filter, Cal,
         Enable, Reap, Goto
    <3> QED BY <3>2, <3>3
  <2> QED BY <2>1, <2>2, <2>3 DEF Next
<1> QED BY <1>1, BaseInvariance, PTL DEF Spec

-----------------------------------------------------------------------------
(* The steps of the application thread: a start finds no worker that can go  *)
(* on, and its own is the only one.                                          *)
LEMMA StartSteps ==
  ASSUME ~Overlap, IInv, Base', Start
  PROVE  Lone' /\ Token' /\ Phase'
<1> USE DEF Starting, Visiting
<1>0. worker \in [Workers -> Places] /\ sem_value \in Nat
  BY DEF IInv, Base, TypeOK, Places, MaxTokens
<1>1. CASE adc_fft_start
  <2>1. UNCHANGED <<Live, Busy, MayReap>>
    BY <1>1 DEF adc_fft_start, Live, Busy, Free, Stuck, Ended, MayReap
  <2>2. ~sem_alive /\ ~tim_on /\ ~MayReap /\ Live = {}
    BY <1>1 DEF adc_fft_start, Rested, IInv, Base, SemKnown, Phase, Live
  <2>3. Busy = {}
    BY <2>2 DEF Busy, Live, Free, Stuck, Ended
  <2> QED BY <1>1, <2>1, <2>2, <2>3
          DEF adc_fft_start, IInv, Lone, Token, Phase
<1>2. CASE start_sem
  <2>1. UNCHANGED <<Live, Busy, MayReap>>
    BY <1>2 DEF start_sem, Live, Busy, Free, Stuck, Ended, MayReap
  <2> QED BY <1>2, <2>1 DEF start_sem, IInv, Lone, Token, Phase
<1>3. CASE start_thread
  <2>1. Live = {} /\ ~MayReap /\ ~tim_on /\ sem_value = 0 /\ Busy = {}
    BY <1>3 DEF start_thread, IInv, Phase
  <2>2. CASE \E w \in Free : worker' = [worker EXCEPT ![w] = "check"]
    <3>1. PICK w \in Workers : worker' = [worker EXCEPT ![w] = "check"]
      BY <2>2 DEF Free
    <3>2. Live' = {w}
      BY <1>0, <2>1, <3>1 DEF Live, Free, Stuck, Ended
    <3>3. Busy' = {}
      BY <1>0, <2>1, <3>1 DEF Busy
    <3> QED BY <1>3, <2>1, <3>2, <3>3
            DEF start_thread, IInv, Base, SemKnown, Lone, Token, Phase
  <2>3. CASE Free = {} /\ UNCHANGED worker
    <3>1. UNCHANGED <<Live, Busy, Free, MayReap>>
      BY <2>3 DEF Live, Busy, Free, Stuck, Ended, MayReap
    <3> QED BY <1>3, <2>1, <2>3, <3>1
            DEF start_thread, IInv, Base, SemKnown, Lone, Token, Phase
  <2> QED BY <1>3, <2>2, <2>3 DEF start_thread
<1>4. CASE start_tim
  <2>1. UNCHANGED <<Live, Busy, Free, MayReap>>
    BY <1>4 DEF start_tim, Live, Busy, Free, Stuck, Ended, MayReap
  <2> QED BY <1>4, <2>1 DEF start_tim, IInv, Lone, Token, Phase
<1> QED BY <1>1, <1>2, <1>3, <1>4 DEF Start

(* A stop leaves the timer off, so the worker it wakes holds the only token. *)
LEMMA StopSteps ==
  ASSUME IInv, Base', Stop
  PROVE  Lone' /\ Token' /\ Phase'
<1> USE DEF Starting, Visiting
<1>0. worker \in [Workers -> Places] /\ sem_value \in Nat
  BY DEF IInv, Base, TypeOK, Places, MaxTokens
<1>1. CASE adc_fft_stop
  <2>1. UNCHANGED <<Live, Busy, Free, MayReap>>
    BY <1>1 DEF adc_fft_stop, Live, Busy, Free, Stuck, Ended, MayReap
  <2> QED BY <1>1, <2>1 DEF adc_fft_stop, IInv, Lone, Token, Phase
<1>2. CASE stop_flag
  <2>1. UNCHANGED <<Live, Busy, Free, MayReap>>
    BY <1>2 DEF stop_flag, Live, Busy, Free, Stuck, Ended, MayReap
  <2> QED BY <1>2, <2>1 DEF stop_flag, IInv, Lone, Token, Phase
<1>3. CASE stop_sem
  <2>1. Live' = Live
    BY <1>0, <1>3 DEF stop_sem, Live, Free, Stuck, Ended
  <2>2. \A w \in Workers : worker'[w] # "blocked"
    BY <1>3 DEF stop_sem
  <2>3. app_pc = "stop_sem" /\ app_pc' = "away" /\ adc_fft_start_flag' = 0
        /\ ~tim_on' /\ sem_value' = 0
    BY <1>3 DEF stop_sem, IInv, Phase
  <2> QED BY <2>1, <2>2, <2>3 DEF IInv, Lone, Token, Phase
<1> QED BY <1>1, <1>2, <1>3 DEF Stop

(* The interrupt puts the token of a full window into the semaphore, or into *)
(* the hands of the worker that waits for it.                                *)
LEMMA InterruptSteps ==
  ASSUME IInv, Base', Interrupt
  PROVE  Lone' /\ Token' /\ Phase'
<1> USE DEF Starting, Visiting
<1>0. worker \in [Workers -> Places] /\ sem_value \in Nat
  BY DEF IInv, Base, TypeOK, Places, MaxTokens
<1>1. CASE Sample
  <2>1. UNCHANGED <<Live, Busy, Free, MayReap>>
    BY <1>1 DEF Sample, Live, Busy, Free, Stuck, Ended, MayReap
  <2> QED BY <1>1, <2>1 DEF Sample, IInv, Lone, Token, Phase
<1>2. CASE HAL_ADC_ConvCpltCallback
  <2>1. tim_on /\ tim_on' = FALSE /\ sem_value = 0 /\ Busy = {}
    BY <1>2 DEF HAL_ADC_ConvCpltCallback, IInv, Token
  <2>2. app_pc \in {"away", "shown"}
    BY <2>1 DEF IInv, Base, TypeOK, Phase
  <2>3. UNCHANGED <<app_pc, adc_fft_start_flag, sem_alive>>
    BY <1>2 DEF HAL_ADC_ConvCpltCallback
  <2>5. CASE UNCHANGED <<sem_value, worker>>
    <3>1. UNCHANGED <<Live, Busy, Free, MayReap>>
      BY <2>5 DEF Live, Busy, Free, Stuck, Ended, MayReap
    <3> QED BY <2>1, <2>2, <2>3, <2>5, <3>1 DEF IInv, Lone, Token, Phase
  <2>6. CASE adc_fft_start_flag = 1 /\ Release
    <3>1. app_pc = "shown" /\ sem_alive
      BY <2>2, <2>6 DEF IInv, Base, SemKnown, Phase
    <3>2. CASE \E w \in Workers :
                 /\ worker[w] = "blocked"
                 /\ worker' = [worker EXCEPT ![w] = "filter"]
                 /\ UNCHANGED sem_value
      <4>1. PICK w \in Workers :
              /\ worker[w] = "blocked"
              /\ worker' = [worker EXCEPT ![w] = "filter"]
              /\ UNCHANGED sem_value
        BY <3>2
      <4>2. Live' = Live /\ w \in Live
        BY <1>0, <4>1 DEF Live, Free, Stuck, Ended
      <4> QED BY <2>1, <2>3, <3>1, <4>1, <4>2 DEF IInv, Lone, Token, Phase
    <3>3. CASE sem_value' = 1 /\ UNCHANGED worker
      <4>1. UNCHANGED <<Live, Busy, Free, MayReap>>
        BY <3>3 DEF Live, Busy, Free, Stuck, Ended, MayReap
      <4> QED BY <2>1, <2>3, <3>1, <3>3, <4>1 DEF IInv, Lone, Token, Phase
    <3> QED BY <2>1, <2>6, <3>2, <3>3 DEF Release, MaxTokens
  <2> QED BY <1>2, <2>5, <2>6 DEF HAL_ADC_ConvCpltCallback
<1> QED BY <1>1, <1>2 DEF Interrupt

(* A worker that goes on stays, one that ends or hangs does so after a stop, *)
(* and what it held goes with it; nothing else is done for the next visit.   *)
LEMMA WorkerSteps ==
  ASSUME IInv, Base', NEW w \in Workers, Worker(w)
  PROVE  Lone' /\ Token' /\ Phase'
<1> USE DEF Starting, Visiting
<1>0. worker \in [Workers -> Places] /\ sem_value \in Nat
  BY DEF IInv, Base, TypeOK, Places, MaxTokens
<1>1. app_pc \in {"away", "shown"}
  BY WorkerPlace DEF AppSleeps
<1>2. CASE Check(w) /\ adc_fft_start_flag = 1
  <2>1. worker[w] = "check" /\ worker' = [worker EXCEPT ![w] = "take"]
    BY <1>2 DEF Check, Goto
  <2>2. Live' = Live /\ w \in Live /\ Busy' = Busy
    BY <1>0, <2>1 DEF Live, Busy, Free, Stuck, Ended
  <2> QED BY <1>1, <1>2, <2>1, <2>2 DEF Check, IInv, Lone, Token, Phase
<1>3. CASE (Check(w) /\ adc_fft_start_flag # 1) \/ TakeAsserts(w)
  <2>1. app_pc = "away"
    BY <1>1, <1>3 DEF Check, TakeAsserts, IInv, Base, SemKnown, Phase, TypeOK
  <2>2. PICK to \in {"ended", "stuck"} :
          worker[w] \in {"check", "take"} /\ worker' = [worker EXCEPT ![w] = to]
    BY <1>3 DEF Check, TakeAsserts, Goto
  <2>3. Live' \subseteq Live /\ Busy' = Busy
    BY <1>0, <2>2 DEF Live, Busy, Free, Stuck, Ended
  <2>4. UNCHANGED <<app_pc, adc_fft_start_flag, tim_on, sem_alive, sem_value>>
    BY <1>3 DEF Check, TakeAsserts
  <2>5. Lone' /\ Token'
    BY <2>3, <2>4 DEF IInv, Lone, Token
  <2> QED BY <2>1, <2>2, <2>4, <2>5 DEF IInv, Phase
<1>4. CASE TakeToken(w)
  <2>1. worker[w] = "take" /\ worker' = [worker EXCEPT ![w] = "filter"]
    BY <1>4 DEF TakeToken, Goto
  <2>2. Live' = Live /\ w \in Live
    BY <1>0, <2>1 DEF Live, Free, Stuck, Ended
  <2>3. sem_alive /\ sem_value = 1 /\ sem_value' = 0 /\ ~tim_on
    BY <1>0, <1>4 DEF TakeToken, IInv, Token
  <2> QED BY <1>1, <1>4, <2>1, <2>2, <2>3 DEF TakeToken, IInv, Lone, Token, Phase
<1>5. CASE TakeBlocks(w)
  <2>1. worker[w] = "take" /\ worker' = [worker EXCEPT ![w] = "blocked"]
    BY <1>5 DEF TakeBlocks, Goto
  <2>2. Live' = Live /\ w \in Live /\ Busy' = Busy
    BY <1>0, <2>1 DEF Live, Busy, Free, Stuck, Ended
  <2> QED BY <1>1, <1>5, <2>1, <2>2 DEF TakeBlocks, IInv, Lone, Token, Phase
<1>6. CASE Filter(w) \/ Cal(w)
  <2>1. PICK to \in {"cal", "enable"} :
          /\ worker[w] \in {"filter", "cal"}
          /\ worker' = [worker EXCEPT ![w] = to]
    BY <1>6 DEF Filter, Cal, Goto
  <2>2. Live' = Live /\ w \in Live /\ Busy' = Busy
    BY <1>0, <2>1 DEF Live, Busy, Free, Stuck, Ended
  <2> QED BY <1>1, <1>6, <2>1, <2>2 DEF Filter, Cal, IInv, Lone, Token, Phase
<1>7. CASE Enable(w)
  <2>1. worker[w] = "enable" /\ worker' = [worker EXCEPT ![w] = "check"]
    BY <1>7 DEF Enable, Goto
  <2>2. Live' = Live /\ w \in Live
    BY <1>0, <2>1 DEF Live, Free, Stuck, Ended
  <2>3. w \in Busy /\ \A v \in Busy : v = w
    BY <2>1, <2>2 DEF IInv, Lone, Busy, Live, Free, Stuck, Ended
  <2>4. sem_value = 0 /\ Busy' = {}
    <3>1. sem_value = 0
      BY <1>0, <2>3 DEF IInv, Token
    <3>2. Busy' = {}
      BY <1>0, <2>1, <2>3 DEF Busy
    <3> QED BY <3>1, <3>2
  <2> QED BY <1>1, <1>7, <2>1, <2>2, <2>4 DEF Enable, IInv, Lone, Token, Phase
<1>8. CASE Reap(w)
  <2>1. MayReap /\ worker[w] = "ended" /\ worker' = [worker EXCEPT ![w] = "none"]
    BY <1>8 DEF Reap, Goto
  <2>2. Live' = Live /\ Busy' = Busy
    BY <1>0, <2>1 DEF Live, Busy, Free, Stuck, Ended
  <2> QED BY <1>1, <1>8, <2>1, <2>2 DEF Reap, IInv, Lone, Token, Phase
<1> QED BY <1>2, <1>3, <1>4, <1>5, <1>6, <1>7, <1>8 DEF Worker

LEMMA InitHolds == Init => IInv
<1> SUFFICES ASSUME Init PROVE IInv
  OBVIOUS
<1>1. Live = {} /\ Busy = {}
  BY DEF Init, Live, Busy, Free
<1> QED BY <1>1, InitBase DEF Init, IInv, Lone, Token, Phase, Starting, Visiting

LEMMA Inductive == ASSUME ~Overlap PROVE IInv /\ [Next]_vars => IInv'
<1> SUFFICES ASSUME IInv, [Next]_vars PROVE IInv'
  OBVIOUS
<1>1. Base'
  BY BaseInductive DEF IInv
<1>2. CASE App
  BY <1>1, <1>2, StartSteps, StopSteps DEF App, IInv
<1>3. CASE Interrupt
  BY <1>1, <1>3, InterruptSteps DEF IInv
<1>4. CASE \E w \in Workers : Worker(w)
  BY <1>1, <1>4, WorkerSteps DEF IInv
<1>5. CASE UNCHANGED vars
  <2>1. UNCHANGED <<Live, Busy, Free, MayReap>>
    BY <1>5 DEF vars, Live, Busy, Free, Stuck, Ended, MayReap
  <2> QED BY <1>1, <1>5, <2>1 DEF vars, IInv, Lone, Token, Phase
<1> QED BY <1>2, <1>3, <1>4, <1>5 DEF Next

THEOREM Invariance == ASSUME ~Overlap PROVE Spec => []IInv
  BY InitHolds, Inductive, PTL DEF Spec

-----------------------------------------------------------------------------
(* A set without two different members counts at most one. *)
LEMMA AtMostOne ==
  ASSUME NEW S, \A v, w \in S : v = w
  PROVE  Cardinality(S) \in {0, 1} /\ (S # {} => Cardinality(S) = 1)
<1>1. CASE S = {}
  BY <1>1, FS_EmptySet
<1>2. CASE S # {}
  <2>1. PICK w \in S : TRUE
    BY <1>2
  <2>2. S = {w}
    BY <2>1
  <2> QED BY <1>2, <2>2, FS_Singleton
<1> QED BY <1>1, <1>2

(* At most one window is being filled, waits, or is worked on, across every  *)
(* stop and start: adc_buffer is never written while the worker reads it.    *)
THEOREM OneWindowAlways == ASSUME ~Overlap PROVE Spec => []OneWindow
<1>1. IInv => OneWindow
  <2> SUFFICES ASSUME IInv PROVE OneWindow
    OBVIOUS
  <2>1. \A v, w \in Busy : v = w
    BY DEF IInv, Lone, Live, Busy, Free, Stuck, Ended
  <2>2. Cardinality(Busy) \in {0, 1} /\ (Busy = {} => Cardinality(Busy) = 0)
    BY <2>1, AtMostOne, FS_EmptySet
  <2>3. sem_value \in {0, 1}
    BY DEF IInv, Base, TypeOK, Token, MaxTokens
  <2>4. sem_value > 0 \/ tim_on => Cardinality(Busy) = 0
    BY <2>2 DEF IInv, Token
  <2>5. tim_on => sem_value = 0
    BY DEF IInv, Token
  <2> QED BY <2>2, <2>3, <2>4, <2>5 DEF OneWindow
<1> QED BY <1>1, Invariance, PTL

(* fft_cal's global buffers have one user: a visit's worker is alone but for *)
(* those that hang, which touch nothing any more.                            *)
THEOREM OneWorkerAlways == ASSUME ~Overlap PROVE Spec => []OneWorker
<1>1. IInv => OneWorker
  <2> SUFFICES ASSUME IInv PROVE OneWorker
    OBVIOUS
  <2>1. Cardinality(Live) \in {0, 1} /\ (Live # {} => Cardinality(Live) = 1)
    BY AtMostOne DEF IInv, Lone
  <2>2. app_pc = "shown" => Live # {} \/ Free = {}
    BY DEF IInv, Phase, Visiting
  <2> QED BY <2>1, <2>2 DEF OneWorker
<1> QED BY <1>1, Invariance, PTL
=============================================================================
