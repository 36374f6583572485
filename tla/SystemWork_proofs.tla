-------------------------- MODULE SystemWork_proofs --------------------------
(***************************************************************************)
(* The safety properties of SystemWork for all intervals and bounds.       *)
(*                                                                         *)
(* The argument: a work is in the delayed list or once in the work list or *)
(* runs (Queued, Running), so that no step drops both; and between the     *)
(* weather thread's read and write of the bitmap nobody adds the weather's *)
(* bit (NoLostBit), which is what its priority above the work queue gives. *)
(***************************************************************************)
EXTENDS SystemWork, TLAPS

(* No work is listed twice, and none is both delayed and listed. *)
Once(list) == \A m, n \in DOMAIN list : list[m] = list[n] => m = n

Queued ==
    /\ Once(work_list)
    /\ \A w \in delayed : ~Listed(w, work_list)

(* Which work's function the work queue is in. *)
Running ==
    /\ job.at \in DownloadPlaces => work_current = "weather"
    /\ job.at \in SyncPlaces => work_current = "ntp"
    /\ job.at = "idle" => work_current = "none"

(* What the weather thread has read of the bitmap is not older than the      *)
(* weather's bit.                                                            *)
NoLostBit ==
    thread.at = "write_bits" /\ "WEA" \in info_update_bitmap => "WEA" \in thread.bits

IInv == TypeOK /\ Queued /\ Running /\ NoLostBit /\ FreshWeather /\ NothingForgotten

-----------------------------------------------------------------------------
(* The list after a work has been taken out: it is shorter at most, holds    *)
(* the others still, each once, and the work no more.                        *)
LEMMA WithoutKeeps ==
    ASSUME NEW list \in Seq(Works), Once(list), NEW w \in Works
    PROVE  /\ Without(w, list) \in Seq(Works)
           /\ Once(Without(w, list))
           /\ ~Listed(w, Without(w, list))
           /\ \A v \in Works \ {w} : Listed(v, list) => Listed(v, Without(w, list))
           /\ \A v \in Works : Listed(v, Without(w, list)) => Listed(v, list)
<1>1. CASE ~Listed(w, list)
    BY <1>1 DEF Without
<1>2. CASE Listed(w, list)
    <2> DEFINE k == CHOOSE n \in DOMAIN list : list[n] = w
               rest == [n \in 1..(Len(list) - 1) |-> IF n < k THEN list[n] ELSE list[n + 1]]
    <2>1. k \in 1..Len(list) /\ list[k] = w
        BY <1>2 DEF Listed
    <2>2. Without(w, list) = rest
        BY <1>2 DEF Without
    <2> HIDE DEF k
    <2>3. Len(list) \in Nat /\ DOMAIN list = 1..Len(list) /\ \A n \in 1..Len(list) : list[n] \in Works
        OBVIOUS
    <2>4. \A n \in 1..(Len(list) - 1) : rest[n] \in Works
        BY <2>1, <2>3
    <2>5. rest \in Seq(Works)
        <3>1. Len(list) - 1 \in Nat
            BY <2>1, <2>3
        <3> QED BY <2>4, <3>1
    <2>6. DOMAIN rest = 1..(Len(list) - 1)
        OBVIOUS
    <2> DEFINE at(n) == IF n < k THEN n ELSE n + 1
    <2>7. \A n \in 1..(Len(list) - 1) : at(n) \in 1..Len(list) \ {k} /\ rest[n] = list[at(n)]
        BY <2>1, <2>3
    <2>8. \A m, n \in 1..(Len(list) - 1) : at(m) = at(n) => m = n
        BY <2>1, <2>3
    <2>9. \A n \in 1..Len(list) \ {k} : \E m \in 1..(Len(list) - 1) : at(m) = n
        <3> SUFFICES ASSUME NEW n \in 1..Len(list) \ {k}
                     PROVE \E m \in 1..(Len(list) - 1) : at(m) = n
            OBVIOUS
        <3>1. CASE n < k
            <4>1. n \in 1..(Len(list) - 1) /\ at(n) = n
                BY <2>1, <2>3, <3>1
            <4> QED BY <4>1
        <3>2. CASE n > k
            <4>1. n - 1 \in 1..(Len(list) - 1) /\ at(n - 1) = n
                BY <2>1, <2>3, <3>2
            <4> QED BY <4>1
        <3> QED BY <2>1, <2>3, <3>1, <3>2
    <2> HIDE DEF rest, at
    <2>10. Once(rest)
        <3> SUFFICES ASSUME NEW m \in DOMAIN rest, NEW n \in DOMAIN rest, rest[m] = rest[n]
                     PROVE  m = n
            BY DEF Once
        <3>1. list[at(m)] = list[at(n)] /\ at(m) \in DOMAIN list /\ at(n) \in DOMAIN list
            BY <2>3, <2>6, <2>7
        <3>2. at(m) = at(n)
            BY <3>1 DEF Once
        <3> QED BY <2>6, <2>8, <3>2
    <2>11. ~Listed(w, rest)
        <3> SUFFICES ASSUME NEW n \in DOMAIN rest, rest[n] = w PROVE FALSE
            BY DEF Listed
        <3>1. list[at(n)] = list[k] /\ at(n) \in DOMAIN list /\ k \in DOMAIN list /\ at(n) # k
            BY <2>1, <2>3, <2>6, <2>7
        <3> QED BY <3>1 DEF Once
    <2>12. ASSUME NEW v \in Works \ {w}, Listed(v, list) PROVE Listed(v, rest)
        <3>1. PICK n \in 1..Len(list) : list[n] = v
            BY <2>3, <2>12 DEF Listed
        <3>2. n # k
            BY <2>1, <2>12, <3>1
        <3>3. PICK m \in 1..(Len(list) - 1) : at(m) = n
            BY <2>9, <3>2
        <3>4. m \in DOMAIN rest /\ rest[m] = v
            BY <2>6, <2>7, <3>1, <3>3
        <3> QED BY <3>4 DEF Listed
    <2>13. ASSUME NEW v \in Works, Listed(v, rest) PROVE Listed(v, list)
        <3>1. PICK n \in DOMAIN rest : rest[n] = v
            BY <2>13 DEF Listed
        <3>2. at(n) \in DOMAIN list /\ list[at(n)] = v
            BY <2>3, <2>6, <2>7, <3>1
        <3> QED BY <3>2 DEF Listed
    <2> QED BY <2>2, <2>5, <2>10, <2>11, <2>12, <2>13
<1> QED BY <1>1, <1>2

LEMMA AppendKeeps ==
    ASSUME NEW list \in Seq(Works), Once(list), NEW w \in Works, ~Listed(w, list)
    PROVE  /\ Append(list, w) \in Seq(Works)
           /\ Once(Append(list, w))
           /\ \A v : Listed(v, Append(list, w)) <=> v = w \/ Listed(v, list)
<1> DEFINE longer == Append(list, w)
<1>1. /\ Len(list) \in Nat /\ DOMAIN list = 1..Len(list)
      /\ DOMAIN longer = 1..(Len(list) + 1)
      /\ \A n \in 1..Len(list) : longer[n] = list[n]
      /\ longer[Len(list) + 1] = w
      /\ longer \in Seq(Works)
    OBVIOUS
<1> HIDE DEF longer
<1>2. Once(longer)
    BY <1>1 DEF Once, Listed
<1>3. \A v : Listed(v, longer) <=> v = w \/ Listed(v, list)
    BY <1>1 DEF Listed
<1> QED BY <1>1, <1>2, <1>3 DEF longer

LEMMA TailKeeps ==
    ASSUME NEW list \in Seq(Works), Once(list), list # <<>>
    PROVE  /\ Head(list) \in Works /\ Tail(list) \in Seq(Works)
           /\ Once(Tail(list))
           /\ \A v : Listed(v, list) <=> v = Head(list) \/ Listed(v, Tail(list))
<1> DEFINE rest == Tail(list)
<1>1. /\ Len(list) \in Nat \ {0} /\ DOMAIN list = 1..Len(list)
      /\ DOMAIN rest = 1..(Len(list) - 1)
      /\ \A n \in 1..(Len(list) - 1) : rest[n] = list[n + 1]
      /\ Head(list) = list[1] /\ Head(list) \in Works
      /\ rest \in Seq(Works)
    OBVIOUS
<1> HIDE DEF rest
<1>2. Once(rest)
    <2> SUFFICES ASSUME NEW m \in DOMAIN rest, NEW n \in DOMAIN rest, rest[m] = rest[n]
                 PROVE  m = n
        BY DEF Once
    <2>1. /\ m \in 1..(Len(list) - 1) /\ n \in 1..(Len(list) - 1)
          /\ m + 1 \in DOMAIN list /\ n + 1 \in DOMAIN list /\ list[m + 1] = list[n + 1]
        BY <1>1
    <2>2. m + 1 = n + 1
        BY <2>1 DEF Once
    <2> QED BY <2>1, <2>2
<1>3. ASSUME NEW v, Listed(v, list) PROVE v = list[1] \/ Listed(v, rest)
    <2>1. PICK n \in 1..Len(list) : list[n] = v
        BY <1>1, <1>3 DEF Listed
    <2>2. CASE n # 1
        <3>1. n - 1 \in 1..(Len(list) - 1) /\ rest[n - 1] = v
            BY <1>1, <2>1, <2>2
        <3> QED BY <1>1, <3>1 DEF Listed
    <2> QED BY <2>1, <2>2
<1>4. ASSUME NEW v, v = list[1] \/ Listed(v, rest) PROVE Listed(v, list)
    BY <1>1, <1>4 DEF Listed
<1> QED BY <1>1, <1>2, <1>3, <1>4 DEF rest

-----------------------------------------------------------------------------
LEMMA InitHolds == Init => IInv
<1> SUFFICES ASSUME Init PROVE IInv
    OBVIOUS
<1> USE IntervalAssumption DEF IntervalAssumption
<1>1. TypeOK
    <2>1. work_list \in Seq(Works) /\ DOMAIN work_list = {}
        BY DEF Init
    <2>2. thread \in [at : {"round", "write_bits", "weather", "sleep"},
                     bits : SUBSET Masks, time : 0..(TIME_UPDATE_INVT - 1),
                     wea : 0..(WEA_UPDATE_INVT - 1)]
        BY DEF Init
    <2>3. job \in [at : DownloadPlaces \cup SyncPlaces \cup {"idle"},
                  bits : SUBSET Masks, tries : 0..(NtpTries - 1)]
        BY DEF Init
    <2>4. link \in BOOLEAN
        BY DEF Init
    <2>5. clock_agrees \in BOOLEAN /\ owed \in BOOLEAN
        BY DEF Init
    <2>6. sync \in [said : {"nothing", "success", "fail"}, answered : BOOLEAN]
        BY DEF Init
    <2>7. /\ rounds \in 0..MaxRounds /\ fails \in 0..MaxFails
          /\ loads \in 0..MaxLoads /\ flips \in 0..MaxFlips
        BY DEF Init
    <2>8. delayed \subseteq Works
        BY DEF Init, Works
    <2> QED BY <2>1, <2>2, <2>3, <2>4, <2>5, <2>6, <2>7, <2>8 DEF Init, TypeOK
<1>2. DOMAIN work_list = {}
    BY DEF Init
<1>3. Queued /\ Running /\ NoLostBit
    BY <1>2 DEF Init, Queued, Once, Listed, Running, DownloadPlaces, SyncPlaces, NoLostBit
<1>4. FreshWeather /\ NothingForgotten
    BY DEF Init, FreshWeather, NothingForgotten, Alive
<1> QED BY <1>1, <1>3, <1>4 DEF IInv

-----------------------------------------------------------------------------
(* A submission brings the work into the delayed list and takes no other     *)
(* out of the queue.                                                         *)
Waits(w) == w \in delayed \/ Listed(w, work_list)

LEMMA Submitted ==
    ASSUME TypeOK, Queued, NEW w \in Works, Submit(w)
    PROVE  /\ work_list' \in Seq(Works) /\ delayed' \subseteq Works /\ Queued'
           /\ Waits(w)'
           /\ \A v \in Works : Waits(v) => Waits(v)'
<1>1. work_list' = Without(w, work_list) /\ delayed' = delayed \cup {w}
    BY DEF Submit
<1>2. work_list \in Seq(Works) /\ Once(work_list) /\ delayed \subseteq Works
    BY DEF TypeOK, Queued
<1>3. /\ work_list' \in Seq(Works) /\ Once(work_list')
      /\ ~Listed(w, work_list')
      /\ \A v \in Works \ {w} : Listed(v, work_list) => Listed(v, work_list')
      /\ \A v \in Works : Listed(v, work_list') => Listed(v, work_list)
    BY <1>1, <1>2, WithoutKeeps
<1>4. Queued'
    BY <1>1, <1>2, <1>3 DEF Queued
<1>5. Waits(w)' /\ \A v \in Works : Waits(v) => Waits(v)'
    BY <1>1, <1>3 DEF Waits
<1> QED BY <1>1, <1>2, <1>3, <1>4, <1>5

(* The queue's list holds each work once, as TypeOK says in its own words. *)
LEMMA ListTyped == Queued => \A m, n \in DOMAIN work_list : work_list[m] = work_list[n] => m = n
BY DEF Queued, Once

(* A delay that is over moves its work on, or drops it because it runs. *)
LEMMA DelayStep == IInv /\ DelayExpires => IInv'
<1> SUFFICES ASSUME IInv, DelayExpires PROVE IInv'
    OBVIOUS
<1>1. PICK w \in delayed :
        /\ delayed' = delayed \ {w}
        /\ work_list' = IF work_current = w THEN work_list ELSE Append(work_list, w)
    BY DEF DelayExpires
<1>2. UNCHANGED <<work_current, link, network_link_status, info_update_bitmap,
                  thread, job, page_vars, owed, sync, bounds>>
    BY DEF DelayExpires
<1>3. /\ w \in Works /\ ~Listed(w, work_list) /\ work_list \in Seq(Works)
      /\ Once(work_list) /\ delayed \subseteq Works
    BY DEF IInv, TypeOK, Queued
<1>4. /\ work_list' \in Seq(Works) /\ Queued'
      /\ \A v : Listed(v, work_list) => Listed(v, work_list')
      /\ work_current # w => Listed(w, work_list')
    <2>1. CASE work_current = w
        BY <1>1, <1>3, <2>1 DEF IInv, Queued
    <2>2. CASE work_current # w
        <3>1. /\ work_list' \in Seq(Works) /\ Once(work_list')
              /\ \A v : Listed(v, work_list') <=> v = w \/ Listed(v, work_list)
            BY <1>1, <1>3, <2>2, AppendKeeps
        <3> QED BY <1>1, <2>2, <3>1 DEF IInv, Queued
    <2> QED BY <2>1, <2>2
<1>5. TypeOK'
    BY <1>1, <1>2, <1>4, ListTyped DEF IInv, TypeOK, Queued, Once, page_vars, bounds
<1>6. Running' /\ NoLostBit' /\ FreshWeather'
    BY <1>2 DEF IInv, Running, NoLostBit, FreshWeather, page_vars
<1>7. \A v : Alive(v) => Alive(v)'
    BY <1>1, <1>2, <1>4 DEF Alive
<1>8. NothingForgotten'
    BY <1>2, <1>7 DEF IInv, NothingForgotten
<1> QED BY <1>4, <1>5, <1>6, <1>8 DEF IInv

LEMMA TakeStep == IInv /\ TakeWork => IInv'
<1> SUFFICES ASSUME IInv, TakeWork PROVE IInv'
    OBVIOUS
<1>1. /\ job.at = "idle" \/ work_current = "none"
      /\ work_current = "none" /\ work_list # <<>>
      /\ work_current' = Head(work_list) /\ work_list' = Tail(work_list)
      /\ job' = [at |-> IF Head(work_list) = "weather" THEN "get" ELSE "check_network",
                 bits |-> {}, tries |-> 0]
      /\ UNCHANGED <<delayed, link, network_link_status, info_update_bitmap, thread,
                     page_vars, owed, sync, bounds>>
    BY DEF TakeWork
<1>2. /\ Head(work_list) \in Works /\ work_list' \in Seq(Works) /\ Once(work_list')
      /\ \A v : Listed(v, work_list) <=> v = Head(work_list) \/ Listed(v, work_list')
    BY <1>1, TailKeeps DEF IInv, TypeOK, Queued
<1>3. Queued'
    BY <1>1, <1>2 DEF IInv, Queued
<1>4. Running' /\ NoLostBit'
    BY <1>1, <1>2 DEF IInv, Running, NoLostBit, DownloadPlaces, SyncPlaces, Works
<1>5. job.at = "idle"
    BY <1>1 DEF IInv, TypeOK, Running
<1>6. FreshWeather'
    BY <1>1, <1>5 DEF IInv, FreshWeather, page_vars
<1>7. \A v \in Works : Alive(v) => Alive(v)'
    BY <1>1, <1>2 DEF Alive, Works
<1>8. NothingForgotten'
    BY <1>1, <1>7 DEF IInv, NothingForgotten, Works
<1>9. TypeOK'
    <2>1. job' \in [at : DownloadPlaces \cup SyncPlaces \cup {"idle"},
                   bits : SUBSET Masks, tries : 0..(NtpTries - 1)]
        BY <1>1, IntervalAssumption DEF IntervalAssumption, DownloadPlaces, SyncPlaces
    <2> QED BY <1>1, <1>2, <1>3, <2>1 DEF IInv, TypeOK, Queued, Once, page_vars, bounds
<1> QED BY <1>3, <1>4, <1>6, <1>8, <1>9 DEF IInv

-----------------------------------------------------------------------------
(* The functions of the two works. *)

(* A step within a work's function leaves the queue alone. *)
LEMMA JobMoves ==
    ASSUME IInv, UNCHANGED <<queue_vars, link, network_link_status, info_update_bitmap,
                             thread, page, clock_agrees, owed, rounds, loads, flips>>,
           fails' \in 0..MaxFails, agrees' \subseteq Fields,
           sync' \in [said : {"nothing", "success", "fail"}, answered : BOOLEAN],
           NEW place \in DownloadPlaces \cup SyncPlaces,
           NEW bits \in SUBSET Masks, NEW tries \in 0..(NtpTries - 1),
           job' = [at |-> place, bits |-> bits, tries |-> tries],
           \/ job.at \in DownloadPlaces /\ place \in {"write", "read_bits", "write_bits"}
           \/ job.at \in SyncPlaces /\ place \in SyncPlaces /\ agrees' = agrees
    PROVE  IInv'
<1>1. TypeOK'
    BY DEF IInv, TypeOK, queue_vars
<1>2. Queued' /\ Running' /\ NoLostBit'
    BY DEF IInv, Queued, Running, NoLostBit, queue_vars, DownloadPlaces, SyncPlaces
<1>3. FreshWeather'
    BY DEF IInv, FreshWeather, DownloadPlaces, SyncPlaces
<1>4. NothingForgotten'
    BY DEF IInv, NothingForgotten, Alive, queue_vars
<1> QED BY <1>1, <1>2, <1>3, <1>4 DEF IInv

LEMMA WritingSteps == IInv /\ (Downloaded \/ WriteRest \/ ReadBits) => IInv'
<1> SUFFICES ASSUME IInv, Downloaded \/ WriteRest \/ ReadBits PROVE IInv'
    OBVIOUS
<1>1. /\ job.bits \in SUBSET Masks /\ job.tries \in 0..(NtpTries - 1)
      /\ job = [at |-> job.at, bits |-> job.bits, tries |-> job.tries]
      /\ info_update_bitmap \in SUBSET Masks
      /\ fails \in 0..MaxFails /\ agrees \subseteq Fields
      /\ sync \in [said : {"nothing", "success", "fail"}, answered : BOOLEAN]
    BY DEF IInv, TypeOK
<1>2. /\ job.at \in DownloadPlaces
      /\ UNCHANGED <<queue_vars, link, network_link_status, info_update_bitmap, thread,
                     page, clock_agrees, owed, sync, bounds>>
      /\ agrees' \subseteq Fields
    BY <1>1 DEF Downloaded, WriteRest, ReadBits, At, DownloadPlaces, page_vars
<1>3. \/ job' = [at |-> "write", bits |-> job.bits, tries |-> job.tries]
      \/ job' = [at |-> "read_bits", bits |-> job.bits, tries |-> job.tries]
      \/ job' = [at |-> "write_bits", bits |-> info_update_bitmap, tries |-> job.tries]
    BY <1>1 DEF Downloaded, WriteRest, ReadBits, JobGoesTo
<1>4. PICK place \in {"write", "read_bits", "write_bits"}, bits \in SUBSET Masks :
        job' = [at |-> place, bits |-> bits, tries |-> job.tries]
    BY <1>1, <1>3
<1> QED BY <1>1, <1>2, <1>4, JobMoves DEF DownloadPlaces, bounds

(* A work's function that ends by asking for the work again. *)
LEMMA JobSubmits ==
    ASSUME IInv, NEW w \in Works, work_current = w, Submit(w), JobEnds,
           UNCHANGED <<link, network_link_status, info_update_bitmap, thread, page_vars,
                       owed, rounds, loads, flips>>,
           fails' \in 0..MaxFails,
           sync' \in [said : {"nothing", "success", "fail"}, answered : BOOLEAN],
           job.at \in SyncPlaces \cup {"get"}
    PROVE  IInv'
<1>1. work_current' = "none" /\ job' = [job EXCEPT !.at = "idle"]
    BY DEF JobEnds, JobGoesTo
<1>2. /\ work_list' \in Seq(Works) /\ delayed' \subseteq Works /\ Queued'
      /\ Waits(w)' /\ \A v \in Works : Waits(v) => Waits(v)'
    BY Submitted DEF IInv
<1>3. TypeOK'
    <2>1. job' \in [at : DownloadPlaces \cup SyncPlaces \cup {"idle"},
                   bits : SUBSET Masks, tries : 0..(NtpTries - 1)]
        BY <1>1 DEF IInv, TypeOK
    <2> QED BY <1>1, <1>2, <2>1 DEF IInv, TypeOK, Queued, Once, page_vars
<1>4. Running' /\ NoLostBit'
    BY <1>1 DEF IInv, TypeOK, Running, NoLostBit, DownloadPlaces, SyncPlaces
<1>5. FreshWeather'
    BY <1>1 DEF IInv, TypeOK, FreshWeather, SyncPlaces, page_vars
<1>6. \A v \in Works : Alive(v) => Alive(v)'
    BY <1>2 DEF Alive, Waits
<1>7. NothingForgotten'
    BY <1>6 DEF IInv, NothingForgotten, Works
<1> QED BY <1>2, <1>3, <1>4, <1>5, <1>7 DEF IInv

LEMMA DownloadFailsStep == IInv /\ DownloadFails => IInv'
<1> SUFFICES ASSUME IInv, DownloadFails PROVE IInv'
    OBVIOUS
<1>1. /\ job.at = "get" /\ Submit("weather") /\ JobEnds
      /\ UNCHANGED <<link, network_link_status, info_update_bitmap, thread, page_vars,
                     owed, sync, rounds, loads, flips>>
    BY DEF DownloadFails, At
<1>2. fails' \in 0..MaxFails
    BY IntervalAssumption DEF IntervalAssumption, DownloadFails, IInv, TypeOK
<1>3. work_current = "weather" /\ "weather" \in Works
    BY <1>1 DEF IInv, Running, DownloadPlaces, Works
<1> QED BY <1>1, <1>2, <1>3, JobSubmits DEF IInv, TypeOK

(* The bit is set together with the end of the job: what was asked for has   *)
(* come, and the page will be told.                                          *)
LEMMA WriteBitsStep == IInv /\ WriteBits => IInv'
<1> SUFFICES ASSUME IInv, WriteBits PROVE IInv'
    OBVIOUS
<1>1. /\ job.at = "write_bits" /\ thread.at = "sleep"
      /\ info_update_bitmap' = job.bits \cup {"WEA"} /\ owed' = FALSE
      /\ work_current' = "none" /\ job' = [job EXCEPT !.at = "idle"]
      /\ UNCHANGED <<work_list, delayed, link, network_link_status, thread, page_vars,
                     sync, bounds>>
    BY DEF WriteBits, At, QueueRuns, JobEnds, JobGoesTo
<1>2. TypeOK'
    <2>1. job' \in [at : DownloadPlaces \cup SyncPlaces \cup {"idle"},
                   bits : SUBSET Masks, tries : 0..(NtpTries - 1)]
        BY <1>1 DEF IInv, TypeOK
    <2>2. owed' \in BOOLEAN
        BY <1>1
    <2>3. info_update_bitmap' \subseteq Masks
        BY <1>1 DEF IInv, TypeOK, Masks
    <2> QED BY <1>1, <2>1, <2>2, <2>3 DEF IInv, TypeOK, page_vars, bounds
<1>3. Queued' /\ NoLostBit' /\ FreshWeather'
    BY <1>1 DEF IInv, Queued, NoLostBit, FreshWeather, page_vars
<1>4. Running'
    BY <1>1 DEF IInv, TypeOK, Running, DownloadPlaces, SyncPlaces
<1>5. work_current = "weather"
    BY <1>1 DEF IInv, Running, DownloadPlaces
<1>6. NothingForgotten'
    BY <1>1, <1>5 DEF IInv, NothingForgotten, Alive
<1> QED BY <1>2, <1>3, <1>4, <1>6 DEF IInv

LEMMA SyncSteps == IInv /\ (CheckNetwork \/ AskNtp \/ AskClock) => IInv'
<1> SUFFICES ASSUME IInv, CheckNetwork \/ AskNtp \/ AskClock PROVE IInv'
    OBVIOUS
<1> USE IntervalAssumption DEF IntervalAssumption
<1> DEFINE Syncs == [said : {"nothing", "success", "fail"}, answered : BOOLEAN]
<1>1. /\ job.at \in SyncPlaces /\ sync \in Syncs /\ agrees \subseteq Fields
      /\ UNCHANGED <<link, network_link_status, info_update_bitmap, thread, page_vars,
                     owed, rounds, loads, flips>>
    BY DEF CheckNetwork, AskNtp, AskClock, At, SyncPlaces, IInv, TypeOK, bounds
<1>2. fails' \in 0..MaxFails
    <2>1. fails' = fails \/ (fails < MaxFails /\ fails' = fails + 1)
        BY DEF CheckNetwork, AskNtp, AskClock, bounds
    <2> QED BY <2>1 DEF IInv, TypeOK
<1>3. \/ \E said \in {"nothing", "success", "fail"} : Resync(said)
      \/ /\ UNCHANGED queue_vars
         /\ \/ sync' = [said |-> "nothing", answered |-> FALSE]
            \/ sync' = [sync EXCEPT !.answered = TRUE]
            \/ sync' = sync
         /\ \/ job' = [job EXCEPT !.at = "CNTP"]
            \/ job' = [job EXCEPT !.at = "CCLK", !.tries = 0]
            \/ job.tries + 1 # NtpTries /\ job' = [job EXCEPT !.tries = @ + 1]
    BY DEF CheckNetwork, AskNtp, AskClock, JobGoesTo
<1>4. CASE \E said \in {"nothing", "success", "fail"} : Resync(said)
    <2>1. Submit("ntp") /\ JobEnds /\ sync' \in Syncs
        BY <1>1, <1>4 DEF Resync
    <2>2. work_current = "ntp" /\ "ntp" \in Works
        BY <1>1 DEF IInv, Running, Works
    <2> QED BY <1>1, <1>2, <2>1, <2>2, JobSubmits
<1>5. CASE /\ UNCHANGED queue_vars
           /\ \/ sync' = [said |-> "nothing", answered |-> FALSE]
              \/ sync' = [sync EXCEPT !.answered = TRUE]
              \/ sync' = sync
           /\ \/ job' = [job EXCEPT !.at = "CNTP"]
              \/ job' = [job EXCEPT !.at = "CCLK", !.tries = 0]
              \/ job.tries + 1 # NtpTries /\ job' = [job EXCEPT !.tries = @ + 1]
    <2>1. sync' \in Syncs
        <3>1. sync' = [sync EXCEPT !.answered = TRUE] => sync' \in Syncs
            BY <1>1
        <3>2. sync' = [said |-> "nothing", answered |-> FALSE] => sync' \in Syncs
            OBVIOUS
        <3> QED BY <1>1, <1>5, <3>1, <3>2
    <2>2. /\ job.bits \in SUBSET Masks /\ job.tries \in 0..(NtpTries - 1)
          /\ job = [at |-> job.at, bits |-> job.bits, tries |-> job.tries]
        BY DEF IInv, TypeOK
    <2>3. PICK place \in SyncPlaces, tries \in 0..(NtpTries - 1) :
            job' = [at |-> place, bits |-> job.bits, tries |-> tries]
        <3>1. CASE job' = [job EXCEPT !.at = "CNTP"]
            <4>1. job' = [at |-> "CNTP", bits |-> job.bits, tries |-> job.tries]
                BY <2>2, <3>1
            <4> QED BY <2>2, <4>1 DEF SyncPlaces
        <3>2. CASE job' = [job EXCEPT !.at = "CCLK", !.tries = 0]
            <4>1. job' = [at |-> "CCLK", bits |-> job.bits, tries |-> 0]
                BY <2>2, <3>2
            <4>2. 0 \in 0..(NtpTries - 1)
                OBVIOUS
            <4> QED BY <4>1, <4>2 DEF SyncPlaces
        <3>3. CASE job.tries + 1 # NtpTries /\ job' = [job EXCEPT !.tries = @ + 1]
            <4>1. job' = [at |-> job.at, bits |-> job.bits, tries |-> job.tries + 1]
                BY <2>2, <3>3
            <4>2. job.tries + 1 \in 0..(NtpTries - 1)
                BY <2>2, <3>3
            <4> QED BY <1>1, <4>1, <4>2
        <3> QED BY <1>5, <3>1, <3>2, <3>3
    <2> QED BY <1>1, <1>2, <1>5, <2>1, <2>2, <2>3, JobMoves DEF page_vars
<1> QED BY <1>3, <1>4, <1>5

-----------------------------------------------------------------------------
(* The weather thread. *)

ThreadType == [at : {"round", "write_bits", "weather", "sleep"},
               bits : SUBSET Masks, time : 0..(TIME_UPDATE_INVT - 1),
               wea : 0..(WEA_UPDATE_INVT - 1)]

(* Only a job adds the weather's bit, and none runs before the thread sleeps. *)
LEMMA TimeSteps == IInv /\ (UpdateTime \/ WriteTimeBit) => IInv'
<1> SUFFICES ASSUME IInv, UpdateTime \/ WriteTimeBit PROVE IInv'
    OBVIOUS
<1>1. UNCHANGED <<queue_vars, link, network_link_status, job, page, agrees, owed, sync,
                  bounds>>
    BY DEF UpdateTime, WriteTimeBit, page_vars
<1>2. thread \in ThreadType /\ info_update_bitmap \subseteq Masks
    BY DEF IInv, TypeOK, ThreadType
<1>3. CASE UpdateTime
    <2>1. \/ thread' = [thread EXCEPT !.at = "write_bits", !.bits = info_update_bitmap]
          \/ thread' = [thread EXCEPT !.at = "weather"]
        BY <1>3 DEF UpdateTime
    <2>2. clock_agrees' = FALSE \/ clock_agrees' = clock_agrees
        BY <1>3 DEF UpdateTime
    <2>3. info_update_bitmap' = info_update_bitmap
        BY <1>3 DEF UpdateTime
    <2>4. clock_agrees' \in BOOLEAN
        BY <2>2 DEF IInv, TypeOK
    <2>5. thread' \in ThreadType
        BY <1>2, <2>1 DEF ThreadType
    <2>6. TypeOK'
        BY <1>1, <2>3, <2>4, <2>5 DEF IInv, TypeOK, ThreadType, queue_vars, bounds
    <2>7. NoLostBit'
        BY <1>2, <2>1, <2>3 DEF NoLostBit, ThreadType
    <2>8. Queued' /\ Running' /\ FreshWeather' /\ NothingForgotten'
        BY <1>1, <2>3 DEF IInv, Queued, Running, FreshWeather, NothingForgotten, Alive,
           queue_vars
    <2> QED BY <2>6, <2>7, <2>8 DEF IInv
<1>4. CASE WriteTimeBit
    <2>1. /\ thread.at = "write_bits"
          /\ info_update_bitmap' = thread.bits \cup {"TIME"}
          /\ thread' = [thread EXCEPT !.at = "weather", !.bits = {}]
          /\ clock_agrees' = clock_agrees
        BY <1>4 DEF WriteTimeBit, page_vars
    <2>2. thread' \in ThreadType /\ thread'.at = "weather"
        BY <1>2, <2>1 DEF ThreadType
    <2>3. info_update_bitmap' \subseteq Masks
        BY <1>2, <2>1 DEF ThreadType, Masks
    <2>4. TypeOK'
        BY <1>1, <2>1, <2>2, <2>3 DEF IInv, TypeOK, ThreadType, queue_vars, bounds
    <2>5. "WEA" \in info_update_bitmap => "WEA" \in info_update_bitmap'
        BY <2>1 DEF IInv, NoLostBit
    <2>6. NoLostBit' /\ FreshWeather'
        BY <1>1, <2>2, <2>5 DEF IInv, NoLostBit, FreshWeather
    <2>7. Queued' /\ Running' /\ NothingForgotten'
        BY <1>1 DEF IInv, Queued, Running, NothingForgotten, Alive, queue_vars
    <2> QED BY <2>4, <2>6, <2>7 DEF IInv
<1> QED BY <1>3, <1>4

(* A step that leaves the bitmap, the job and the screen alone, and takes no *)
(* work out of the queue.                                                    *)
LEMMA QueueGrows ==
    ASSUME IInv, work_list' \in Seq(Works), delayed' \subseteq Works, Queued',
           work_current' = work_current,
           \A v \in Works : Waits(v) => Waits(v)',
           \/ owed' = owed
           \/ owed' = TRUE /\ Waits("weather")',
           thread' \in ThreadType, thread'.at # "write_bits",
           rounds' \in 0..MaxRounds,
           UNCHANGED <<link, network_link_status, info_update_bitmap, job, page_vars, sync,
                       fails, loads, flips>>
    PROVE  IInv'
<1>1. owed' \in BOOLEAN
    BY DEF IInv, TypeOK
<1>2. TypeOK'
    BY <1>1 DEF IInv, TypeOK, ThreadType, Queued, Once, page_vars
<1>3. Running' /\ NoLostBit' /\ FreshWeather'
    BY DEF IInv, Running, NoLostBit, FreshWeather, page_vars
<1>4. NothingForgotten'
    BY DEF IInv, NothingForgotten, Alive, Waits, Works
<1> QED BY <1>2, <1>3, <1>4 DEF IInv

LEMMA Remainder == ASSUME NEW n \in Nat, NEW m \in Nat \ {0} PROVE n % m \in 0..(m - 1)
OBVIOUS

LEMMA RoundSteps == IInv /\ (UpdateWeather \/ NoWeather \/ Wake) => IInv'
<1> SUFFICES ASSUME IInv, UpdateWeather \/ NoWeather \/ Wake PROVE IInv'
    OBVIOUS
<1> USE IntervalAssumption DEF IntervalAssumption
<1>1. thread \in ThreadType /\ rounds \in 0..MaxRounds
    BY DEF IInv, TypeOK, ThreadType
<1>2. /\ work_current' = work_current
      /\ UNCHANGED <<link, network_link_status, info_update_bitmap, job, page_vars, sync,
                     fails, loads, flips>>
    BY DEF UpdateWeather, NoWeather, Wake, queue_vars, bounds
<1>3. \A wea \in 0..(WEA_UPDATE_INVT - 1) :
        RoundEnds(wea) => thread' \in ThreadType /\ thread'.at # "write_bits"
    <2> SUFFICES ASSUME NEW wea \in 0..(WEA_UPDATE_INVT - 1), RoundEnds(wea)
                 PROVE  thread' \in ThreadType /\ thread'.at # "write_bits"
        OBVIOUS
    <2> DEFINE time == (thread.time + 1) % TIME_UPDATE_INVT
    <2>1. thread.time + 1 \in Nat
        BY <1>1 DEF ThreadType
    <2>2. time \in 0..(TIME_UPDATE_INVT - 1)
        BY <2>1, Remainder
    <2>3. thread' = [thread EXCEPT !.at = "sleep", !.wea = wea, !.time = time]
        BY DEF RoundEnds
    <2> HIDE DEF time
    <2> QED BY <1>1, <2>2, <2>3 DEF ThreadType
<1>4. CASE UpdateWeather
    <2>1. 1 % WEA_UPDATE_INVT \in 0..(WEA_UPDATE_INVT - 1) /\ 0 \in 0..(WEA_UPDATE_INVT - 1)
        BY Remainder
    <2>2. thread' \in ThreadType /\ thread'.at # "write_bits"
        BY <1>3, <1>4, <2>1 DEF UpdateWeather
    <2>3. rounds' = rounds
        BY <1>4 DEF UpdateWeather, bounds
    <2>4. CASE SubmitWeather
        <3>1. Submit("weather") /\ owed' = TRUE /\ "weather" \in Works
            BY <2>4 DEF SubmitWeather, Works
        <3>2. /\ work_list' \in Seq(Works) /\ delayed' \subseteq Works /\ Queued'
              /\ Waits("weather")' /\ \A v \in Works : Waits(v) => Waits(v)'
            BY <3>1, Submitted DEF IInv
        <3> QED BY <1>1, <1>2, <2>2, <2>3, <3>1, <3>2, QueueGrows
    <2>5. CASE UNCHANGED <<work_list, delayed, owed>>
        <3>1. /\ work_list' \in Seq(Works) /\ delayed' \subseteq Works /\ Queued'
              /\ \A v \in Works : Waits(v) => Waits(v)'
            BY <2>5 DEF IInv, TypeOK, Queued, Waits
        <3>2. owed' = owed
            BY <2>5
        <3> QED BY <1>1, <1>2, <2>2, <2>3, <3>1, <3>2, QueueGrows
    <2> QED BY <1>4, <2>4, <2>5 DEF UpdateWeather
<1>5. CASE NoWeather \/ Wake
    <2>1. UNCHANGED <<work_list, delayed>> /\ owed' = owed
        BY <1>5 DEF NoWeather, Wake, queue_vars
    <2>2. /\ work_list' \in Seq(Works) /\ delayed' \subseteq Works /\ Queued'
          /\ \A v \in Works : Waits(v) => Waits(v)'
        BY <2>1 DEF IInv, TypeOK, Queued, Waits
    <2>3. rounds' \in 0..MaxRounds
        <3>1. rounds' = rounds \/ (rounds < MaxRounds /\ rounds' = rounds + 1)
            BY <1>5 DEF NoWeather, Wake, bounds
        <3> QED BY <1>1, <3>1
    <2>4. thread' \in ThreadType /\ thread'.at # "write_bits"
        <3>1. CASE Wake
            BY <1>1, <3>1 DEF Wake, ThreadType
        <3>2. CASE NoWeather
            <4>1. PICK wea \in {thread.wea + 1, 0, thread.wea} :
                    /\ RoundEnds(wea)
                    /\ wea = thread.wea + 1 => thread.wea + 1 < WEA_UPDATE_INVT
                BY <1>1, <3>2 DEF NoWeather, ThreadType
            <4>2. wea \in 0..(WEA_UPDATE_INVT - 1)
                BY <1>1, <4>1 DEF ThreadType
            <4> QED BY <1>3, <4>1, <4>2
        <3> QED BY <1>5, <3>1, <3>2
    <2> QED BY <1>1, <1>2, <2>1, <2>2, <2>3, <2>4, QueueGrows
<1> QED BY <1>4, <1>5

-----------------------------------------------------------------------------
(* The page.  It is built from weaInfo as it is, and shows it again whenever *)
(* it is told of it.                                                         *)
LEMMA LoadSteps == IInv /\ (FirstLoad \/ Load) => IInv'
<1> SUFFICES ASSUME IInv, FirstLoad \/ Load PROVE IInv'
    OBVIOUS
<1>1. /\ page' = "loading" /\ agrees' = Fields /\ clock_agrees' \in BOOLEAN
      /\ UNCHANGED <<work_current, link, network_link_status, thread, job, sync, rounds,
                     fails, flips>>
    BY DEF FirstLoad, Load, Build, queue_vars, bounds
<1>2. info_update_bitmap' = info_update_bitmap \/ info_update_bitmap' = {}
    BY DEF FirstLoad, Load
<1>3. loads' \in 0..MaxLoads
    <2>1. loads' = loads \/ (loads < MaxLoads /\ loads' = loads + 1)
        BY DEF FirstLoad, Load, bounds
    <2> QED BY <2>1, IntervalAssumption DEF IntervalAssumption, IInv, TypeOK
<1>4. /\ work_list' \in Seq(Works) /\ delayed' \subseteq Works /\ Queued'
      /\ \A v \in Works : Waits(v) => Waits(v)'
      /\ \/ owed' = owed
         \/ owed' = TRUE /\ Waits("weather")'
    <2>1. CASE SubmitWeather
        <3>1. Submit("weather") /\ owed' = TRUE /\ "weather" \in Works
            BY <2>1 DEF SubmitWeather, Works
        <3> QED BY <3>1, Submitted DEF IInv
    <2>2. CASE UNCHANGED <<work_list, delayed, owed>>
        BY <2>2 DEF IInv, TypeOK, Queued, Waits
    <2> QED BY <2>1, <2>2 DEF FirstLoad, Load, queue_vars
<1>5. owed' \in BOOLEAN
    BY <1>4 DEF IInv, TypeOK
<1>6. TypeOK'
    BY <1>1, <1>2, <1>3, <1>4, <1>5 DEF IInv, TypeOK, Queued, Once
<1>7. Running' /\ NoLostBit' /\ FreshWeather'
    BY <1>1, <1>2 DEF IInv, Running, NoLostBit, FreshWeather
<1>8. NothingForgotten'
    BY <1>1, <1>4 DEF IInv, NothingForgotten, Alive, Waits, Works
<1> QED BY <1>4, <1>6, <1>7, <1>8 DEF IInv

LEMMA PageSteps == IInv /\ (Run \/ Unload \/ weather_update_cb \/ LinkFlips) => IInv'
<1> SUFFICES ASSUME IInv, Run \/ Unload \/ weather_update_cb \/ LinkFlips PROVE IInv'
    OBVIOUS
<1>1. UNCHANGED <<queue_vars, network_link_status, thread, job, owed, sync, rounds, fails,
                  loads>>
    BY DEF Run, Unload, weather_update_cb, LinkFlips, bounds
<1>2. /\ page' \in {"running", "away"} \/ page' = page
      /\ \/ info_update_bitmap' = info_update_bitmap /\ agrees' = agrees
         \/ /\ info_update_bitmap' = {}
            /\ agrees' = IF "WEA" \in info_update_bitmap THEN Fields ELSE agrees
      /\ page' = "running" => page \in {"loading", "running"}
    BY DEF Run, Unload, weather_update_cb, LinkFlips, page_vars
<1>3. clock_agrees' \in BOOLEAN
    <2>1. CASE weather_update_cb
        BY <2>1 DEF weather_update_cb
    <2>2. CASE clock_agrees' = clock_agrees
        BY <2>2 DEF IInv, TypeOK
    <2> QED BY <2>1, <2>2 DEF Run, Unload, LinkFlips, page_vars
<1>4. link' \in BOOLEAN
    <2>1. CASE LinkFlips
        BY <2>1 DEF LinkFlips
    <2>2. CASE link' = link
        BY <2>2 DEF IInv, TypeOK
    <2> QED BY <2>1, <2>2 DEF Run, Unload, weather_update_cb
<1>5. flips' \in 0..MaxFlips
    <2>1. flips' = flips \/ (flips < MaxFlips /\ flips' = flips + 1)
        BY DEF Run, Unload, weather_update_cb, LinkFlips, bounds
    <2> QED BY <2>1, IntervalAssumption DEF IntervalAssumption, IInv, TypeOK
<1>6. TypeOK'
    BY <1>1, <1>2, <1>3, <1>4, <1>5 DEF IInv, TypeOK, queue_vars
<1>7. Queued' /\ Running' /\ NothingForgotten'
    BY <1>1 DEF IInv, Queued, Running, NothingForgotten, Alive, queue_vars
<1>8. NoLostBit' /\ FreshWeather'
    BY <1>1, <1>2 DEF IInv, NoLostBit, FreshWeather
<1> QED BY <1>6, <1>7, <1>8 DEF IInv

-----------------------------------------------------------------------------
LEMMA Inductive == IInv /\ [Next]_vars => IInv'
<1> SUFFICES ASSUME IInv, [Next]_vars PROVE IInv'
    OBVIOUS
<1>1. CASE WorkQueue
    BY <1>1, TakeStep, WritingSteps, DownloadFailsStep, WriteBitsStep, SyncSteps
    DEF WorkQueue
<1>2. CASE WeatherThread
    BY <1>2, TimeSteps, RoundSteps DEF WeatherThread
<1>3. CASE UNCHANGED vars
    BY <1>3 DEF vars, queue_vars, page_vars, bounds, IInv, TypeOK, Queued, Running,
       NoLostBit, FreshWeather, NothingForgotten, Alive
<1> QED BY <1>1, <1>2, <1>3, DelayStep, LoadSteps, PageSteps DEF Next

THEOREM Invariance == Spec => []IInv
    BY InitHolds, Inductive, PTL DEF Spec

(* The variables keep their types, and no work is in the queue's list twice. *)
THEOREM TypeCorrect == Spec => []TypeOK
<1>1. IInv => TypeOK
    BY DEF IInv
<1> QED BY <1>1, Invariance, PTL

(* The page never keeps an outdated or half-written weather, however the     *)
(* threads that share the bitmap take turns and however long the intervals.  *)
THEOREM WeatherAlwaysFresh == Spec => []FreshWeather
<1>1. IInv => FreshWeather
    BY DEF IInv
<1> QED BY <1>1, Invariance, PTL

(* No download and no synchronisation drops out of the queue.                *)
THEOREM NothingEverForgotten == Spec => []NothingForgotten
<1>1. IInv => NothingForgotten
    BY DEF IInv
<1> QED BY <1>1, Invariance, PTL
=============================================================================
