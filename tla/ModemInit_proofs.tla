--------------------------- MODULE ModemInit_proofs ---------------------------
(***************************************************************************)
(* The safety properties of ModemInit for every number of attempts and     *)
(* tries, and whatever the modem answers, however often.                   *)
(*                                                                         *)
(* The argument follows the place of the initialisation thread: what it    *)
(* has confirmed (Evidence), what its result says of the attempt (Outcome),*)
(* what the rest of the program has been told (Told), and what the boot    *)
(* thread has read (Boot).                                                 *)
(***************************************************************************)
EXTENDS ModemInit, TLAPS

(* The places after the SIM's check, and after the attachment's. *)
AfterAttach == {"CGDCONT", "NETOPEN?", "NETOPEN", "ntp", "info", "success"}
AfterSim == AfterAttach \cup {"CSQ", "CIPSRIP", "CREG", "CGREG", "CGATT"}
Finished == {"done", "exited"}

(* The attachment's check is entered with a registration in parsed_data, and *)
(* leaves as soon as it puts "attached" there.                               *)
Evidence ==
    /\ pc \in AfterSim => "CPIN" \in seen
    /\ pc \in AfterAttach => "CGATT" \in seen
    /\ pc = "CGATT" => parsed_data # "attached"

(* An attempt that is over has failed; one that gets past the clock has not. *)
Outcome ==
    /\ pc = "loop" => result = "ERROR" \/ retry_num > 0
    /\ pc = "power_off" => result = "ERROR"
    /\ pc \in {"info", "success"} => result = "OK"

(* Nobody is told of a link before the attempt that has it is over. *)
Told ==
    /\ network_link_status = 1 => pc \in Finished /\ {"CPIN", "CGATT"} \subseteq seen
    /\ client # "none" => pc \in Finished
    /\ client = "none" => is_started = 0
    /\ pc \in Finished => /\ network_link_status = 1 <=> result = "OK"
                          /\ client # "none" <=> result = "OK"

Boot ==
    /\ network_status = "DONE" <=> pc = "exited"
    /\ started => pc = "exited" /\ (synced <=> network_link_status = 1)

IInv == TypeOK /\ Evidence /\ Outcome /\ Told /\ Boot
Safe == Evidence /\ Outcome /\ Told /\ Boot

-----------------------------------------------------------------------------
LEMMA InitHolds == Init => IInv
<1> SUFFICES ASSUME Init PROVE IInv
  OBVIOUS
<1>1. TypeOK
  <2>1. link_up \in BOOLEAN /\ link_thread \in BOOLEAN
        /\ started \in BOOLEAN /\ synced \in BOOLEAN
    BY DEF Init
  <2>2. retry_num \in 0..InitRetry /\ i \in 0..(Tries - 1) /\ bad \in 0..MaxBad
        /\ moves \in 0..MaxMoves /\ drops \in 0..MaxDrops
    BY RetryAssumption DEF RetryAssumption, Init
  <2>3. pc \in Places /\ network_status \in NETWORK_INIT_STATUS /\ seen \subseteq Checks
    BY DEF Init, Places, NETWORK_INIT_STATUS
  <2> QED BY <2>1, <2>2, <2>3 DEF Init, TypeOK
<1>2. Safe
  BY RetryAssumption DEF RetryAssumption, Init, Safe, Evidence, Outcome, Told, Boot,
     AfterAttach, AfterSim, Finished
<1> QED BY <1>1, <1>2 DEF IInv, Safe

(* What an answer uses up of the bound. *)
LEMMA AnswerBounded ==
  ASSUME TypeOK, NEW a, NEW values, Answer(a, values)
  PROVE  bad' \in 0..MaxBad /\ UNCHANGED <<reg, moves>>
BY RetryAssumption DEF RetryAssumption, TypeOK, Answer

(* A failed check: another try, or the end of the attempt. *)
LEMMA TryAgainTypes ==
  ASSUME TypeOK, NEW status \in NETWORK_INIT_STATUS \ {"DONE"}, TryAgain(status)
  PROVE  /\ i' \in 0..(Tries - 1)
         /\ \/ pc' = pc /\ result' = result
            \/ pc' = "power_off" /\ result' = "ERROR"
         /\ network_status' \in NETWORK_INIT_STATUS \ {"DONE"}
         /\ network_link_status' = 0
         /\ UNCHANGED <<link_up, link_thread>>
<1> USE RetryAssumption DEF RetryAssumption
<1>1. /\ network_status' \in NETWORK_INIT_STATUS \ {"DONE"}
      /\ network_link_status' = 0
      /\ UNCHANGED <<link_up, link_thread>>
    BY DEF TryAgain, Notify
<1>2. CASE i + 1 = Tries
    <2>1. pc' = "power_off" /\ i' = 0 /\ result' = "ERROR"
        BY <1>2 DEF TryAgain, Abandon, GoTo
    <2>2. 0 \in 0..(Tries - 1)
        OBVIOUS
    <2> QED BY <1>1, <2>1, <2>2
<1>3. CASE i + 1 # Tries
    <2>1. i' = i + 1 /\ pc' = pc /\ result' = result
        BY <1>3 DEF TryAgain
    <2>2. i' \in 0..(Tries - 1)
        BY <1>3, <2>1 DEF TypeOK
    <2> QED BY <1>1, <2>1, <2>2
<1> QED BY <1>2, <1>3

-----------------------------------------------------------------------------
(* The steps of the initialisation thread that leave the network's           *)
(* variables alone, and where they lead.                                     *)
LEMMA LoopStep == IInv /\ Loop => IInv'
<1> SUFFICES ASSUME IInv, Loop PROVE IInv'
  OBVIOUS
<1> USE RetryAssumption DEF RetryAssumption
<1>1. TypeOK'
  BY DEF IInv, TypeOK, Loop, GoTo, net_vars, mqtt_vars, boot_vars, env_vars, Places
<1>2. Safe'
  BY DEF IInv, TypeOK, Safe, Evidence, Outcome, Told, Boot, AfterAttach, AfterSim, Finished,
     Loop, GoTo, net_vars, mqtt_vars, boot_vars, env_vars
<1> QED BY <1>1, <1>2 DEF IInv, Safe

LEMMA PowerOnStep == IInv /\ sim76xx_power_on => IInv'
<1> SUFFICES ASSUME IInv, sim76xx_power_on PROVE IInv'
  OBVIOUS
<1> USE RetryAssumption DEF RetryAssumption
<1>1. TypeOK'
  BY DEF IInv, TypeOK, sim76xx_power_on, GoTo, net_vars, mqtt_vars, boot_vars, env_vars, Places
<1>2. Safe'
  BY DEF IInv, TypeOK, Safe, Evidence, Outcome, Told, Boot, AfterAttach, AfterSim, Finished,
     sim76xx_power_on, GoTo, net_vars, mqtt_vars, boot_vars, env_vars
<1> QED BY <1>1, <1>2 DEF IInv, Safe

LEMMA CommandStep == IInv /\ AT_SEND_CMD => IInv'
<1> SUFFICES ASSUME IInv, AT_SEND_CMD PROVE IInv'
  OBVIOUS
<1> USE RetryAssumption DEF RetryAssumption
<1>1. pc \in {"connect", "ATE0", "ATI", "CIPSRIP", "CGDCONT", "NETOPEN"}
  BY DEF AT_SEND_CMD, After
<1>2. /\ bad' \in 0..MaxBad /\ UNCHANGED <<reg, moves>>
      /\ UNCHANGED <<retry_num, parsed_data, qi_arg, seen, net_vars, mqtt_vars, boot_vars>>
      /\ i' = 0
  BY AnswerBounded DEF AT_SEND_CMD, IInv, Abandon, GoTo
<1>3. \/ pc' = "power_off" /\ result' = "ERROR"
      \/ pc' = After[pc] /\ result' = result
  BY DEF AT_SEND_CMD, Abandon, GoTo
<1>4. TypeOK'
  BY <1>1, <1>2, <1>3 DEF IInv, TypeOK, After, net_vars, mqtt_vars, boot_vars, Places, Checks, Commands
<1>5. Safe'
  BY <1>1, <1>2, <1>3
  DEF IInv, TypeOK, Safe, Evidence, Outcome, Told, Boot, AfterAttach, AfterSim, Finished,
     After, net_vars, mqtt_vars, boot_vars
<1> QED BY <1>4, <1>5 DEF IInv, Safe

(* A failed check tells nobody of a link: it keeps the invariant wherever it *)
(* is made, as long as the attachment's check has not read "attached".       *)
LEMMA TryAgainKeeps ==
  ASSUME IInv, NEW status \in NETWORK_INIT_STATUS \ {"DONE"}, TryAgain(status),
         pc \in Checks, UNCHANGED <<retry_num, seen, mqtt_vars, boot_vars>>,
         bad' \in 0..MaxBad, UNCHANGED <<reg, moves>>,
         parsed_data' \in Registration \cup {"blank", "attached", "detached"},
         pc = "CGATT" => parsed_data' # "attached",
         qi_arg' \in {"zero", "known", "99"}
  PROVE  IInv'
<1>1. /\ i' \in 0..(Tries - 1)
      /\ \/ pc' = pc /\ result' = result
         \/ pc' = "power_off" /\ result' = "ERROR"
      /\ network_status' \in NETWORK_INIT_STATUS \ {"DONE"}
      /\ network_link_status' = 0
      /\ UNCHANGED <<link_up, link_thread>>
  BY TryAgainTypes DEF IInv
<1>2. TypeOK'
  BY <1>1 DEF IInv, TypeOK, mqtt_vars, boot_vars, Places
<1>3. Safe'
  BY <1>1 DEF IInv, TypeOK, Safe, Evidence, Outcome, Told, Boot, AfterAttach, AfterSim,
     Finished, Checks, mqtt_vars, boot_vars
<1> QED BY <1>2, <1>3 DEF IInv, Safe

(* A passed check leads on, within the attempt. *)
LEMMA PassedKeeps ==
  ASSUME IInv, pc \in Checks, pc' \in Checks \cup Commands, i' = 0,
         seen' \subseteq Checks, seen \subseteq seen',
         UNCHANGED <<retry_num, result, net_vars, mqtt_vars, boot_vars>>,
         bad' \in 0..MaxBad, UNCHANGED <<reg, moves>>,
         parsed_data' \in Registration \cup {"blank", "attached", "detached"},
         qi_arg' \in {"zero", "known", "99"},
         Evidence'
  PROVE  IInv'
<1> USE RetryAssumption DEF RetryAssumption
<1>1. TypeOK'
  BY DEF IInv, TypeOK, net_vars, mqtt_vars, boot_vars, Places
<1>2. Safe'
  BY DEF IInv, TypeOK, Safe, Outcome, Told, Boot, Finished, Checks, Commands,
     net_vars, mqtt_vars, boot_vars
<1> QED BY <1>1, <1>2 DEF IInv, Safe

(* An attempt given up. *)
LEMMA AbandonKeeps ==
  ASSUME IInv, pc \in Checks \cup Commands, Abandon,
         UNCHANGED <<retry_num, seen, net_vars, mqtt_vars, boot_vars>>,
         bad' \in 0..MaxBad, UNCHANGED <<reg, moves>>,
         parsed_data' \in Registration \cup {"blank", "attached", "detached"},
         qi_arg' \in {"zero", "known", "99"}
  PROVE  IInv'
<1> USE RetryAssumption DEF RetryAssumption
<1>0. pc' = "power_off" /\ i' = 0 /\ result' = "ERROR"
  BY DEF Abandon, GoTo
<1>1. TypeOK'
  BY <1>0 DEF IInv, TypeOK, net_vars, mqtt_vars, boot_vars, Places
<1>2. Safe'
  BY <1>0 DEF IInv, TypeOK, Safe, Evidence, Outcome, Told, Boot, AfterAttach, AfterSim,
     Finished, Checks, Commands, net_vars, mqtt_vars, boot_vars
<1> QED BY <1>1, <1>2 DEF IInv, Safe

(* What an attempt at the SIM's check and at the signal's does. *)
LEMMA CheckSimStep == IInv /\ CheckSim => IInv'
<1> SUFFICES ASSUME IInv, CheckSim PROVE IInv'
  OBVIOUS
<1>0. PICK a \in {"READY", "no", "error", "bare"} :
        /\ Answer(a, {"READY", "no"})
        /\ \/ a = "READY" /\ Passed("CSQ", TRUE)
           \/ a # "READY" /\ TryAgain("SIM_FAIL") /\ UNCHANGED seen
  BY DEF CheckSim
<1>1. pc = "CPIN" /\ UNCHANGED <<retry_num, parsed_data, qi_arg, mqtt_vars, boot_vars>>
  BY DEF CheckSim
<1>2. bad' \in 0..MaxBad /\ UNCHANGED <<reg, moves>>
  BY <1>0, AnswerBounded DEF IInv
<1>3. CASE Passed("CSQ", TRUE)
  <2>1. pc' = "CSQ" /\ i' = 0 /\ seen' = seen \cup {"CPIN"} /\ UNCHANGED <<result, net_vars>>
    BY <1>1, <1>3 DEF Passed, GoTo
  <2>2. Evidence'
    BY <1>1, <2>1 DEF Evidence, AfterSim, AfterAttach
  <2>3. pc \in Checks /\ pc' \in Checks /\ seen' \subseteq Checks
    BY <1>1, <2>1 DEF Checks, IInv, TypeOK
  <2> QED BY <1>1, <1>2, <2>1, <2>2, <2>3, PassedKeeps DEF IInv, TypeOK
<1>4. CASE TryAgain("SIM_FAIL") /\ UNCHANGED seen
  <2>1. pc \in Checks /\ pc # "CGATT" /\ "SIM_FAIL" \in NETWORK_INIT_STATUS \ {"DONE"}
    BY <1>1 DEF Checks, NETWORK_INIT_STATUS
  <2> QED BY <1>1, <1>2, <1>4, <2>1, TryAgainKeeps DEF IInv, TypeOK
<1> QED BY <1>0, <1>3, <1>4

(* The signal's check: only AT+CSQ's own failure gives the attempt up. *)
LEMMA CheckSignalStep == IInv /\ CheckSignal => IInv'
<1> SUFFICES ASSUME IInv, CheckSignal PROVE IInv'
  OBVIOUS
<1>0. PICK a \in {"known", "99", "error", "bare"} :
        /\ Answer(a, {"known", "99"})
        /\ qi_arg' = IF a \in {"known", "99"} THEN a ELSE qi_arg
        /\ \/ a = "error" /\ Abandon /\ UNCHANGED <<seen, net_vars>>
           \/ a # "error" /\ qi_arg' # "99" /\ Passed("CIPSRIP", a = "known")
           \/ a # "error" /\ qi_arg' = "99" /\ TryAgain("CSQ_FAIL") /\ UNCHANGED seen
  BY DEF CheckSignal
<1>1. pc = "CSQ" /\ UNCHANGED <<retry_num, parsed_data, mqtt_vars, boot_vars>>
  BY DEF CheckSignal
<1>2. bad' \in 0..MaxBad /\ UNCHANGED <<reg, moves>>
  BY <1>0, AnswerBounded DEF IInv
<1>3. qi_arg' \in {"zero", "known", "99"} /\ pc \in Checks
  BY <1>0, <1>1 DEF IInv, TypeOK, Checks
<1>4. CASE Abandon /\ UNCHANGED <<seen, net_vars>>
  BY <1>1, <1>2, <1>3, <1>4, AbandonKeeps DEF IInv, TypeOK
<1>5. CASE Passed("CIPSRIP", a = "known")
  <2>1. pc' = "CIPSRIP" /\ i' = 0 /\ UNCHANGED <<result, net_vars>>
    BY <1>5 DEF Passed, GoTo
  <2>2. seen \subseteq seen' /\ seen' \subseteq seen \cup {"CSQ"}
    BY <1>1, <1>5 DEF Passed
  <2>3. Evidence'
    BY <1>1, <2>1, <2>2 DEF IInv, Evidence, AfterSim, AfterAttach
  <2>4. pc' \in Commands /\ seen' \subseteq Checks
    BY <2>1, <2>2 DEF Checks, Commands, IInv, TypeOK
  <2> QED BY <1>1, <1>2, <1>3, <2>1, <2>2, <2>3, <2>4, PassedKeeps DEF IInv, TypeOK
<1>6. CASE TryAgain("CSQ_FAIL") /\ UNCHANGED seen
  <2>1. "CSQ_FAIL" \in NETWORK_INIT_STATUS \ {"DONE"}
    BY DEF NETWORK_INIT_STATUS
  <2> QED BY <1>1, <1>2, <1>3, <1>6, <2>1, TryAgainKeeps DEF IInv, TypeOK
<1> QED BY <1>0, <1>4, <1>5, <1>6


(* The three checks that share parsed_data keep the invariant if passing     *)
(* them keeps the evidence, and if the attachment's accepts "attached".      *)
LEMMA CheckKeeps ==
  ASSUME IInv, NEW place \in Checks, NEW values, NEW accepted, NEW next,
         Check(place, values, accepted, next),
         values \subseteq Registration \cup {"attached", "detached"},
         next \in Checks \cup Commands,
         place = "CGATT" => "attached" \in accepted,
         \A a : /\ parsed_data' = Parsed(a, values) /\ parsed_data' \in accepted
               /\ Passed(next, a \in accepted)
               => Evidence'
  PROVE  IInv'
<1>0. PICK a \in values \cup {"error", "bare"} :
        /\ Answer(a, values)
        /\ parsed_data' = Parsed(a, values)
        /\ \/ a = "error" /\ Abandon /\ UNCHANGED <<seen, net_vars>>
           \/ a # "error" /\ parsed_data' \in accepted /\ Passed(next, a \in accepted)
           \/ a # "error" /\ parsed_data' \notin accepted
              /\ TryAgain("NET_FAIL") /\ UNCHANGED seen
  BY DEF Check
<1>1. pc = place /\ UNCHANGED <<retry_num, qi_arg, mqtt_vars, boot_vars>>
  BY DEF Check
<1>2. bad' \in 0..MaxBad /\ UNCHANGED <<reg, moves>>
  BY <1>0, AnswerBounded DEF IInv
<1>3. parsed_data' \in Registration \cup {"blank", "attached", "detached"}
  BY <1>0 DEF Parsed, IInv, TypeOK
<1>4. CASE Abandon /\ UNCHANGED <<seen, net_vars>>
  BY <1>1, <1>2, <1>3, <1>4, AbandonKeeps DEF IInv, TypeOK
<1>5. CASE parsed_data' \in accepted /\ Passed(next, a \in accepted)
  <2>1. Evidence'
    BY <1>0, <1>5
  <2>2. /\ pc' = next /\ i' = 0 /\ UNCHANGED <<result, net_vars>>
        /\ seen \subseteq seen' /\ seen' \subseteq seen \cup {pc}
    BY <1>5 DEF Passed, GoTo
  <2>3. seen' \subseteq Checks
    BY <1>1, <2>2 DEF IInv, TypeOK
  <2> QED BY <1>1, <1>2, <1>3, <2>1, <2>2, <2>3, PassedKeeps DEF IInv, TypeOK
<1>6. CASE parsed_data' \notin accepted /\ TryAgain("NET_FAIL") /\ UNCHANGED seen
  <2>1. "NET_FAIL" \in NETWORK_INIT_STATUS \ {"DONE"}
    BY DEF NETWORK_INIT_STATUS
  <2>2. pc = "CGATT" => parsed_data' # "attached"
    BY <1>1, <1>6
  <2> QED BY <1>1, <1>2, <1>3, <1>6, <2>1, <2>2, TryAgainKeeps DEF IInv, TypeOK
<1> QED BY <1>0, <1>4, <1>5, <1>6

(* A registration is no attachment: the attachment's check does not start    *)
(* with "attached", so that it can read it only in its own answer.           *)
LEMMA CheckSteps == IInv /\ (CheckGsm \/ CheckGprs \/ CheckAttach) => IInv'
<1> SUFFICES ASSUME IInv, CheckGsm \/ CheckGprs \/ CheckAttach PROVE IInv'
  OBVIOUS
<1> USE DEF Checks, Commands, Registration, Registered
<1>1. CASE CheckGsm
  <2>1. Check("CREG", Registration, Registered, "CGREG") /\ pc = "CREG"
    BY <1>1 DEF CheckGsm, Check
  <2>2. ASSUME NEW a, Passed("CGREG", a \in Registered) PROVE Evidence'
    BY <2>1, <2>2 DEF Passed, GoTo, IInv, Evidence, AfterSim, AfterAttach
  <2> QED BY <2>1, <2>2, CheckKeeps
<1>2. CASE CheckGprs
  <2>1. Check("CGREG", {reg}, Registered, "CGATT") /\ pc = "CGREG"
    BY <1>2 DEF CheckGprs, Check
  <2>2. ASSUME NEW a, parsed_data' \in Registered, Passed("CGATT", a \in Registered)
        PROVE  Evidence'
    BY <2>1, <2>2 DEF Passed, GoTo, IInv, Evidence, AfterSim, AfterAttach
  <2>3. {reg} \subseteq Registration
    BY DEF IInv, TypeOK
  <2> QED BY <2>1, <2>2, <2>3, CheckKeeps
<1>3. CASE CheckAttach
  <2>1. Check("CGATT", {"attached", "detached"}, {"attached"}, "CGDCONT") /\ pc = "CGATT"
    BY <1>3 DEF CheckAttach, Check
  <2>2. ASSUME NEW a, parsed_data' = Parsed(a, {"attached", "detached"}),
               parsed_data' \in {"attached"}, Passed("CGDCONT", a \in {"attached"})
        PROVE  Evidence'
    <3>1. parsed_data # "attached"
      BY <2>1 DEF IInv, Evidence
    <3>2. a = "attached"
      BY <2>2, <3>1 DEF Parsed
    <3>3. pc' = "CGDCONT" /\ seen' = seen \cup {"CGATT"}
      BY <2>1, <2>2, <3>2 DEF Passed, GoTo
    <3> QED BY <2>1, <3>3 DEF IInv, Evidence, AfterSim, AfterAttach
  <2> QED BY <2>1, <2>2, CheckKeeps
<1> QED BY <1>1, <1>2, <1>3

LEMMA NetOpenStep == IInv /\ AskNetOpen => IInv'
<1> SUFFICES ASSUME IInv, AskNetOpen PROVE IInv'
  OBVIOUS
<1> USE RetryAssumption DEF RetryAssumption
<1>1. /\ pc = "NETOPEN?" /\ i' = 0
      /\ bad' \in 0..MaxBad /\ UNCHANGED <<reg, moves>>
      /\ UNCHANGED <<retry_num, parsed_data, qi_arg, seen, net_vars, mqtt_vars, boot_vars>>
  BY AnswerBounded DEF AskNetOpen, IInv, Abandon, GoTo
<1>2. \/ pc' = "power_off" /\ result' = "ERROR"
      \/ pc' \in {"ntp", "NETOPEN"} /\ result' = result
  BY DEF AskNetOpen, Abandon, GoTo
<1>3. TypeOK'
  BY <1>1, <1>2 DEF IInv, TypeOK, net_vars, mqtt_vars, boot_vars, Places, Commands
<1>4. Safe'
  BY <1>1, <1>2 DEF IInv, TypeOK, Safe, Evidence, Outcome, Told, Boot, AfterAttach,
     AfterSim, Finished, net_vars, mqtt_vars, boot_vars
<1> QED BY <1>3, <1>4 DEF IInv, Safe

(* The end of an attempt: the clock, the power, the link, the notifications. *)
LEMMA EndSteps ==
  IInv /\ (\/ Synchronise \/ sim76xx_power_off \/ sim76xx_netdev_set_info
           \/ NotifySuccess \/ NotifyDone)
    => IInv'
<1> SUFFICES ASSUME IInv, \/ Synchronise \/ sim76xx_power_off
                          \/ sim76xx_netdev_set_info \/ NotifySuccess \/ NotifyDone
             PROVE  IInv'
  OBVIOUS
<1> USE RetryAssumption DEF RetryAssumption, GoTo
<1>1. CASE Synchronise \/ sim76xx_power_off
  <2>1. TypeOK'
    BY <1>1 DEF Synchronise, sim76xx_power_off, IInv, TypeOK, net_vars, mqtt_vars,
       boot_vars, env_vars, Places
  <2>2. Safe'
    BY <1>1 DEF Synchronise, sim76xx_power_off, IInv, TypeOK, Safe, Evidence, Outcome,
       Told, Boot, AfterAttach, AfterSim, Finished, net_vars, mqtt_vars, boot_vars, env_vars
  <2> QED BY <2>1, <2>2 DEF IInv, Safe
<1>2. CASE sim76xx_netdev_set_info
  <2>0. link_up' \in BOOLEAN
    BY <1>2 DEF sim76xx_netdev_set_info
  <2>1. TypeOK'
    BY <1>2, <2>0 DEF sim76xx_netdev_set_info, IInv, TypeOK, mqtt_vars, boot_vars,
       env_vars, Places
  <2>2. Safe'
    BY <1>2 DEF sim76xx_netdev_set_info, IInv, TypeOK, Safe, Evidence, Outcome, Told,
       Boot, AfterAttach, AfterSim, Finished, mqtt_vars, boot_vars, env_vars
  <2> QED BY <2>1, <2>2 DEF IInv, Safe
<1>3. CASE NotifySuccess
  <2>1. pc = "success" /\ result = "OK" /\ client = "none" /\ is_started = 0
    BY <1>3 DEF NotifySuccess, IInv, Outcome, Told, Finished
  <2>2. is_started' = 1 /\ client' = "waiting" /\ drops' = drops
    BY <1>3, <2>1 DEF NotifySuccess, liz_mqtt_start
  <2>3. link_thread' \in BOOLEAN
    BY <1>3 DEF NotifySuccess
  <2>4. TypeOK'
    BY <1>3, <2>2, <2>3 DEF NotifySuccess, IInv, TypeOK, boot_vars, env_vars, Places,
       NETWORK_INIT_STATUS
  <2>5. Safe'
    BY <1>3, <2>1, <2>2 DEF NotifySuccess, IInv, TypeOK, Safe, Evidence, Outcome, Told,
       Boot, AfterAttach, AfterSim, Finished, boot_vars, env_vars
  <2> QED BY <2>4, <2>5 DEF IInv, Safe
<1>4. CASE NotifyDone
  <2>1. TypeOK'
    BY <1>4 DEF NotifyDone, Notify, IInv, TypeOK, mqtt_vars, boot_vars, env_vars,
       Places, NETWORK_INIT_STATUS
  <2>2. Safe'
    BY <1>4 DEF NotifyDone, Notify, IInv, TypeOK, Safe, Evidence, Outcome, Told, Boot,
       AfterAttach, AfterSim, Finished, mqtt_vars, boot_vars, env_vars
  <2> QED BY <2>1, <2>2 DEF IInv, Safe
<1> QED BY <1>1, <1>2, <1>3, <1>4

LEMMA InitThreadSteps == IInv /\ InitThread => IInv'
BY LoopStep, PowerOnStep, CommandStep, CheckSimStep, CheckSignalStep, CheckSteps,
   NetOpenStep, EndSteps DEF InitThread

-----------------------------------------------------------------------------
(* The other threads and the network. *)
LEMMA LinkStep == IInv /\ LinkThread => IInv'
<1> SUFFICES ASSUME IInv, LinkThread PROVE IInv'
  OBVIOUS
<1>1. /\ bad' \in 0..MaxBad /\ UNCHANGED <<reg, moves>>
      /\ UNCHANGED <<init_vars, network_status, network_link_status, link_thread,
                     mqtt_vars, boot_vars>>
  BY AnswerBounded DEF LinkThread, IInv
<1>2. link_up' \in BOOLEAN
  BY DEF LinkThread, IInv, TypeOK
<1>3. TypeOK'
  BY <1>1, <1>2 DEF IInv, TypeOK, init_vars, mqtt_vars, boot_vars
<1>4. Safe'
  BY <1>1 DEF IInv, Safe, Evidence, Outcome, Told, Boot, init_vars, mqtt_vars, boot_vars
<1> QED BY <1>3, <1>4 DEF IInv, Safe

LEMMA ClientSteps == IInv /\ (ClientConnects \/ ClientDrops) => IInv'
<1> SUFFICES ASSUME IInv, ClientConnects \/ ClientDrops PROVE IInv'
  OBVIOUS
<1>1. /\ client # "none" /\ client' \in {"waiting", "online"} /\ is_started' \in {0, 1}
      /\ UNCHANGED <<init_vars, net_vars, boot_vars, env_vars>>
  BY DEF ClientConnects, ClientDrops
<1>2. drops' \in 0..MaxDrops
  BY RetryAssumption DEF RetryAssumption, ClientConnects, ClientDrops, IInv, TypeOK
<1>3. TypeOK'
  BY <1>1, <1>2 DEF IInv, TypeOK, init_vars, net_vars, boot_vars, env_vars
<1>4. Safe'
  BY <1>1 DEF IInv, Safe, Evidence, Outcome, Told, Boot, init_vars, net_vars, boot_vars,
     env_vars
<1> QED BY <1>3, <1>4 DEF IInv, Safe

(* The boot thread reads a status that nobody changes any more. *)
LEMMA BootStep == IInv /\ BootThread => IInv'
<1> SUFFICES ASSUME IInv, BootThread PROVE IInv'
  OBVIOUS
<1>1. /\ pc = "exited" /\ UNCHANGED <<init_vars, net_vars, mqtt_vars, env_vars>>
  BY DEF BootThread, IInv, Boot
<1>2. started' \in BOOLEAN /\ synced' \in BOOLEAN
  BY DEF BootThread
<1>3. synced' <=> network_link_status = 1
  BY DEF BootThread
<1>4. TypeOK'
  BY <1>1, <1>2 DEF IInv, TypeOK, init_vars, net_vars, mqtt_vars, env_vars
<1>5. Safe'
  BY <1>1, <1>3 DEF IInv, Safe, Evidence, Outcome, Told, Boot, init_vars, net_vars,
     mqtt_vars, env_vars
<1> QED BY <1>4, <1>5 DEF IInv, Safe

LEMMA RegistrationStep == IInv /\ RegistrationChanges => IInv'
<1> SUFFICES ASSUME IInv, RegistrationChanges PROVE IInv'
  OBVIOUS
<1>1. /\ reg' \in Registration /\ bad' = bad
      /\ UNCHANGED <<init_vars, net_vars, mqtt_vars, boot_vars>>
  BY DEF RegistrationChanges
<1>2. moves' \in 0..MaxMoves
  BY RetryAssumption DEF RetryAssumption, RegistrationChanges, IInv, TypeOK
<1>3. TypeOK'
  BY <1>1, <1>2 DEF IInv, TypeOK, init_vars, net_vars, mqtt_vars, boot_vars
<1>4. Safe'
  BY <1>1 DEF IInv, Safe, Evidence, Outcome, Told, Boot, init_vars, net_vars, mqtt_vars,
     boot_vars
<1> QED BY <1>3, <1>4 DEF IInv, Safe

LEMMA Inductive == IInv /\ [Next]_vars => IInv'
<1> SUFFICES ASSUME IInv, [Next]_vars PROVE IInv'
  OBVIOUS
<1>1. CASE UNCHANGED vars
  BY <1>1 DEF vars, init_vars, net_vars, mqtt_vars, boot_vars, env_vars, IInv, TypeOK,
     Evidence, Outcome, Told, Boot
<1>2. CASE Next
  BY <1>2, InitThreadSteps, LinkStep, ClientSteps, BootStep, RegistrationStep DEF Next
<1> QED BY <1>1, <1>2

THEOREM Invariance == Spec => []IInv
  BY InitHolds, Inductive, PTL DEF Spec

-----------------------------------------------------------------------------
(* The variables keep their types and the attempts and tries their bounds.   *)
THEOREM TypeCorrect == Spec => []TypeOK
<1>1. IInv => TypeOK
  BY DEF IInv
<1> QED BY <1>1, Invariance, PTL

(* A reported link means that, in the attempt that made it, the modem said   *)
(* that the SIM is ready and that it is attached: what the registration      *)
(* checks leave in parsed_data never passes for an attachment.               *)
THEOREM SimAndAttachAlwaysSeen == Spec => []SimAndAttachSeen
<1>1. IInv => SimAndAttachSeen
  BY DEF IInv, Told, SimAndAttachSeen
<1> QED BY <1>1, Invariance, PTL

(* The application starts on a settled answer, however many attempts it took *)
(* and whatever connections broke meanwhile.                                 *)
THEOREM StartAlwaysKnows == Spec => []StartKnows
<1>1. IInv => StartKnows
  <2> SUFFICES ASSUME IInv, started PROVE
        /\ pc = "exited" /\ network_status = "DONE"
        /\ (network_link_status = 1) = (result = "OK")
        /\ synced = (result = "OK")
        /\ (client # "none") = (result = "OK")
    BY DEF StartKnows
  <2>1. pc = "exited" /\ network_status = "DONE" /\ (synced <=> network_link_status = 1)
    BY DEF IInv, Boot
  <2>2. /\ network_link_status = 1 <=> result = "OK"
        /\ client # "none" <=> result = "OK"
    BY <2>1 DEF IInv, Told, Finished
  <2>3. synced \in BOOLEAN
    BY DEF IInv, TypeOK
  <2> QED BY <2>1, <2>2, <2>3
<1> QED BY <1>1, Invariance, PTL
=============================================================================
