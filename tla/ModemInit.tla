----------------------------- MODULE ModemInit -----------------------------
(***************************************************************************)
(* How the cube gets onto the mobile network and how the rest of the       *)
(* program learns of it: the initialisation thread of the A7680C modem     *)
(* (port/A7680C/at_device_sim76xx.c), the thread that then follows the     *)
(* registration every 30 s, the notification callback of                   *)
(* network/network.c, the boot thread of liz_app.c that waits for it, and  *)
(* the connect callback of the MQTT client (network/liz_mqtt.c), which     *)
(* waits for the link.                                                     *)
(*                                                                         *)
(* An action of the initialisation thread is one AT command: the thread    *)
(* blocks on the answer, so every other thread may run between two of      *)
(* them.  An answer is one of                                              *)
(*   "error"    at_obj_exec_cmd returns a negative value (ERROR, no answer)*)
(*   "bare"     OK without the line the caller parses                      *)
(*   otherwise  the value the line carries.                                *)
(***************************************************************************)
EXTENDS Naturals, FiniteSets

CONSTANTS
    InitRetry,   \* INIT_RETRY
    Tries,       \* CPIN_, CSQ_, CREG_, CGREG_ and CGATT_RETRY, one bound here
    MaxBad,      \* bound on the answers "error" and "bare" of the modem
    MaxMoves,    \* bound on the changes of the registration
    MaxDrops     \* bound on the broken MQTT connections

ASSUME RetryAssumption ==
    /\ InitRetry \in Nat \ {0} /\ Tries \in Nat \ {0}
    /\ MaxBad \in Nat /\ MaxMoves \in Nat /\ MaxDrops \in Nat

\* What a +CREG: or +CGREG: line says: 0,1 is home, 0,5 and 0,6 are roaming.
Registration == {"home", "roaming", "searching"}
Registered == {"home", "roaming"}

\* The places of the initialisation thread; a check is repeated up to Tries
\* times, a command is sent once.
Checks == {"CPIN", "CSQ", "CREG", "CGREG", "CGATT"}
Commands == {"ATE0", "ATI", "CIPSRIP", "CGDCONT", "NETOPEN?", "NETOPEN"}
Places == {"loop", "power_on", "connect", "ntp", "power_off", "info",
           "success", "done", "exited"} \cup Checks \cup Commands

NETWORK_INIT_STATUS ==
    {"INITING", "SIM_FAIL", "CSQ_FAIL", "NET_FAIL", "SUCCESS", "DONE"}

VARIABLES
    pc,            \* where sim76xx_init_thread_entry is
    retry_num,     \* its retry_num, INIT_RETRY at first
    i,             \* its i: the failed tries of the check it is in
    result,        \* its result
    parsed_data,   \* its parsed_data, which no check clears
    qi_arg,        \* its qi_arg[0]: the signal strength, zero at first
    seen,          \* the checks whose own line said yes since power_on
    network_status, network_link_status,   \* network.c
    link_up,       \* the link flag of the netdev
    link_thread,   \* the check_link_status thread has been created
    is_started,    \* liz_mqtt.c
    client,        \* the MQTT client thread: "none", "waiting", "online"
    started,       \* system_start_flag
    synced,        \* ntp_auto_sync_init has been called
    reg,           \* the packet registration of the modem
    bad, moves, drops                      \* the bounds used up

init_vars == <<pc, retry_num, i, result, parsed_data, qi_arg, seen>>
net_vars  == <<network_status, network_link_status, link_up, link_thread>>
mqtt_vars == <<is_started, client, drops>>
boot_vars == <<started, synced>>
env_vars  == <<reg, bad, moves>>
vars == <<init_vars, net_vars, mqtt_vars, boot_vars, env_vars>>

Init ==
    /\ pc = "loop" /\ retry_num = InitRetry /\ i = 0 /\ result = "OK"
    /\ parsed_data = "blank" /\ qi_arg = "zero" /\ seen = {}
    /\ network_status = "INITING" /\ network_link_status = 0
    /\ link_up = FALSE /\ link_thread = FALSE
    /\ is_started = 0 /\ client = "none"
    /\ started = FALSE /\ synced = FALSE
    /\ reg \in Registration /\ bad = 0 /\ moves = 0 /\ drops = 0

-----------------------------------------------------------------------------
(* network_notification: what the modem driver's events do to the two      *)
(* variables the rest of the program reads.                                *)

Notify(status, link) ==
    /\ network_status' = status
    /\ network_link_status' = link
    /\ UNCHANGED <<link_up, link_thread>>

\* liz_mqtt_start returns early when the client runs already.
liz_mqtt_start ==
    IF is_started = 1
    THEN UNCHANGED mqtt_vars
    ELSE is_started' = 1 /\ client' = "waiting" /\ UNCHANGED drops

-----------------------------------------------------------------------------
(* sim76xx_init_thread_entry.                                              *)

\* An answer the modem gives to a query whose line carries a value of values.
Answer(a, values) ==
    /\ a \in values \cup {"error", "bare"}
    /\ IF a \in values THEN UNCHANGED bad ELSE bad < MaxBad /\ bad' = bad + 1
    /\ UNCHANGED <<reg, moves>>

GoTo(place) == pc' = place /\ i' = 0

\* goto __exit with a result that is not RT_EOK.
Abandon == GoTo("power_off") /\ result' = "ERROR"

\* Mutant: the attempts are not counted down.
Loop_Forever ==
    /\ pc = "loop"
    /\ GoTo("power_on")
    /\ UNCHANGED <<retry_num, result, parsed_data, qi_arg, seen, net_vars, mqtt_vars,
                   boot_vars, env_vars>>

\* while (retry_num--); after the last attempt the result decides.
Loop ==
    /\ pc = "loop"
    /\ IF retry_num > 0
       THEN GoTo("power_on") /\ retry_num' = retry_num - 1
       ELSE GoTo("done") /\ UNCHANGED retry_num
    /\ UNCHANGED <<result, parsed_data, qi_arg, seen, net_vars, mqtt_vars,
                   boot_vars, env_vars>>

\* sim76xx_power_on waits for the status pin, however long it takes.
sim76xx_power_on ==
    /\ pc = "power_on"
    /\ GoTo("connect")
    /\ seen' = {}
    /\ UNCHANGED <<retry_num, result, parsed_data, qi_arg, net_vars, mqtt_vars,
                   boot_vars, env_vars>>

\* at_client_wait_connect, then the commands whose answer nothing reads.
After == [connect |-> "ATE0", ATE0 |-> "ATI", ATI |-> "CPIN", CIPSRIP |-> "CREG",
          CGDCONT |-> "NETOPEN?", NETOPEN |-> "ntp"]

AT_SEND_CMD ==
    /\ pc \in DOMAIN After
    /\ \E a \in {"error", "yes"} :
          /\ Answer(a, {"yes"})
          /\ IF a = "error" THEN Abandon
             ELSE GoTo(After[pc]) /\ UNCHANGED result
    /\ UNCHANGED <<retry_num, parsed_data, qi_arg, seen, net_vars, mqtt_vars, boot_vars>>

\* A check that failed once more: it is tried again, and the attempt is given
\* up when the tries are used up.
TryAgain(status) ==
    /\ IF i + 1 = Tries THEN Abandon
       ELSE i' = i + 1 /\ UNCHANGED <<pc, result>>
    /\ Notify(status, 0)

Passed(next, confirmed) ==
    /\ GoTo(next)
    /\ seen' = IF confirmed THEN seen \cup {pc} ELSE seen
    /\ UNCHANGED <<result, net_vars>>

\* AT+CPIN?: the result of the command is not looked at, READY is.
CheckSim ==
    /\ pc = "CPIN"
    /\ \E a \in {"READY", "no", "error", "bare"} :
          /\ Answer(a, {"READY", "no"})
          /\ \/ a = "READY" /\ Passed("CSQ", TRUE)
             \/ a # "READY" /\ TryAgain("SIM_FAIL") /\ UNCHANGED seen
    /\ UNCHANGED <<retry_num, parsed_data, qi_arg, mqtt_vars, boot_vars>>

\* AT+CSQ: 99 stands for no signal, and so does the value of an earlier
\* answer when this one has no line.
CheckSignal ==
    /\ pc = "CSQ"
    /\ \E a \in {"known", "99", "error", "bare"} :
          /\ Answer(a, {"known", "99"})
          /\ qi_arg' = IF a \in {"known", "99"} THEN a ELSE qi_arg
          /\ \/ a = "error" /\ Abandon /\ UNCHANGED <<seen, net_vars>>
             \/ a # "error" /\ qi_arg' # "99" /\ Passed("CIPSRIP", a = "known")
             \/ a # "error" /\ qi_arg' = "99" /\ TryAgain("CSQ_FAIL") /\ UNCHANGED seen
    /\ UNCHANGED <<retry_num, parsed_data, mqtt_vars, boot_vars>>

\* What a check that parses into parsed_data finds there after the answer.
Parsed(a, values) == IF a \in values THEN a ELSE parsed_data

\* The three loops that share parsed_data: place is left for next as soon as
\* parsed_data is one of the values the loop accepts.
Check(place, values, accepted, next) ==
    /\ pc = place
    /\ \E a \in values \cup {"error", "bare"} :
          /\ Answer(a, values)
          /\ parsed_data' = Parsed(a, values)
          /\ \/ a = "error" /\ Abandon /\ UNCHANGED <<seen, net_vars>>
             \/ a # "error" /\ parsed_data' \in accepted /\ Passed(next, a \in accepted)
             \/ a # "error" /\ parsed_data' \notin accepted
                /\ TryAgain("NET_FAIL") /\ UNCHANGED seen
    /\ UNCHANGED <<retry_num, qi_arg, mqtt_vars, boot_vars>>

\* Mutant: the 1 is looked for anywhere in parsed_data, not at its start.
CheckAttach_Anywhere == Check("CGATT", {"attached", "detached"}, {"attached", "home"}, "CGDCONT")

\* The circuit registration is any, the packet registration is reg.
CheckGsm    == Check("CREG", Registration, Registered, "CGREG")
CheckGprs   == Check("CGREG", {reg}, Registered, "CGATT")
CheckAttach == Check("CGATT", {"attached", "detached"}, {"attached"}, "CGDCONT")

\* AT+NETOPEN? and, unless the network is open already, AT+NETOPEN.
AskNetOpen ==
    /\ pc = "NETOPEN?"
    /\ \E a \in {"open", "closed", "error", "bare"} :
          /\ Answer(a, {"open", "closed"})
          /\ IF a = "error" THEN Abandon
             ELSE /\ GoTo(IF a = "open" THEN "ntp" ELSE "NETOPEN")
                  /\ UNCHANGED result
    /\ UNCHANGED <<retry_num, parsed_data, qi_arg, seen, net_vars, mqtt_vars, boot_vars>>

\* sim76xx_ntp_sync, whose result is not looked at; the attempt succeeded.
Synchronise ==
    /\ pc = "ntp"
    /\ GoTo("info") /\ result' = "OK"
    /\ UNCHANGED <<retry_num, parsed_data, qi_arg, seen, net_vars, mqtt_vars,
                   boot_vars, env_vars>>

sim76xx_power_off ==
    /\ pc = "power_off"
    /\ GoTo("loop")
    /\ UNCHANGED <<retry_num, result, parsed_data, qi_arg, seen, net_vars, mqtt_vars,
                   boot_vars, env_vars>>

\* sim76xx_netdev_set_info sets the link before it asks for the addresses,
\* and the thread that follows the registration starts after it.
sim76xx_netdev_set_info ==
    /\ pc = "info"
    /\ GoTo("success")
    /\ link_up' = TRUE
    /\ UNCHANGED <<retry_num, result, parsed_data, qi_arg, seen, network_status,
                   network_link_status, link_thread, mqtt_vars, boot_vars, env_vars>>

NotifySuccess ==
    /\ pc = "success"
    /\ GoTo("done")
    /\ link_thread' = TRUE
    /\ network_status' = "SUCCESS" /\ network_link_status' = 1
    /\ liz_mqtt_start
    /\ UNCHANGED <<retry_num, result, parsed_data, qi_arg, seen, link_up, boot_vars, env_vars>>

NotifyDone ==
    /\ pc = "done"
    /\ GoTo("exited")
    /\ Notify("DONE", network_link_status)
    /\ UNCHANGED <<retry_num, result, parsed_data, qi_arg, seen, mqtt_vars,
                   boot_vars, env_vars>>

InitThread ==
    \/ Loop \/ sim76xx_power_on \/ AT_SEND_CMD \/ CheckSim \/ CheckSignal
    \/ CheckGsm \/ CheckGprs \/ CheckAttach \/ AskNetOpen \/ Synchronise
    \/ sim76xx_power_off \/ sim76xx_netdev_set_info \/ NotifySuccess \/ NotifyDone

-----------------------------------------------------------------------------
(* The other threads.                                                      *)

\* Mutant: the thread ends when a command fails.
LinkThread_Stops ==
    /\ link_thread
    /\ \E a \in {reg, "error", "bare"} :
          /\ Answer(a, {reg})
          /\ link_up' = IF a = "error" THEN link_up ELSE a = "home"
          /\ link_thread' = (a # "error")
    /\ UNCHANGED <<init_vars, network_status, network_link_status, mqtt_vars, boot_vars>>

\* One round of check_link_status_entry: only the home network counts as a
\* link, and an answer without the line counts as none.
LinkThread ==
    /\ link_thread
    /\ \E a \in {reg, "error", "bare"} :
          /\ Answer(a, {reg})
          /\ link_up' = IF a = "error" THEN link_up ELSE a = "home"
    /\ UNCHANGED <<init_vars, network_status, network_link_status, link_thread,
                   mqtt_vars, boot_vars>>

\* mqtt_connect_callback lets the client on once the link is up.
ClientConnects ==
    /\ client = "waiting" /\ link_up
    /\ client' = "online" /\ is_started' = 1
    /\ UNCHANGED <<drops, init_vars, net_vars, boot_vars, env_vars>>

\* mqtt_offline_callback; the client thread then connects again.
ClientDrops ==
    /\ client = "online" /\ drops < MaxDrops
    /\ client' = "waiting" /\ is_started' = 0 /\ drops' = drops + 1
    /\ UNCHANGED <<init_vars, net_vars, boot_vars, env_vars>>

\* Mutant: the thread goes on as soon as the network is up.
BootThread_Early ==
    /\ ~started /\ network_status \in {"SUCCESS", "DONE"}
    /\ started' = TRUE
    /\ synced' = (network_link_status = 1)
    /\ UNCHANGED <<init_vars, net_vars, mqtt_vars, env_vars>>

\* liz_init_thread polls network_status every 200 ms.
BootThread ==
    /\ ~started /\ network_status = "DONE"
    /\ started' = TRUE
    /\ synced' = (network_link_status = 1)
    /\ UNCHANGED <<init_vars, net_vars, mqtt_vars, env_vars>>

\* The network registers, loses or moves the modem.
RegistrationChanges ==
    /\ moves < MaxMoves
    /\ \E r \in Registration \ {reg} : reg' = r
    /\ moves' = moves + 1
    /\ UNCHANGED <<bad, init_vars, net_vars, mqtt_vars, boot_vars>>

Next ==
    \/ InitThread \/ LinkThread \/ ClientConnects \/ ClientDrops
    \/ BootThread \/ RegistrationChanges

(* The fairness is the scheduler's: a thread whose wait is over runs.  For *)
(* the initialisation thread it holds of sim76xx_power_on and              *)
(* sim76xx_power_off only as long as the modem obeys its power pin.        *)
Fairness ==
    WF_vars(InitThread) /\ WF_vars(LinkThread) /\ WF_vars(ClientConnects)
    /\ WF_vars(BootThread)

Spec == Init /\ [][Next]_vars /\ Fairness

-----------------------------------------------------------------------------
(* The values of the variables.                                            *)
TypeOK ==
    /\ pc \in Places
    /\ retry_num \in 0..InitRetry
    /\ i \in 0..(Tries - 1)
    /\ result \in {"OK", "ERROR"}
    /\ parsed_data \in Registration \cup {"blank", "attached", "detached"}
    /\ qi_arg \in {"zero", "known", "99"}
    /\ seen \subseteq Checks
    /\ network_status \in NETWORK_INIT_STATUS /\ network_link_status \in {0, 1}
    /\ link_up \in BOOLEAN /\ link_thread \in BOOLEAN
    /\ is_started \in {0, 1} /\ client \in {"none", "waiting", "online"}
    /\ started \in BOOLEAN /\ synced \in BOOLEAN
    /\ reg \in Registration
    /\ bad \in 0..MaxBad /\ moves \in 0..MaxMoves /\ drops \in 0..MaxDrops

(* The network is reported as connected only when, since the modem was     *)
(* last powered on, it said itself that the SIM is ready and that it is    *)
(* attached to the packet domain: the value that the registration checks   *)
(* leave in parsed_data never passes for the answer to AT+CGATT?.          *)
SimAndAttachSeen ==
    network_link_status = 1 => {"CPIN", "CGATT"} \subseteq seen

(* The application starts on a settled answer: once system_start_flag is   *)
(* set, network_link_status and the decision to keep the clock             *)
(* synchronised agree with the result of the initialisation, and the MQTT  *)
(* client was created exactly when the network came up.                    *)
StartKnows ==
    started => /\ pc = "exited" /\ network_status = "DONE"
               /\ (network_link_status = 1) = (result = "OK")
               /\ synced = (result = "OK")
               /\ (client # "none") = (result = "OK")

(* However often checks fail and attempts are repeated, the boot screen is *)
(* left: system_start_flag is set in the end.                              *)
BootEnds == <>started

(* When the modem stays on its home network the MQTT client gets past its  *)
(* connect callback, after every broken connection too.                    *)
ClientRecovers == <>[](reg = "home") => (client = "waiting" ~> client = "online")

(* "check the GSM network is registered", "check the GPRS network is       *)
(* registered" (at_device_sim76xx.c:573, 596): success is reported only    *)
(* when the modem said so.                                                 *)
RegisteredIsEvidence ==
    network_link_status = 1 => {"CREG", "CGREG"} \subseteq seen

(* A modem that the initialisation found registered (at_device_sim76xx.c:  *)
(* 605: "GPRS is registered", roaming included) and that stays registered  *)
(* has a link, so that the client waiting for it connects.                 *)
RegisteredConnects ==
    <>[](reg \in Registered) => (client = "waiting" ~> client = "online")
=============================================================================
