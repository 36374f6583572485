------------------------------ MODULE AtSocket ------------------------------
(***************************************************************************)
(* The modem's sockets (port/A7680C/at_socket_sim76xx.c).  Each socket has *)
(* a thread that connects, sends and closes; the AT parser thread handles  *)
(* the modem's unsolicited lines (URCs).  They share the events that carry *)
(* answers, the table link_num_addr that tells whose data has come, and    *)
(* linkInd, the link the next data is for.  connect and send hold the AT   *)
(* client's lock throughout, close only while a command runs, the parser   *)
(* never.                                                                  *)
(*                                                                         *)
(* The modem is external: it answers a command late or never, links close, *)
(* data comes in.                                                          *)
(***************************************************************************)
EXTENDS Integers, Sequences

CONSTANTS
  NSockets,     \* AT sockets 0..NSockets-1, of the ten of the code
  Peers,        \* the hosts talked to, each on one socket at a time
  NoOne,
  Late,         \* TRUE: an answer may come after the wait for it gave up
  MaxChunks,    \* bound: packets of one send
  MaxOps,       \* bound: operations begun
  MaxEvents,    \* bound: links the modem closes and data that comes in
  MaxUrcs       \* bound: URCs not handled yet

Socket == 0..NSockets - 1

ASSUME AtSocketAssumption ==
  /\ NSockets \in 1..10
  /\ NoOne \notin Socket \cup Peers
  /\ Late \in BOOLEAN
  /\ {MaxChunks, MaxOps, MaxEvents, MaxUrcs} \subseteq Nat \ {0}

(* The bits of SET_EVENT: those of the number socket + 1, and the results. *)
Weight == [SOCKET_1 |-> 1, SOCKET_2 |-> 2, SOCKET_4 |-> 4, SOCKET_8 |-> 8]
SocketBits(s) == {b \in DOMAIN Weight : ((s + 1) \div Weight[b]) % 2 = 1}
ConnResults == {"CONN_OK", "CONN_FAIL"}
SendResults == {"SEND_OK"}

Urc == [kind : {"open", "sent", "close", "from", "ipd"},
        socket : Socket, peer : Peers \cup {NoOne}]

VARIABLES
  lock,                     \* of the AT client
  pc, op,                   \* where each socket's thread is, in what
  target, retryed, left,    \* connect's address and retry, packets to send
  failed,                   \* connect's result is an error
  state,                    \* of the AT socket, as its user knows it
  events, waiting, got,     \* socket_event, and the lock holder's wait on it
  link_num_addr, linkInd,
  link, owed,               \* modem: the peer of each link, answers to give
  urcs,                     \* lines the parser has not handled
  answer,                   \* what the modem answered to each request (history)
  delivery,                 \* last data: its connected owner, who got it (history)
  ops, happened             \* operations begun, modem events so far (bounds)

threadVars == <<pc, op, target, retryed, left, failed, state>>
eventVars  == <<events, waiting, got>>
routeVars  == <<link_num_addr, linkInd, delivery>>
modemVars  == <<link, owed, urcs, answer, happened>>
vars == <<lock, threadVars, eventVars, routeVars, modemVars, ops>>

AnyBit == (UNION {SocketBits(s) : s \in Socket}) \cup ConnResults \cup SendResults

TypeOK ==
  /\ lock \in Socket \cup {NoOne}
  /\ pc \in [Socket -> {"idle", "close", "clear", "open", "cmd", "ask_socket",
                        "wait_socket", "ask_result", "wait_result", "exit"}]
  /\ op \in [Socket -> {"connect", "retry", "send", "close"}]
  /\ target \in [Socket -> Peers \cup {NoOne}]
  /\ retryed \in [Socket -> BOOLEAN] /\ failed \in [Socket -> BOOLEAN]
  /\ left \in [Socket -> 0..MaxChunks]
  /\ state \in [Socket -> {"free", "open", "connected", "closed"}]
  /\ events \subseteq AnyBit /\ waiting \subseteq AnyBit /\ got \subseteq AnyBit
  /\ link_num_addr \in [Socket -> Peers \cup {NoOne}]
  /\ linkInd \in Socket
  /\ link \in [Socket -> Peers \cup {NoOne}]
  /\ owed \in [Socket -> SUBSET {"open", "sent"}]
  /\ urcs \in Seq(Urc)
  /\ answer \in [Socket -> SUBSET (ConnResults \cup SendResults)]
  /\ delivery \in [owner : Socket \cup {NoOne}, given : Socket \cup {NoOne}]
  /\ ops \in 0..MaxOps /\ happened \in 0..MaxEvents

Init ==
  /\ lock = NoOne
  /\ pc = [s \in Socket |-> "idle"] /\ op = [s \in Socket |-> "close"]
  /\ target = [s \in Socket |-> NoOne]
  /\ retryed = [s \in Socket |-> FALSE] /\ failed = [s \in Socket |-> FALSE]
  /\ left = [s \in Socket |-> 0]
  /\ state = [s \in Socket |-> "free"]
  /\ events = {} /\ waiting = {} /\ got = {}
  /\ link_num_addr = [s \in Socket |-> NoOne] /\ linkInd = 0
  /\ link = [s \in Socket |-> NoOne] /\ owed = [s \in Socket |-> {}]
  /\ urcs = <<>>
  /\ answer = [s \in Socket |-> {}]
  /\ delivery = [owner |-> NoOne, given |-> NoOne]
  /\ ops = 0 /\ happened = 0

Goto(s, there) == pc' = [pc EXCEPT ![s] = there]

-----------------------------------------------------------------------------
(* Closing: sim76xx_socket_close, which connect calls too.                   *)

(* A command needs the lock, unless its thread has it already.               *)
HasModem(s) == lock \in {s, NoOne}

(* AT+CIPCLOSE, if the link is open; the modem may not carry it out.         *)
CloseCommand(s) ==
  /\ pc[s] = "close" /\ HasModem(s)
  /\ \E closes \in BOOLEAN :
       link' = IF closes THEN [link EXCEPT ![s] = NoOne] ELSE link
  /\ Goto(s, "clear")
  /\ UNCHANGED <<lock, op, target, retryed, left, failed, state, eventVars,
                 routeVars, owed, urcs, answer, happened, ops>>

(* A row is 25 bytes and 30 are cleared: the head of the next row with it.   *)
ClearRow(s) ==
  link_num_addr' = [r \in Socket |->
                      IF r \in {s, s + 1} THEN NoOne ELSE link_num_addr[r]]

(* What follows: connect opens the link, a user's close frees the socket.    *)
AfterClose(s) ==
  IF op[s] = "close"
    THEN Goto(s, "idle") /\ state' = [state EXCEPT ![s] = "free"]
    ELSE Goto(s, "open") /\ UNCHANGED state

CloseClear(s) ==
  /\ pc[s] = "clear"
  /\ ClearRow(s)
  /\ AfterClose(s)
  /\ UNCHANGED <<lock, op, target, retryed, left, failed, eventVars, linkInd,
                 delivery, modemVars, ops>>

(* A command fails and the row stays.  Only the retry looks at the result.   *)
CloseFails(s) ==
  /\ pc[s] \in {"close", "clear"} /\ HasModem(s)
  /\ IF op[s] = "retry"
       THEN /\ Goto(s, "exit") /\ failed' = [failed EXCEPT ![s] = TRUE]
            /\ UNCHANGED state
       ELSE AfterClose(s) /\ UNCHANGED failed
  /\ UNCHANGED <<lock, op, target, retryed, left, eventVars, routeVars,
                 modemVars, ops>>

(* at_closesocket leaves out the driver's close if the peer closed first.    *)
UserClose(s) ==
  /\ pc[s] = "idle" /\ state[s] # "free"
  /\ IF state[s] = "closed"
       THEN state' = [state EXCEPT ![s] = "free"] /\ UNCHANGED <<pc, op>>
       ELSE /\ state' = [state EXCEPT ![s] = "closed"]
            /\ Goto(s, "close")
            /\ op' = [op EXCEPT ![s] = "close"]
  /\ UNCHANGED <<lock, target, retryed, left, failed, eventVars, routeVars,
                 modemVars, ops>>

-----------------------------------------------------------------------------
(* Connecting: sim76xx_socket_connect.                                       *)
Begin(s) == lock = NoOne /\ pc[s] = "idle" /\ ops < MaxOps

(* The first free socket is taken.                                           *)
Connect(s, p) ==
  /\ Begin(s) /\ state[s] = "free"
  /\ \A t \in Socket : t < s => state[t] # "free"
  /\ \A t \in Socket \ {s} : state[t] = "free" \/ target[t] # p
  /\ lock' = s /\ ops' = ops + 1
  /\ Goto(s, "close")
  /\ op' = [op EXCEPT ![s] = "connect"]
  /\ target' = [target EXCEPT ![s] = p]
  /\ retryed' = [retryed EXCEPT ![s] = FALSE]
  /\ failed' = [failed EXCEPT ![s] = FALSE]
  /\ state' = [state EXCEPT ![s] = "open"]
  /\ UNCHANGED <<left, eventVars, routeVars, modemVars>>

(* AT+CIPOPEN; a command that failed may still have reached the modem, and   *)
(* its answer is waited for in either case.                                  *)
Open(s) ==
  /\ pc[s] = "open"
  /\ \E ok, reached \in BOOLEAN :
       /\ ok => reached
       /\ failed' = [failed EXCEPT ![s] = @ \/ ~ok]
       /\ owed' = IF reached THEN [owed EXCEPT ![s] = @ \cup {"open"}] ELSE owed
  /\ link_num_addr' = [link_num_addr EXCEPT ![s] = target[s]]
  /\ answer' = [answer EXCEPT ![s] = {}]
  /\ Goto(s, "ask_socket")
  /\ UNCHANGED <<lock, op, target, retryed, left, state, eventVars, linkInd,
                 delivery, link, urcs, happened, ops>>

-----------------------------------------------------------------------------
(* Sending: sim76xx_socket_send.                                             *)
StartSend(s) ==
  /\ Begin(s) /\ state[s] = "connected"
  /\ lock' = s /\ ops' = ops + 1
  /\ linkInd' = s
  /\ \E n \in 1..MaxChunks : left' = [left EXCEPT ![s] = n]
  /\ Goto(s, "cmd")
  /\ op' = [op EXCEPT ![s] = "send"]
  /\ failed' = [failed EXCEPT ![s] = FALSE]
  /\ UNCHANGED <<target, retryed, state, eventVars, link_num_addr, delivery,
                 modemVars>>

(* AT+CIPSEND and the packet after its prompt. *)
SendCommand(s) ==
  /\ pc[s] = "cmd"
  /\ \/ /\ Goto(s, "ask_socket")
        /\ owed' = [owed EXCEPT ![s] = @ \cup {"sent"}]
        /\ answer' = [answer EXCEPT ![s] = {}]
        /\ UNCHANGED failed
     \/ /\ Goto(s, "exit")
        /\ failed' = [failed EXCEPT ![s] = TRUE]
        /\ UNCHANGED <<owed, answer>>
  /\ UNCHANGED <<lock, op, target, retryed, left, state, eventVars, routeVars,
                 link, urcs, happened, ops>>

-----------------------------------------------------------------------------
(* Waiting: sim76xx_socket_event_recv, for any of the bits, which it clears. *)
Recv(bits) ==
  IF events \cap bits # {}
    THEN got' = events \cap bits /\ events' = events \ bits /\ UNCHANGED waiting
    ELSE waiting' = bits /\ UNCHANGED <<events, got>>

AskSocket(s) ==
  /\ pc[s] = "ask_socket"
  /\ Recv(SocketBits(s))
  /\ Goto(s, "wait_socket")
  /\ UNCHANGED <<lock, op, target, retryed, left, failed, state, routeVars,
                 modemVars, ops>>

Woken(s) ==
  /\ pc[s] = "wait_socket" /\ waiting = {}
  /\ Goto(s, "ask_result")
  /\ UNCHANGED <<lock, op, target, retryed, left, failed, state, eventVars,
                 routeVars, modemVars, ops>>

AskResult(s) ==
  /\ pc[s] = "ask_result"
  /\ Recv(IF op[s] = "send" THEN SendResults ELSE ConnResults)
  /\ Goto(s, "wait_result")
  /\ UNCHANGED <<lock, op, target, retryed, left, failed, state, routeVars,
                 modemVars, ops>>

(* The modem has an answer for this socket that is not in the events yet. *)
AnswerComing(s) ==
  \/ owed[s] # {}
  \/ \E i \in DOMAIN urcs : urcs[i].socket = s /\ urcs[i].kind \in {"open", "sent"}

Timeout(s) ==
  /\ pc[s] \in {"wait_socket", "wait_result"} /\ waiting # {}
  /\ Late \/ ~AnswerComing(s)
  /\ waiting' = {}
  /\ failed' = [failed EXCEPT ![s] = TRUE]
  /\ Goto(s, "exit")
  /\ UNCHANGED <<lock, op, target, retryed, left, state, events, got,
                 routeVars, modemVars, ops>>

HasResult(s) == pc[s] = "wait_result" /\ waiting = {}

(* Mutant: every refusal is retried. *)
ConnectRefused_Always(s) ==
  /\ HasResult(s) /\ op[s] # "send"
  /\ "CONN_FAIL" \in got
  /\ op' = [op EXCEPT ![s] = "retry"] /\ Goto(s, "close")
  /\ UNCHANGED <<lock, target, retryed, left, failed, state, eventVars, routeVars,
                 modemVars, ops>>

(* A refused connection is closed and tried once more. *)
ConnectRefused(s) ==
  /\ HasResult(s) /\ op[s] # "send"
  /\ "CONN_FAIL" \in got
  /\ retryed' = [retryed EXCEPT ![s] = TRUE]
  /\ IF retryed[s]
       THEN /\ failed' = [failed EXCEPT ![s] = TRUE] /\ Goto(s, "exit")
            /\ UNCHANGED op
       ELSE /\ op' = [op EXCEPT ![s] = "retry"] /\ Goto(s, "close")
            /\ UNCHANGED failed
  /\ UNCHANGED <<lock, target, left, state, eventVars, routeVars, modemVars, ops>>

Connected(s) ==
  /\ HasResult(s) /\ op[s] # "send"
  /\ "CONN_FAIL" \notin got
  /\ Goto(s, "exit")
  /\ UNCHANGED <<lock, op, target, retryed, left, failed, state, eventVars,
                 routeVars, modemVars, ops>>

Sent(s) ==
  /\ HasResult(s) /\ op[s] = "send"
  /\ left' = [left EXCEPT ![s] = @ - 1]
  /\ Goto(s, IF left[s] > 1 THEN "cmd" ELSE "exit")
  /\ UNCHANGED <<lock, op, target, retryed, failed, state, eventVars, routeVars,
                 modemVars, ops>>

(* A connection that failed is left for its user to close. *)
Exit(s) ==
  /\ pc[s] = "exit"
  /\ lock' = NoOne
  /\ state' = IF op[s] = "send" \/ failed[s] THEN state
                ELSE [state EXCEPT ![s] = "connected"]
  /\ Goto(s, "idle")
  /\ UNCHANGED <<op, target, retryed, left, failed, eventVars, routeVars,
                 modemVars, ops>>

-----------------------------------------------------------------------------
(* The modem.                                                                *)
Line(kind, s, p) == [kind |-> kind, socket |-> s, peer |-> p]
Room(n) == Len(urcs) + n <= MaxUrcs

(* An open link is not opened again. *)
ModemOpens(s) ==
  /\ "open" \in owed[s] /\ Room(1)
  /\ owed' = [owed EXCEPT ![s] = @ \ {"open"}]
  /\ \E ok \in BOOLEAN :
       /\ ok => link[s] = NoOne
       /\ link' = IF ok THEN [link EXCEPT ![s] = target[s]] ELSE link
       /\ answer' = [answer EXCEPT ![s] = {IF ok THEN "CONN_OK" ELSE "CONN_FAIL"}]
       /\ urcs' = Append(urcs, Line("open", s, IF ok THEN target[s] ELSE NoOne))
  /\ UNCHANGED <<lock, threadVars, eventVars, routeVars, happened, ops>>

ModemSends(s) ==
  /\ "sent" \in owed[s] /\ Room(1)
  /\ owed' = [owed EXCEPT ![s] = @ \ {"sent"}]
  /\ answer' = [answer EXCEPT ![s] = SendResults]
  /\ urcs' = Append(urcs, Line("sent", s, NoOne))
  /\ UNCHANGED <<lock, threadVars, eventVars, routeVars, link, happened, ops>>

PeerCloses(s) ==
  /\ link[s] # NoOne /\ Room(1) /\ happened < MaxEvents
  /\ happened' = happened + 1
  /\ link' = [link EXCEPT ![s] = NoOne]
  /\ urcs' = Append(urcs, Line("close", s, NoOne))
  /\ UNCHANGED <<lock, threadVars, eventVars, routeVars, owed, answer, ops>>

(* Two lines come together: whom the data is from, and the data. *)
DataArrives(s) ==
  /\ link[s] # NoOne /\ Room(2) /\ happened < MaxEvents
  /\ happened' = happened + 1
  /\ urcs' = urcs \o <<Line("from", s, link[s]), Line("ipd", s, NoOne)>>
  /\ UNCHANGED <<lock, threadVars, eventVars, routeVars, link, owed, answer, ops>>

-----------------------------------------------------------------------------
(* The parser: one URC at a time.                                            *)
Next_urc(kind) == urcs # <<>> /\ Head(urcs).kind = kind /\ urcs' = Tail(urcs)

(* rt_event_send: a thread that waits for one of the bits is handed those it *)
(* waits for.                                                                *)
EventSend(bits) ==
  IF waiting \cap bits # {}
    THEN /\ got' = waiting \cap (events \cup bits)
         /\ events' = (events \cup bits) \ waiting
         /\ waiting' = {}
    ELSE events' = events \cup bits /\ UNCHANGED <<got, waiting>>

(* Mutant: the result in the line is not looked at. *)
urc_connect_func_AlwaysOk ==
  /\ Next_urc("open")
  /\ EventSend(SocketBits(Head(urcs).socket) \cup {"CONN_OK"})
  /\ UNCHANGED <<lock, threadVars, routeVars, link, owed, answer, happened, ops>>

urc_connect_func ==
  /\ Next_urc("open")
  /\ EventSend(SocketBits(Head(urcs).socket) \cup
               {IF Head(urcs).peer # NoOne THEN "CONN_OK" ELSE "CONN_FAIL"})
  /\ UNCHANGED <<lock, threadVars, routeVars, link, owed, answer, happened, ops>>

(* Mutant: the socket's own bits are left out. *)
urc_send_func_NoSocket ==
  /\ Next_urc("sent")
  /\ EventSend(SendResults)
  /\ UNCHANGED <<lock, threadVars, routeVars, link, owed, answer, happened, ops>>

urc_send_func ==
  /\ Next_urc("sent")
  /\ EventSend(SocketBits(Head(urcs).socket) \cup SendResults)
  /\ UNCHANGED <<lock, threadVars, routeVars, link, owed, answer, happened, ops>>

urc_close_func ==
  /\ Next_urc("close")
  /\ LET s == Head(urcs).socket IN
       state' = [state EXCEPT ![s] = IF @ = "free" THEN @ ELSE "closed"]
  /\ UNCHANGED <<lock, pc, op, target, retryed, left, failed, eventVars,
                 routeVars, link, owed, answer, happened, ops>>

(* get_linkInd_by_ip: the first row whose text occurs in the line.  The text *)
(* of an empty row occurs in every line; without any match it is link 0.     *)
LinkByIp(p) ==
  LET Matches == {r \in Socket : link_num_addr[r] \in {p, NoOne}} IN
    IF Matches = {} THEN 0 ELSE CHOOSE r \in Matches : \A q \in Matches : r <= q

urc_recv_from_func ==
  /\ Next_urc("from")
  /\ linkInd' = LinkByIp(Head(urcs).peer)
  /\ UNCHANGED <<lock, threadVars, eventVars, link_num_addr, delivery, link, owed,
                 answer, happened, ops>>

(* The data goes to the AT socket of linkInd, which drops it if closed. *)
urc_recv_func ==
  /\ Next_urc("ipd")
  /\ LET owner == Head(urcs).socket IN
       delivery' =
         [owner |-> IF state[owner] = "connected" THEN owner ELSE NoOne,
          given |-> IF state[linkInd] \in {"free", "closed"} THEN NoOne ELSE linkInd]
  /\ UNCHANGED <<lock, threadVars, eventVars, link_num_addr, linkInd, link, owed,
                 answer, happened, ops>>

-----------------------------------------------------------------------------
Step(s) ==
  \/ CloseCommand(s)
  \/ CloseClear(s)
  \/ CloseFails(s)
  \/ Open(s)
  \/ SendCommand(s)
  \/ AskSocket(s)
  \/ Woken(s)
  \/ AskResult(s)
  \/ Timeout(s)
  \/ ConnectRefused(s)
  \/ Connected(s)
  \/ Sent(s)
  \/ Exit(s)

User(s) == UserClose(s) \/ StartSend(s) \/ \E p \in Peers : Connect(s, p)

Modem(s) == ModemOpens(s) \/ ModemSends(s) \/ PeerCloses(s) \/ DataArrives(s)

Parser ==
  \/ urc_connect_func
  \/ urc_send_func
  \/ urc_close_func
  \/ urc_recv_from_func
  \/ urc_recv_func

Next == Parser \/ \E s \in Socket : Step(s) \/ User(s) \/ Modem(s)

(* An operation begun goes on, its waits by timing out if not otherwise; the *)
(* modem and the users owe nothing.                                          *)
Spec == Init /\ [][Next]_vars /\ \A s \in Socket : WF_vars(Step(s))

-----------------------------------------------------------------------------
(* Properties.                                                               *)

(* connect and send each draw the conclusion from the modem's answer to      *)
(* their own request: the comment at SET_EVENT calls the event the real one  *)
(* of the socket and the state.                                              *)
OwnAnswer == \A s \in Socket : HasResult(s) => got = answer[s]

(* Nothing is left in the events for the next operation to mistake for its   *)
(* own (as long as no answer comes late): the bits of the socket numbers     *)
(* overlap and nothing clears them before a request.                         *)
CleanSlate == lock = NoOne => events = {} /\ waiting = {}

(* No operation keeps the modem to itself for ever: every wait is bounded    *)
(* and a refused connection is retried once only.                            *)
LockReleased == lock # NoOne ~> lock = NoOne

(* The comment beside link_num_addr: it holds which address is whose link.   *)
TableCorresponds ==
  \A s \in Socket :
    state[s] = "connected" /\ pc[s] = "idle" => link_num_addr[s] = target[s]

(* Several TCP connections work: what comes for a connected socket is given  *)
(* to that socket.                                                           *)
DeliveredToOwner == delivery.owner \in {NoOne, delivery.given}
=============================================================================
