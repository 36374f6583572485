--------------------------- MODULE AtSocket_proofs ---------------------------
(***************************************************************************)
(* As long as no answer comes late, every request of a socket is decided   *)
(* by the modem's answer to it, for any number of sockets, operations and  *)
(* lines: the AT lock admits one request at a time, so that its answer is  *)
(* owed, or in one line, or in the events, and nothing else is.            *)
(***************************************************************************)
EXTENDS AtSocket, TLAPS

IsAnswer(line) == line.kind \in {"open", "sent"}

(* The modem owes nothing, and no answer of it is still to be handled. *)
NoneComing ==
  /\ \A s \in Socket : owed[s] = {}
  /\ \A i \in DOMAIN urcs : ~IsAnswer(urcs[i])

Nothing == events = {} /\ waiting = {} /\ NoneComing

Results(s) == IF op[s] = "send" THEN SendResults ELSE ConnResults
Answered(s) == answer[s] # {} /\ answer[s] \subseteq Results(s)

(* Only the holder of the lock is inside connect or send. *)
Holding ==
  \A s \in Socket :
    /\ lock # s => pc[s] \in {"idle", "close", "clear"}
    /\ lock # s /\ pc[s] # "idle" => op[s] = "close"
    /\ lock = s => pc[s] # "idle" /\ op[s] # "close"
    /\ lock = s /\ pc[s] \in {"close", "clear", "open"} => op[s] # "send"
    /\ lock = s /\ pc[s] = "cmd" => op[s] = "send"
    /\ lock = s /\ op[s] # "send" => target[s] \in Peers
    /\ lock = s /\ op[s] = "send" /\ pc[s] # "exit" => left[s] > 0

(* What the modem owes, and the lines with its answers, are the holder's;    *)
(* there is one such line at most, and it says what the modem answered.      *)
Underway ==
  /\ \A s \in Socket :
       owed[s] # {} => /\ lock = s
                       /\ owed[s] = {IF op[s] = "send" THEN "sent" ELSE "open"}
  /\ \A i \in DOMAIN urcs : IsAnswer(urcs[i]) =>
       /\ urcs[i].socket = lock /\ owed[lock] = {}
       /\ urcs[i].kind = IF op[lock] = "send" THEN "sent" ELSE "open"
       /\ answer[lock] =
            IF op[lock] = "send" THEN SendResults
            ELSE {IF urcs[i].peer # NoOne THEN "CONN_OK" ELSE "CONN_FAIL"}
  /\ \A i, j \in DOMAIN urcs : IsAnswer(urcs[i]) /\ IsAnswer(urcs[j]) => i = j

(* What the events hold at each place of the holder. *)
Stage ==
  /\ lock = NoOne => Nothing
  /\ \A s \in Socket : lock = s =>
       /\ pc[s] \in {"close", "clear", "open", "cmd", "exit"} => Nothing
       /\ pc[s] = "ask_socket" =>
            /\ waiting = {}
            /\ \/ events = {}
               \/ NoneComing /\ Answered(s) /\ events = SocketBits(s) \cup answer[s]
       /\ pc[s] = "wait_socket" =>
            \/ waiting = SocketBits(s) /\ events = {}
            \/ waiting = {} /\ NoneComing /\ Answered(s) /\ events = answer[s]
       /\ pc[s] = "ask_result" =>
            waiting = {} /\ NoneComing /\ Answered(s) /\ events = answer[s]
       /\ pc[s] = "wait_result" => Nothing /\ Answered(s) /\ got = answer[s]

Safe == Holding /\ Underway /\ Stage
IInv == TypeOK /\ Safe

-----------------------------------------------------------------------------
(* The bits of a socket's number are some, and none of them is a result.     *)
LEMMA BitFacts ==
  /\ \A s \in Socket : /\ SocketBits(s) # {} /\ SocketBits(s) \subseteq AnyBit
                       /\ SocketBits(s) \cap (ConnResults \cup SendResults) = {}
  /\ ConnResults \subseteq AnyBit /\ SendResults \subseteq AnyBit
<1>1. DOMAIN Weight = {"SOCKET_1", "SOCKET_2", "SOCKET_4", "SOCKET_8"}
  BY DEF Weight
<1>2. \A s \in Socket : SocketBits(s) \cap (ConnResults \cup SendResults) = {}
  BY <1>1 DEF SocketBits, ConnResults, SendResults
<1>3. \A s \in Socket : SocketBits(s) # {}
  <2> TAKE s \in Socket
  <2>1. s \in 0..9  BY AtSocketAssumption DEF Socket
  <2>2. /\ Weight["SOCKET_1"] = 1 /\ Weight["SOCKET_2"] = 2
        /\ Weight["SOCKET_4"] = 4 /\ Weight["SOCKET_8"] = 8
    BY DEF Weight
  <2>3. \/ ((s + 1) \div 1) % 2 = 1 \/ ((s + 1) \div 2) % 2 = 1
        \/ ((s + 1) \div 4) % 2 = 1 \/ ((s + 1) \div 8) % 2 = 1
    BY <2>1
  <2> QED  BY <1>1, <2>2, <2>3 DEF SocketBits
<1> QED  BY <1>2, <1>3 DEF AnyBit

LEMMA InitHolds == Init => IInv
<1> SUFFICES ASSUME Init PROVE IInv
  OBVIOUS
<1>1. 0 \in Socket /\ NSockets \in 1..10 /\ MaxOps \in Nat /\ MaxEvents \in Nat
      /\ MaxChunks \in Nat
  BY AtSocketAssumption DEF Socket
<1>2. TypeOK
  BY <1>1 DEF Init, TypeOK
<1>3. Safe
  BY AtSocketAssumption DEF Init, Safe, Holding, Underway, Stage, Nothing, NoneComing
<1> QED  BY <1>2, <1>3 DEF IInv

LEMMA LineTypes ==
  ASSUME TypeOK
  PROVE  \A i \in DOMAIN urcs : urcs[i].socket \in Socket
<1>1. \A i \in DOMAIN urcs : urcs[i] \in Urc  BY DEF TypeOK
<1> QED  BY <1>1 DEF Urc

(* Lines come in at the end and go at the head. *)
LEMMA LinesGo ==
  ASSUME urcs \in Seq(Urc), urcs # <<>>, urcs' = Tail(urcs)
  PROVE  /\ urcs' \in Seq(Urc) /\ Head(urcs) = urcs[1] /\ 1 \in DOMAIN urcs
         /\ Head(urcs) \in Urc
         /\ \A i \in DOMAIN urcs' : i + 1 \in DOMAIN urcs /\ urcs'[i] = urcs[i + 1]
         /\ \A i \in DOMAIN urcs' : i \in Int
OBVIOUS

LEMMA LineComes ==
  ASSUME urcs \in Seq(Urc), NEW line \in Urc, urcs' = Append(urcs, line)
  PROVE  /\ urcs' \in Seq(Urc)
         /\ \A i \in DOMAIN urcs' :
              \/ i \in DOMAIN urcs /\ urcs'[i] = urcs[i]
              \/ i = Len(urcs) + 1 /\ urcs'[i] = line
OBVIOUS

LEMMA LinesCome ==
  ASSUME urcs \in Seq(Urc), NEW l1 \in Urc, NEW l2 \in Urc, urcs' = urcs \o <<l1, l2>>
  PROVE  /\ urcs' \in Seq(Urc)
         /\ \A i \in DOMAIN urcs' :
              \/ i \in DOMAIN urcs /\ urcs'[i] = urcs[i]
              \/ urcs'[i] \in {l1, l2}
OBVIOUS

-----------------------------------------------------------------------------
(* Types.                                                                    *)
LEMMA RecvTypes ==
  ASSUME TypeOK, NEW bits \in SUBSET AnyBit, Recv(bits)
  PROVE  events' \subseteq AnyBit /\ waiting' \subseteq AnyBit /\ got' \subseteq AnyBit
BY DEF TypeOK, Recv

LEMMA CloseTypes ==
  ASSUME TypeOK, NEW s \in Socket, CloseCommand(s) \/ CloseClear(s) \/ CloseFails(s) \/ UserClose(s)
  PROVE  TypeOK'
<1>1. CASE CloseCommand(s)
  BY <1>1 DEF TypeOK, CloseCommand, Goto, eventVars, routeVars
<1>2. CASE CloseClear(s)
  BY <1>2 DEF TypeOK, CloseClear, ClearRow, AfterClose, Goto, eventVars, modemVars
<1>3. CASE CloseFails(s)
  BY <1>3 DEF TypeOK, CloseFails, AfterClose, Goto, eventVars, routeVars, modemVars
<1>4. CASE UserClose(s)
  BY <1>4 DEF TypeOK, UserClose, Goto, eventVars, routeVars, modemVars
<1> QED  BY <1>1, <1>2, <1>3, <1>4

LEMMA RequestTypes ==
  ASSUME TypeOK, NEW s \in Socket,
         \/ \E p \in Peers : Connect(s, p)
         \/ Open(s) \/ StartSend(s) \/ SendCommand(s)
  PROVE  TypeOK'
<1>0. MaxOps \in Nat /\ MaxChunks \in Nat
  BY AtSocketAssumption
<1>1. ASSUME NEW p \in Peers, Connect(s, p) PROVE TypeOK'
  BY <1>0, <1>1 DEF TypeOK, Connect, Begin, Goto, eventVars, routeVars, modemVars
<1>2. CASE Open(s)
  <2>1. PICK ok \in BOOLEAN, reached \in BOOLEAN :
          /\ failed' = [failed EXCEPT ![s] = @ \/ ~ok]
          /\ owed' = IF reached THEN [owed EXCEPT ![s] = @ \cup {"open"}] ELSE owed
    BY <1>2 DEF Open
  <2>2. failed' \in [Socket -> BOOLEAN]
    BY <2>1, Zenon DEF TypeOK
  <2>3. owed' \in [Socket -> SUBSET {"open", "sent"}]
    BY <2>1 DEF TypeOK
  <2> QED  BY <1>2, <2>2, <2>3 DEF TypeOK, Open, Goto, eventVars
<1>3. CASE StartSend(s)
  BY <1>0, <1>3 DEF TypeOK, StartSend, Begin, Goto, eventVars, modemVars
<1>4. CASE SendCommand(s)
  <2>1. failed' \in [Socket -> BOOLEAN]
    BY <1>4, Zenon DEF TypeOK, SendCommand
  <2>2. owed' \in [Socket -> SUBSET {"open", "sent"}]
    BY <1>4 DEF TypeOK, SendCommand
  <2>3. answer' \in [Socket -> SUBSET (ConnResults \cup SendResults)]
    BY <1>4 DEF TypeOK, SendCommand
  <2>4. pc' = [pc EXCEPT ![s] = "ask_socket"] \/ pc' = [pc EXCEPT ![s] = "exit"]
    BY <1>4 DEF SendCommand, Goto
  <2> QED  BY <1>4, <2>1, <2>2, <2>3, <2>4 DEF TypeOK, SendCommand, eventVars, routeVars
<1> QED  BY <1>1, <1>2, <1>3, <1>4

LEMMA WaitTypes ==
  ASSUME TypeOK, NEW s \in Socket,
         AskSocket(s) \/ Woken(s) \/ AskResult(s) \/ Timeout(s)
  PROVE  TypeOK'
<1>1. CASE AskSocket(s)
  <2>1. SocketBits(s) \in SUBSET AnyBit  BY BitFacts
  <2>2. events' \subseteq AnyBit /\ waiting' \subseteq AnyBit /\ got' \subseteq AnyBit
    BY <1>1, <2>1, RecvTypes DEF AskSocket
  <2> QED  BY <1>1, <2>2 DEF TypeOK, AskSocket, Goto, routeVars, modemVars
<1>2. CASE Woken(s)
  BY <1>2 DEF TypeOK, Woken, Goto, eventVars, routeVars, modemVars
<1>3. CASE AskResult(s)
  <2>1. Results(s) \in SUBSET AnyBit  BY BitFacts DEF Results
  <2>2. events' \subseteq AnyBit /\ waiting' \subseteq AnyBit /\ got' \subseteq AnyBit
    BY <1>3, <2>1, RecvTypes DEF AskResult, Results
  <2> QED  BY <1>3, <2>2 DEF TypeOK, AskResult, Goto, routeVars, modemVars
<1>4. CASE Timeout(s)
  BY <1>4 DEF TypeOK, Timeout, Goto, routeVars, modemVars
<1> QED  BY <1>1, <1>2, <1>3, <1>4

LEMMA ResultTypes ==
  ASSUME TypeOK, Holding, NEW s \in Socket,
         ConnectRefused(s) \/ Connected(s) \/ Sent(s) \/ Exit(s)
  PROVE  TypeOK'
<1>1. CASE ConnectRefused(s)
  <2>1. failed' \in [Socket -> BOOLEAN] /\ retryed' \in [Socket -> BOOLEAN]
    BY <1>1, Zenon DEF TypeOK, ConnectRefused
  <2>2. \/ pc' = [pc EXCEPT ![s] = "exit"] /\ op' = op
        \/ pc' = [pc EXCEPT ![s] = "close"] /\ op' = [op EXCEPT ![s] = "retry"]
    BY <1>1, Zenon DEF ConnectRefused, Goto
  <2> QED  BY <1>1, <2>1, <2>2 DEF TypeOK, ConnectRefused, eventVars, routeVars, modemVars
<1>2. CASE Connected(s)
  BY <1>2 DEF TypeOK, Connected, Goto, eventVars, routeVars, modemVars
<1>3. CASE Sent(s)
  <2>0. left[s] \in 0..MaxChunks /\ MaxChunks \in Nat
    BY AtSocketAssumption DEF TypeOK
  <2>1. pc[s] = "wait_result" /\ op[s] = "send"
    BY <1>3 DEF Sent, HasResult
  <2>8. left[s] > 0
    BY <2>1 DEF Holding
  <2>2. left' = [left EXCEPT ![s] = left[s] - 1]
    BY <1>3 DEF Sent
  <2>3. left[s] - 1 \in 0..MaxChunks
    BY <2>0, <2>8
  <2>4. left' \in [Socket -> 0..MaxChunks]
    BY <2>2, <2>3 DEF TypeOK
  <2>5. pc' = [pc EXCEPT ![s] = IF left[s] > 1 THEN "cmd" ELSE "exit"]
    BY <1>3 DEF Sent, Goto
  <2>6. pc' \in [Socket -> {"idle", "close", "clear", "open", "cmd", "ask_socket",
                            "wait_socket", "ask_result", "wait_result", "exit"}]
    <3> DEFINE there == IF left[s] > 1 THEN "cmd" ELSE "exit"
    <3>1. there \in {"cmd", "exit"}  OBVIOUS
    <3>2. pc' = [pc EXCEPT ![s] = there]  BY <2>5
    <3> HIDE DEF there
    <3> QED  BY <3>1, <3>2 DEF TypeOK
  <2>7. UNCHANGED <<lock, op, target, retryed, failed, state, eventVars, routeVars,
                    modemVars, ops>>
    BY <1>3 DEF Sent
  <2> QED  BY <2>4, <2>6, <2>7 DEF TypeOK, eventVars, routeVars, modemVars
<1>4. CASE Exit(s)
  BY <1>4 DEF TypeOK, Exit, Goto, eventVars, routeVars, modemVars
<1> QED  BY <1>1, <1>2, <1>3, <1>4

LEMMA ModemTypes ==
  ASSUME TypeOK, NEW s \in Socket, Modem(s)
  PROVE  TypeOK'
<1>0. MaxEvents \in Nat
  BY AtSocketAssumption
<1>1. CASE ModemOpens(s)
  <2>1. PICK ok \in BOOLEAN :
          /\ link' = IF ok THEN [link EXCEPT ![s] = target[s]] ELSE link
          /\ answer' = [answer EXCEPT ![s] = {IF ok THEN "CONN_OK" ELSE "CONN_FAIL"}]
          /\ urcs' = Append(urcs, Line("open", s, IF ok THEN target[s] ELSE NoOne))
    BY <1>1 DEF ModemOpens
  <2>2. Line("open", s, IF ok THEN target[s] ELSE NoOne) \in Urc
    BY DEF TypeOK, Line, Urc
  <2>3. urcs' \in Seq(Urc)  BY <2>1, <2>2, LineComes DEF TypeOK
  <2>4. answer' \in [Socket -> SUBSET (ConnResults \cup SendResults)]
    BY <2>1 DEF TypeOK, ConnResults
  <2> QED  BY <1>1, <2>1, <2>3, <2>4 DEF TypeOK, ModemOpens, threadVars, eventVars, routeVars
<1>2. CASE ModemSends(s)
  <2>1. Line("sent", s, NoOne) \in Urc  BY DEF Line, Urc
  <2>2. urcs' \in Seq(Urc)  BY <1>2, <2>1, LineComes DEF TypeOK, ModemSends
  <2> QED  BY <1>2, <2>2 DEF TypeOK, ModemSends, threadVars, eventVars, routeVars
<1>3. CASE PeerCloses(s)
  <2>1. Line("close", s, NoOne) \in Urc  BY DEF Line, Urc
  <2>2. urcs' \in Seq(Urc)  BY <1>3, <2>1, LineComes DEF TypeOK, PeerCloses
  <2> QED  BY <1>0, <1>3, <2>2 DEF TypeOK, PeerCloses, threadVars, eventVars, routeVars
<1>4. CASE DataArrives(s)
  <2>1. Line("from", s, link[s]) \in Urc /\ Line("ipd", s, NoOne) \in Urc
    BY DEF Line, Urc, TypeOK
  <2>2. urcs' \in Seq(Urc)  BY <1>4, <2>1, LinesCome DEF TypeOK, DataArrives
  <2> QED  BY <1>0, <1>4, <2>2 DEF TypeOK, DataArrives, threadVars, eventVars, routeVars
<1> QED  BY <1>1, <1>2, <1>3, <1>4 DEF Modem

LEMMA ParserTypes ==
  ASSUME TypeOK, Parser
  PROVE  TypeOK'
<1>1. urcs # <<>> /\ urcs' = Tail(urcs)
  BY DEF Parser, Next_urc, urc_connect_func, urc_send_func, urc_close_func,
         urc_recv_from_func, urc_recv_func
<1>2. urcs' \in Seq(Urc) /\ Head(urcs) \in Urc
  BY <1>1, LinesGo DEF TypeOK
<1>3. Head(urcs).socket \in Socket  BY <1>2 DEF Urc
<1>4. ASSUME NEW bits \in SUBSET AnyBit, EventSend(bits)
      PROVE  events' \subseteq AnyBit /\ waiting' \subseteq AnyBit /\ got' \subseteq AnyBit
  BY <1>4 DEF TypeOK, EventSend
<1>5. CASE urc_connect_func
  <2>1. SocketBits(Head(urcs).socket) \cup
          {IF Head(urcs).peer # NoOne THEN "CONN_OK" ELSE "CONN_FAIL"} \in SUBSET AnyBit
    BY <1>3, BitFacts DEF ConnResults
  <2>2. events' \subseteq AnyBit /\ waiting' \subseteq AnyBit /\ got' \subseteq AnyBit
    BY <1>4, <1>5, <2>1 DEF urc_connect_func
  <2> QED  BY <1>2, <1>5, <2>2 DEF TypeOK, urc_connect_func, threadVars, routeVars
<1>6. CASE urc_send_func
  <2>1. SocketBits(Head(urcs).socket) \cup SendResults \in SUBSET AnyBit
    BY <1>3, BitFacts
  <2>2. events' \subseteq AnyBit /\ waiting' \subseteq AnyBit /\ got' \subseteq AnyBit
    BY <1>4, <1>6, <2>1 DEF urc_send_func
  <2> QED  BY <1>2, <1>6, <2>2 DEF TypeOK, urc_send_func, threadVars, routeVars
<1>7. CASE urc_close_func
  BY <1>2, <1>3, <1>7 DEF TypeOK, urc_close_func, eventVars, routeVars
<1>8. CASE urc_recv_from_func
  <2>1. LinkByIp(Head(urcs).peer) \in Socket
    <3> DEFINE M == {r \in Socket : link_num_addr[r] \in {Head(urcs).peer, NoOne}}
    <3>1. 0 \in Socket  BY AtSocketAssumption DEF Socket
    <3>2. ASSUME M # {} PROVE \E r \in M : \A q \in M : r <= q
      <4>1. M \subseteq 0..9  BY AtSocketAssumption DEF Socket
      <4>2. PICK r \in M : TRUE  BY <3>2
      <4> DEFINE Least(n) == n \in M /\ \A q \in M : n <= q
      <4> HIDE DEF M
      <4>3. \/ Least(0) \/ Least(1) \/ Least(2) \/ Least(3) \/ Least(4)
            \/ Least(5) \/ Least(6) \/ Least(7) \/ Least(8) \/ Least(9)
        BY <4>1, <4>2
      <4> QED  BY <4>3
    <3> QED  BY <3>1, <3>2 DEF LinkByIp
  <2> QED  BY <1>2, <1>8, <2>1 DEF TypeOK, urc_recv_from_func, threadVars, eventVars
<1>9. CASE urc_recv_func
  BY <1>2, <1>3, <1>9 DEF TypeOK, urc_recv_func, threadVars, eventVars
<1> QED  BY <1>5, <1>6, <1>7, <1>8, <1>9 DEF Parser

-----------------------------------------------------------------------------
(* The lock.                                                                 *)

(* What the holder of the lock may do to itself. *)
LEMMA HolderMoves ==
  ASSUME TypeOK, Holding, NEW s \in Socket, lock = s, lock' = s, target' = target,
         \A r \in Socket \ {s} : pc'[r] = pc[r] /\ op'[r] = op[r],
         pc'[s] # "idle", op'[s] # "close",
         pc'[s] \in {"close", "clear", "open"} => op'[s] # "send",
         pc'[s] = "cmd" => op'[s] = "send",
         op'[s] # "send" => op[s] # "send",
         op'[s] = "send" /\ pc'[s] # "exit" => left'[s] > 0
  PROVE  Holding'
BY DEF Holding

(* Closing, with the lock or without it. *)
LEMMA CloseHolding ==
  ASSUME TypeOK, Holding, NEW s \in Socket,
         CloseCommand(s) \/ CloseClear(s) \/ CloseFails(s) \/ UserClose(s)
  PROVE  /\ Holding'
         /\ \A r \in Socket \ {s} : pc'[r] = pc[r] /\ op'[r] = op[r]
         /\ lock # s => /\ pc'[s] \in {"idle", "close", "clear"}
                        /\ pc'[s] # "idle" => op'[s] = "close"
         /\ lock = s => /\ pc[s] \in {"close", "clear"}
                        /\ pc'[s] \in {"clear", "open", "exit"}
<1>1. UNCHANGED <<lock, target, left>>
  BY DEF CloseCommand, CloseClear, CloseFails, UserClose
<1>2. \/ /\ pc[s] \in {"close", "clear"} /\ op' = op
         /\ \/ pc' = [pc EXCEPT ![s] = "clear"]
            \/ pc' = [pc EXCEPT ![s] = IF op[s] = "close" THEN "idle" ELSE "open"]
            \/ op[s] = "retry" /\ pc' = [pc EXCEPT ![s] = "exit"]
      \/ /\ pc[s] = "idle"
         /\ \/ pc' = pc /\ op' = op
            \/ /\ pc' = [pc EXCEPT ![s] = "close"]
               /\ op' = [op EXCEPT ![s] = "close"]
  BY DEF CloseCommand, CloseClear, CloseFails, UserClose, AfterClose, Goto
<1>3. \A r \in Socket \ {s} : pc'[r] = pc[r] /\ op'[r] = op[r]
  BY <1>2 DEF TypeOK
<1>4. CASE lock # s
  <2>1. pc'[s] \in {"idle", "close", "clear"} /\ (pc'[s] # "idle" => op'[s] = "close")
    BY <1>2, <1>4 DEF TypeOK, Holding
  <2> QED  BY <1>1, <1>3, <1>4, <2>1 DEF Holding
<1>5. CASE lock = s
  <2>1. pc[s] \in {"close", "clear"} /\ op'[s] = op[s] /\ op[s] \notin {"close", "send"}
    BY <1>2, <1>5 DEF Holding
  <2>2. pc'[s] \in {"clear", "open", "exit"}
    BY <1>2, <2>1 DEF TypeOK
  <2> QED  BY <1>1, <1>3, <1>5, <2>1, <2>2, HolderMoves
<1> QED  BY <1>4, <1>5

LEMMA BeginHolding ==
  ASSUME TypeOK, Holding, NEW s \in Socket,
         StartSend(s) \/ \E p \in Peers : Connect(s, p)
  PROVE  Holding' /\ pc'[s] \in {"close", "cmd"}
<1>1. lock = NoOne /\ lock' = s /\ s # NoOne
  BY AtSocketAssumption DEF StartSend, Connect, Begin
<1>2. \A r \in Socket : /\ pc[r] \in {"idle", "close", "clear"}
                        /\ pc[r] # "idle" => op[r] = "close"
  BY <1>1, AtSocketAssumption DEF Holding
<1>3. CASE StartSend(s)
  <2>1. PICK n \in 1..MaxChunks : left' = [left EXCEPT ![s] = n]
    BY <1>3 DEF StartSend
  <2>2. left'[s] > 0
    BY <2>1, AtSocketAssumption DEF TypeOK
  <2>3. pc' = [pc EXCEPT ![s] = "cmd"] /\ op' = [op EXCEPT ![s] = "send"]
    BY <1>3 DEF StartSend, Goto
  <2> QED  BY <1>1, <1>2, <2>2, <2>3 DEF TypeOK, Holding
<1>4. ASSUME NEW p \in Peers, Connect(s, p)
      PROVE  Holding' /\ pc'[s] = "close"
  <2>1. /\ pc' = [pc EXCEPT ![s] = "close"] /\ op' = [op EXCEPT ![s] = "connect"]
        /\ target' = [target EXCEPT ![s] = p]
    BY <1>4 DEF Connect, Goto
  <2> QED  BY <1>1, <1>2, <2>1 DEF TypeOK, Holding
<1> QED  BY <1>3, <1>4

LEMMA WaitHolding ==
  ASSUME TypeOK, Holding, NEW s \in Socket,
         \/ Open(s) \/ SendCommand(s)
         \/ AskSocket(s) \/ Woken(s) \/ AskResult(s) \/ Timeout(s)
  PROVE  Holding'
<1>1. /\ UNCHANGED <<lock, op, target, left>>
      /\ pc[s] \in {"open", "cmd", "ask_socket", "wait_socket", "ask_result",
                    "wait_result"}
  BY DEF Open, SendCommand, AskSocket, Woken, AskResult, Timeout
<1>2. /\ \A r \in Socket \ {s} : pc'[r] = pc[r] /\ op'[r] = op[r]
      /\ pc'[s] \in {"ask_socket", "wait_socket", "ask_result", "wait_result", "exit"}
  BY <1>1 DEF TypeOK, Open, SendCommand, AskSocket, Woken, AskResult, Timeout, Goto
<1>3. lock = s /\ op[s] # "close" /\ (op[s] = "send" => left[s] > 0)
  BY <1>1 DEF Holding
<1> QED  BY <1>1, <1>2, <1>3, HolderMoves

LEMMA ResultHolding ==
  ASSUME TypeOK, Holding, NEW s \in Socket,
         ConnectRefused(s) \/ Connected(s) \/ Sent(s) \/ Exit(s)
  PROVE  Holding' /\ pc'[s] \in {"close", "cmd", "exit", "idle"}
<1>1. /\ target' = target /\ pc[s] \in {"wait_result", "exit"}
  BY DEF ConnectRefused, Connected, Sent, Exit, HasResult
<1>2. lock = s /\ op[s] # "close"
  BY <1>1 DEF Holding
<1>3. CASE ConnectRefused(s) \/ Connected(s)
  <2>1. /\ op[s] # "send" /\ lock' = lock
        /\ \/ pc' = [pc EXCEPT ![s] = "exit"] /\ op' = op
           \/ /\ pc' = [pc EXCEPT ![s] = "close"]
              /\ op' = [op EXCEPT ![s] = "retry"]
    BY <1>3 DEF ConnectRefused, Connected, Goto
  <2>2. /\ \A r \in Socket \ {s} : pc'[r] = pc[r] /\ op'[r] = op[r]
        /\ pc'[s] \in {"close", "exit"} /\ op'[s] \notin {"close", "send"}
    BY <1>2, <2>1 DEF TypeOK
  <2> QED  BY <1>1, <1>2, <2>1, <2>2, HolderMoves
<1>4. CASE Sent(s)
  <2>1. /\ op[s] = "send" /\ lock' = lock /\ op' = op
        /\ left' = [left EXCEPT ![s] = left[s] - 1]
        /\ pc' = [pc EXCEPT ![s] = IF left[s] > 1 THEN "cmd" ELSE "exit"]
    BY <1>4 DEF Sent, Goto
  <2>2. \A r \in Socket \ {s} : pc'[r] = pc[r] /\ op'[r] = op[r]
    BY <2>1 DEF TypeOK
  <2>3. \/ pc'[s] = "cmd" /\ left'[s] > 0
        \/ pc'[s] = "exit"
    BY <2>1, AtSocketAssumption DEF TypeOK
  <2> QED  BY <1>1, <1>2, <2>1, <2>2, <2>3, HolderMoves
<1>5. CASE Exit(s)
  <2>1. /\ lock' = NoOne /\ op' = op /\ left' = left
        /\ pc' = [pc EXCEPT ![s] = "idle"]
    BY <1>5 DEF Exit, Goto
  <2>2. NoOne \notin Socket
    BY AtSocketAssumption
  <2> QED  BY <1>1, <1>2, <2>1, <2>2 DEF TypeOK, Holding
<1> QED  BY <1>3, <1>4, <1>5

LEMMA HoldingKept ==
  ASSUME TypeOK, Holding, [Next]_vars
  PROVE  Holding'
<1>1. ASSUME NEW s \in Socket, Step(s) \/ User(s) PROVE Holding'
  BY <1>1, CloseHolding, BeginHolding, WaitHolding, ResultHolding DEF Step, User
<1>2. CASE Parser \/ (\E s \in Socket : Modem(s)) \/ UNCHANGED vars
  <2>1. UNCHANGED <<lock, pc, op, target, left>>
    BY <1>2 DEF Parser, urc_connect_func, urc_send_func, urc_close_func,
       urc_recv_from_func, urc_recv_func, Modem, ModemOpens, ModemSends, PeerCloses,
       DataArrives, vars, threadVars
  <2> QED  BY <2>1 DEF Holding
<1> QED  BY <1>1, <1>2 DEF Next

-----------------------------------------------------------------------------
(* The events.                                                               *)

(* Whatever else happens to the lines, the one with an answer stays the only *)
(* one of its kind.                                                          *)
AnswersKept ==
  /\ \A i \in DOMAIN urcs' :
       IsAnswer(urcs'[i]) => \E j \in DOMAIN urcs : urcs[j] = urcs'[i]
  /\ \A i, j \in DOMAIN urcs' :
       IsAnswer(urcs'[i]) /\ IsAnswer(urcs'[j]) => i = j

LEMMA LinesKept ==
  ASSUME urcs \in Seq(Urc), Underway,
         \/ urcs' = urcs
         \/ urcs # <<>> /\ urcs' = Tail(urcs)
         \/ \E line \in Urc : ~IsAnswer(line) /\ urcs' = Append(urcs, line)
         \/ \E l1, l2 \in Urc : /\ ~IsAnswer(l1) /\ ~IsAnswer(l2)
                                /\ urcs' = urcs \o <<l1, l2>>
  PROVE  AnswersKept
<1>1. \A i, j \in DOMAIN urcs : IsAnswer(urcs[i]) /\ IsAnswer(urcs[j]) => i = j
  BY DEF Underway
<1>2. CASE urcs' = urcs
  BY <1>1, <1>2 DEF AnswersKept
<1>3. CASE urcs # <<>> /\ urcs' = Tail(urcs)
  <2>1. /\ \A i \in DOMAIN urcs' : i + 1 \in DOMAIN urcs /\ urcs'[i] = urcs[i + 1]
        /\ \A i \in DOMAIN urcs' : i \in Int
    BY <1>3, LinesGo
  <2>2. \A i, j \in DOMAIN urcs' :
          IsAnswer(urcs'[i]) /\ IsAnswer(urcs'[j]) => i + 1 = j + 1
    BY <1>1, <2>1
  <2> QED  BY <2>1, <2>2 DEF AnswersKept
<1>4. ASSUME NEW line \in Urc, ~IsAnswer(line), urcs' = Append(urcs, line)
      PROVE  AnswersKept
  <2>1. \A i \in DOMAIN urcs' : IsAnswer(urcs'[i]) =>
          i \in DOMAIN urcs /\ urcs'[i] = urcs[i]
    BY <1>4, LineComes
  <2> QED  BY <1>1, <2>1 DEF AnswersKept
<1>5. ASSUME NEW l1 \in Urc, NEW l2 \in Urc, ~IsAnswer(l1), ~IsAnswer(l2),
             urcs' = urcs \o <<l1, l2>>
      PROVE  AnswersKept
  <2>1. \A i \in DOMAIN urcs' : IsAnswer(urcs'[i]) =>
          i \in DOMAIN urcs /\ urcs'[i] = urcs[i]
    BY <1>5, LinesCome
  <2> QED  BY <1>1, <2>1 DEF AnswersKept
<1> QED  BY <1>2, <1>3, <1>4, <1>5

(* A step that leaves the holder, the events and what is owed alone. *)
LEMMA Aside ==
  ASSUME TypeOK, Safe, AnswersKept,
         UNCHANGED <<lock, events, waiting, got, owed, answer>>,
         \A s \in Socket :
           IF lock = s
             THEN pc'[s] = pc[s] /\ op'[s] = op[s] /\ target'[s] = target[s]
                  /\ left'[s] = left[s]
             ELSE pc'[s] \in {"idle", "close", "clear"}
                  /\ (pc'[s] # "idle" => op'[s] = "close")
  PROVE  Safe'
<1>1. Holding'
  BY DEF Safe, Holding
<1>2. NoneComing => NoneComing'
  BY DEF AnswersKept, NoneComing, IsAnswer
<1>3. Underway'
  <2>1. \A s \in Socket : owed'[s] # {} =>
           lock' = s /\ owed'[s] = {IF op'[s] = "send" THEN "sent" ELSE "open"}
    BY DEF Safe, Underway
  <2>2. ASSUME NEW i \in DOMAIN urcs', IsAnswer(urcs'[i])
        PROVE  /\ urcs'[i].socket = lock' /\ owed'[lock'] = {}
               /\ urcs'[i].kind = IF op'[lock'] = "send" THEN "sent" ELSE "open"
               /\ answer'[lock'] =
                    IF op'[lock'] = "send" THEN SendResults
                    ELSE {IF urcs'[i].peer # NoOne THEN "CONN_OK" ELSE "CONN_FAIL"}
    <3>1. PICK j \in DOMAIN urcs : urcs[j] = urcs'[i]
      BY <2>2 DEF AnswersKept
    <3>2. urcs[j].socket \in Socket /\ IsAnswer(urcs[j])
      BY <2>2, <3>1, LineTypes
    <3>3. /\ urcs[j].socket = lock /\ owed[lock] = {}
          /\ urcs[j].kind = IF op[lock] = "send" THEN "sent" ELSE "open"
          /\ answer[lock] =
               IF op[lock] = "send" THEN SendResults
               ELSE {IF urcs[j].peer # NoOne THEN "CONN_OK" ELSE "CONN_FAIL"}
      BY <3>2 DEF Safe, Underway
    <3>4. op'[lock] = op[lock]
      BY <3>2, <3>3
    <3> QED  BY <3>1, <3>3, <3>4
  <2> QED  BY <2>1, <2>2 DEF Underway, AnswersKept
<1>4. Stage'
  BY <1>2 DEF Safe, Stage, Nothing, Answered, Results
<1> QED  BY <1>1, <1>3, <1>4 DEF Safe

(* A step that leaves nothing in the events, and nobody waiting for them. *)
LEMMA Between ==
  ASSUME Nothing', \A s \in Socket : lock' = s =>
                     pc'[s] \in {"close", "clear", "open", "cmd", "exit"}
  PROVE  Underway' /\ Stage'
BY DEF Nothing, NoneComing, Underway, Stage

(* An answer to come is the holder's, which waits for it with no events. *)
LEMMA Pending ==
  ASSUME TypeOK, Safe, ~NoneComing
  PROVE  /\ lock \in Socket
         /\ \/ pc[lock] = "ask_socket" /\ waiting = {} /\ events = {}
            \/ /\ pc[lock] = "wait_socket"
               /\ waiting = SocketBits(lock) /\ events = {}
<1>1. lock \in Socket
  BY DEF TypeOK, Safe, Stage, Nothing
<1>2. pc[lock] \in {"idle", "close", "clear", "open", "cmd", "ask_socket",
                    "wait_socket", "ask_result", "wait_result", "exit"}
  BY <1>1 DEF TypeOK
<1>3. pc[lock] # "idle"
  BY <1>1 DEF Safe, Holding
<1> QED  BY <1>1, <1>2, <1>3 DEF Safe, Stage, Nothing

-----------------------------------------------------------------------------
(* The steps of a socket's thread.                                           *)
LEMMA CloseSafe ==
  ASSUME TypeOK, Safe, NEW s \in Socket,
         CloseCommand(s) \/ CloseClear(s) \/ CloseFails(s) \/ UserClose(s)
  PROVE  Safe'
<1>1. UNCHANGED <<lock, events, waiting, got, owed, answer, urcs, target, left>>
  BY DEF CloseCommand, CloseClear, CloseFails, UserClose, eventVars, modemVars
<1>2. AnswersKept
  BY <1>1, LinesKept DEF TypeOK, Safe
<1>3. /\ Holding'
      /\ \A r \in Socket \ {s} : pc'[r] = pc[r] /\ op'[r] = op[r]
      /\ lock # s => /\ pc'[s] \in {"idle", "close", "clear"}
                     /\ pc'[s] # "idle" => op'[s] = "close"
      /\ lock = s => /\ pc[s] \in {"close", "clear"}
                     /\ pc'[s] \in {"clear", "open", "exit"}
  BY CloseHolding DEF Safe
<1>4. CASE lock # s
  <2>1. \A r \in Socket :
          IF lock = r
            THEN pc'[r] = pc[r] /\ op'[r] = op[r] /\ target'[r] = target[r]
                 /\ left'[r] = left[r]
            ELSE pc'[r] \in {"idle", "close", "clear"}
                 /\ (pc'[r] # "idle" => op'[r] = "close")
    BY <1>1, <1>3, <1>4 DEF Safe, Holding
  <2> QED  BY <1>1, <1>2, <2>1, Aside
<1>5. CASE lock = s
  <2>1. Nothing'
    BY <1>1, <1>3, <1>5 DEF Safe, Stage, Nothing, NoneComing
  <2> QED  BY <1>1, <1>3, <1>5, <2>1, Between DEF Safe
<1> QED  BY <1>4, <1>5

LEMMA BeginSafe ==
  ASSUME TypeOK, Safe, NEW s \in Socket,
         StartSend(s) \/ \E p \in Peers : Connect(s, p)
  PROVE  Safe'
<1>1. /\ UNCHANGED <<events, waiting, got, owed, answer, urcs>>
      /\ lock = NoOne /\ lock' = s
  BY DEF StartSend, Connect, Begin, eventVars, modemVars
<1>2. Nothing'
  BY <1>1 DEF Safe, Stage, Nothing, NoneComing
<1>3. Holding' /\ pc'[s] \in {"close", "cmd"}
  BY BeginHolding DEF Safe
<1> QED  BY <1>1, <1>2, <1>3, Between DEF Safe

(* A request goes out with nothing left of an earlier one. *)
LEMMA RequestSafe ==
  ASSUME TypeOK, Safe, NEW s \in Socket, Open(s) \/ SendCommand(s)
  PROVE  Safe'
<1>1. /\ UNCHANGED <<lock, op, events, waiting, got, urcs>>
      /\ pc[s] \in {"open", "cmd"}
  BY DEF Open, SendCommand, eventVars
<1>2. lock = s
  BY <1>1 DEF Safe, Holding
<1>3. Nothing /\ (op[s] = "send" <=> pc[s] = "cmd")
  BY <1>1, <1>2 DEF Safe, Stage, Holding
<1>4. \/ /\ pc' = [pc EXCEPT ![s] = "ask_socket"]
         /\ \/ owed' = owed
            \/ owed' = [owed EXCEPT ![s] = @ \cup {IF op[s] = "send" THEN "sent"
                                                                   ELSE "open"}]
      \/ pc' = [pc EXCEPT ![s] = "exit"] /\ owed' = owed
  BY <1>3 DEF Open, SendCommand, Goto
<1>5. Holding'
  BY WaitHolding DEF Safe
<1>6. CASE owed' = owed /\ pc'[s] = "exit"
  <2>1. Nothing'
    BY <1>1, <1>3, <1>6 DEF Nothing, NoneComing
  <2> QED  BY <1>1, <1>2, <1>5, <1>6, <2>1, Between DEF Safe
<1>7. CASE pc'[s] = "ask_socket"
  <2>1. /\ \A r \in Socket : owed[r] = {}
        /\ \A i \in DOMAIN urcs' : ~IsAnswer(urcs'[i])
    BY <1>1, <1>3 DEF Nothing, NoneComing
  <2>2. \A r \in Socket : owed'[r] # {} =>
           r = s /\ owed'[r] = {IF op[s] = "send" THEN "sent" ELSE "open"}
    BY <1>4, <2>1 DEF TypeOK
  <2>3. Underway'
    BY <1>1, <1>2, <2>1, <2>2 DEF Underway
  <2>4. Stage'
    BY <1>1, <1>2, <1>3, <1>7, AtSocketAssumption DEF Stage, Nothing
  <2> QED  BY <1>5, <2>3, <2>4 DEF Safe
<1> QED  BY <1>4, <1>6, <1>7 DEF TypeOK

LEMMA AskSafe ==
  ASSUME TypeOK, Safe, NEW s \in Socket, AskSocket(s) \/ Woken(s) \/ AskResult(s)
  PROVE  Safe'
<1>1. /\ UNCHANGED <<lock, op, owed, answer, urcs>>
      /\ pc[s] \in {"ask_socket", "wait_socket", "ask_result"}
  BY DEF AskSocket, Woken, AskResult, modemVars
<1>2. lock = s
  BY <1>1 DEF Safe, Holding
<1>3. Holding'
  BY WaitHolding DEF Safe
<1>4. Underway'
  BY <1>1 DEF Safe, Underway
<1>5. /\ NoneComing' <=> NoneComing
      /\ Answered(s)' <=> Answered(s)
      /\ Results(s)' = Results(s)
  BY <1>1 DEF NoneComing, Answered, Results
<1>6. answer[s] \cap SocketBits(s) = {} /\ SocketBits(s) # {}
  BY BitFacts DEF TypeOK
<1>7. CASE AskSocket(s)
  <2>1. pc[s] = "ask_socket" /\ pc'[s] = "wait_socket" /\ Recv(SocketBits(s))
    BY <1>7 DEF TypeOK, AskSocket, Goto
  <2>2. /\ waiting = {}
        /\ \/ events = {}
           \/ NoneComing /\ Answered(s) /\ events = SocketBits(s) \cup answer[s]
    BY <1>2, <2>1 DEF Safe, Stage
  <2>3. \/ waiting' = SocketBits(s) /\ events' = {}
        \/ waiting' = {} /\ NoneComing /\ Answered(s) /\ events' = answer[s]
    BY <1>6, <2>1, <2>2 DEF Recv
  <2>4. Stage'
    BY <1>1, <1>2, <1>5, <2>1, <2>3, AtSocketAssumption DEF Stage
  <2> QED  BY <1>3, <1>4, <2>4 DEF Safe
<1>8. CASE Woken(s)
  <2>1. /\ pc[s] = "wait_socket" /\ pc'[s] = "ask_result" /\ waiting = {}
        /\ UNCHANGED <<events, waiting>>
    BY <1>8 DEF TypeOK, Woken, Goto, eventVars
  <2>2. NoneComing /\ Answered(s) /\ events = answer[s]
    BY <1>2, <1>6, <2>1 DEF Safe, Stage
  <2>3. Stage'
    BY <1>1, <1>2, <1>5, <2>1, <2>2, AtSocketAssumption DEF Stage
  <2> QED  BY <1>3, <1>4, <2>3 DEF Safe
<1>9. CASE AskResult(s)
  <2>1. pc[s] = "ask_result" /\ pc'[s] = "wait_result" /\ Recv(Results(s))
    BY <1>9 DEF TypeOK, AskResult, Goto, Results
  <2>2. waiting = {} /\ NoneComing /\ Answered(s) /\ events = answer[s]
    BY <1>2, <2>1 DEF Safe, Stage
  <2>3. waiting' = {} /\ events' = {} /\ got' = answer[s]
    BY <2>1, <2>2 DEF Recv, Answered
  <2>4. Stage'
    BY <1>1, <1>2, <1>5, <2>1, <2>2, <2>3, AtSocketAssumption DEF Stage, Nothing
  <2> QED  BY <1>3, <1>4, <2>4 DEF Safe
<1> QED  BY <1>7, <1>8, <1>9

(* A wait gives up only when no answer is to come: none can be stale later. *)
LEMMA TimeoutSafe ==
  ASSUME ~Late, TypeOK, Safe, NEW s \in Socket, Timeout(s)
  PROVE  Safe'
<1>1. /\ UNCHANGED <<lock, op, events, owed, answer, urcs>>
      /\ waiting' = {} /\ waiting # {} /\ ~AnswerComing(s)
      /\ pc[s] \in {"wait_socket", "wait_result"}
      /\ pc' = [pc EXCEPT ![s] = "exit"]
  BY DEF Timeout, Goto, modemVars
<1>2. lock = s
  BY <1>1 DEF Safe, Holding
<1>3. events = {}
  BY <1>1, <1>2 DEF Safe, Stage, Nothing
<1>4. NoneComing
  <2>1. \A r \in Socket : owed[r] = {}
    BY <1>1, <1>2 DEF Safe, Underway, AnswerComing
  <2>2. \A i \in DOMAIN urcs : IsAnswer(urcs[i]) => urcs[i].socket = s
    BY <1>2 DEF Safe, Underway
  <2> QED  BY <1>1, <2>1, <2>2 DEF NoneComing, AnswerComing, IsAnswer
<1>5. Nothing'
  BY <1>1, <1>3, <1>4 DEF Nothing, NoneComing
<1>6. Holding' /\ pc'[s] = "exit"
  BY <1>1, WaitHolding DEF TypeOK, Safe
<1> QED  BY <1>1, <1>2, <1>5, <1>6, Between DEF Safe

LEMMA ResultSafe ==
  ASSUME TypeOK, Safe, NEW s \in Socket,
         ConnectRefused(s) \/ Connected(s) \/ Sent(s) \/ Exit(s)
  PROVE  Safe'
<1>1. /\ UNCHANGED <<events, waiting, got, owed, answer, urcs>>
      /\ pc[s] \in {"wait_result", "exit"} /\ lock' \in {lock, NoOne}
  BY DEF ConnectRefused, Connected, Sent, Exit, HasResult, eventVars, modemVars
<1>2. lock = s /\ lock # NoOne
  BY <1>1, AtSocketAssumption DEF Safe, Holding
<1>3. Nothing'
  BY <1>1, <1>2 DEF Safe, Stage, Nothing, NoneComing
<1>4. Holding' /\ pc'[s] \in {"close", "cmd", "exit", "idle"}
  BY ResultHolding DEF Safe
<1>5. \A r \in Socket : lock' = r => pc'[r] \in {"close", "clear", "open", "cmd", "exit"}
  BY <1>1, <1>2, <1>4, AtSocketAssumption DEF Holding
<1> QED  BY <1>3, <1>4, <1>5, Between DEF Safe

-----------------------------------------------------------------------------
(* The modem's answer: owed first, then in one line, then in the events.     *)
LEMMA AnswerSafe ==
  ASSUME TypeOK, Safe, NEW s \in Socket, ModemOpens(s) \/ ModemSends(s)
  PROVE  Safe'
<1>1. /\ UNCHANGED <<lock, pc, op, target, left, events, waiting, got>>
      /\ owed[s] # {}
  BY DEF ModemOpens, ModemSends, threadVars, eventVars
<1>2. /\ lock = s
      /\ owed[s] = {IF op[s] = "send" THEN "sent" ELSE "open"}
      /\ \A r \in Socket \ {s} : owed[r] = {}
      /\ \A i \in DOMAIN urcs : ~IsAnswer(urcs[i])
  <2>1. lock = s /\ owed[s] = {IF op[s] = "send" THEN "sent" ELSE "open"}
    BY <1>1 DEF Safe, Underway
  <2>2. \A r \in Socket \ {s} : owed[r] = {}
    BY <2>1 DEF Safe, Underway
  <2>3. \A i \in DOMAIN urcs : ~IsAnswer(urcs[i])
    BY <1>1, <2>1 DEF Safe, Underway
  <2> QED  BY <2>1, <2>2, <2>3
<1>3. PICK line \in Urc :
        /\ urcs' = Append(urcs, line)
        /\ owed' = [owed EXCEPT ![s] = {}]
        /\ line.socket = s
        /\ line.kind = IF op[s] = "send" THEN "sent" ELSE "open"
        /\ answer' = [answer EXCEPT ![s] =
             IF op[s] = "send" THEN SendResults
             ELSE {IF line.peer # NoOne THEN "CONN_OK" ELSE "CONN_FAIL"}]
  <2>1. CASE ModemOpens(s)
    <3>1. op[s] # "send" /\ owed[s] \ {"open"} = {}
      BY <1>2, <2>1 DEF ModemOpens
    <3>2. PICK ok \in BOOLEAN :
            /\ answer' = [answer EXCEPT ![s] = {IF ok THEN "CONN_OK" ELSE "CONN_FAIL"}]
            /\ urcs' = Append(urcs, Line("open", s, IF ok THEN target[s] ELSE NoOne))
      BY <2>1 DEF ModemOpens
    <3>3. target[s] \in Peers /\ target[s] # NoOne
      BY <1>2, <3>1, AtSocketAssumption DEF Safe, Holding
    <3> DEFINE line == Line("open", s, IF ok THEN target[s] ELSE NoOne)
    <3>4. /\ line \in Urc /\ line.socket = s /\ line.kind = "open"
          /\ line.peer # NoOne <=> ok
      BY <3>3 DEF Line, Urc
    <3>5. owed' = [owed EXCEPT ![s] = {}]
      BY <2>1, <3>1 DEF ModemOpens
    <3> HIDE DEF line
    <3>6. answer' = [answer EXCEPT ![s] =
                       {IF line.peer # NoOne THEN "CONN_OK" ELSE "CONN_FAIL"}]
      BY <3>2, <3>4
    <3>7. urcs' = Append(urcs, line)
      BY <3>2 DEF line
    <3> QED  BY <3>1, <3>4, <3>5, <3>6, <3>7
  <2>2. CASE ModemSends(s)
    <3>1. op[s] = "send" /\ owed[s] \ {"sent"} = {}
      BY <1>2, <2>2 DEF ModemSends
    <3>2. /\ Line("sent", s, NoOne) \in Urc
          /\ Line("sent", s, NoOne).socket = s
          /\ Line("sent", s, NoOne).kind = "sent"
      BY DEF Line, Urc
    <3> QED  BY <2>2, <3>1, <3>2 DEF ModemSends
  <2> QED  BY <2>1, <2>2
<1>4. /\ IsAnswer(line)
      /\ \A i \in DOMAIN urcs' : IsAnswer(urcs'[i]) =>
            i = Len(urcs) + 1 /\ urcs'[i] = line
  BY <1>2, <1>3, LineComes DEF TypeOK, IsAnswer
<1>5. \A r \in Socket : owed'[r] = {}
  BY <1>2, <1>3 DEF TypeOK
<1>6. answer'[s] = IF op[s] = "send" THEN SendResults
                   ELSE {IF line.peer # NoOne THEN "CONN_OK" ELSE "CONN_FAIL"}
  BY <1>3 DEF TypeOK
<1>7. Holding'
  BY <1>1 DEF Safe, Holding
<1>8. Underway'
  <2>1. \A i \in DOMAIN urcs' : IsAnswer(urcs'[i]) =>
       /\ urcs'[i].socket = lock' /\ owed'[lock'] = {}
       /\ urcs'[i].kind = IF op'[lock'] = "send" THEN "sent" ELSE "open"
       /\ answer'[lock'] =
            IF op'[lock'] = "send" THEN SendResults
            ELSE {IF urcs'[i].peer # NoOne THEN "CONN_OK" ELSE "CONN_FAIL"}
    BY <1>1, <1>2, <1>3, <1>4, <1>5, <1>6
  <2>2. \A i, j \in DOMAIN urcs' : IsAnswer(urcs'[i]) /\ IsAnswer(urcs'[j]) => i = j
    BY <1>4
  <2> QED  BY <1>5, <2>1, <2>2 DEF Underway
<1>9. Stage'
  <2>1. ~NoneComing
    BY <1>1 DEF NoneComing
  <2>2. \/ pc[s] = "ask_socket" /\ waiting = {} /\ events = {}
        \/ pc[s] = "wait_socket" /\ waiting = SocketBits(s) /\ events = {}
    BY <1>2, <2>1, Pending
  <2> QED  BY <1>1, <1>2, <2>2, AtSocketAssumption DEF Stage
<1> QED  BY <1>7, <1>8, <1>9 DEF Safe

(* The line with the answer comes when its socket asks or waits for it. *)
LEMMA ArrivalSafe ==
  ASSUME TypeOK, Safe, urc_connect_func \/ urc_send_func
  PROVE  Safe'
<1>1. /\ UNCHANGED <<lock, pc, op, target, left, owed, answer>>
      /\ urcs # <<>> /\ urcs' = Tail(urcs)
      /\ Head(urcs).kind \in {"open", "sent"}
  BY DEF urc_connect_func, urc_send_func, Next_urc, threadVars
<1>2. /\ Head(urcs) = urcs[1] /\ 1 \in DOMAIN urcs
      /\ \A i \in DOMAIN urcs' : /\ i + 1 \in DOMAIN urcs /\ urcs'[i] = urcs[i + 1]
                                 /\ i \in Nat \ {0}
  BY <1>1, LinesGo DEF TypeOK
<1>3. IsAnswer(urcs[1])
  BY <1>1, <1>2 DEF IsAnswer
<1>4. lock \in Socket
  BY <1>2, <1>3, LineTypes DEF Safe, Underway
<1>5. /\ urcs[1].socket = lock
      /\ urcs[1].kind = IF op[lock] = "send" THEN "sent" ELSE "open"
      /\ answer[lock] =
            IF op[lock] = "send" THEN SendResults
            ELSE {IF urcs[1].peer # NoOne THEN "CONN_OK" ELSE "CONN_FAIL"}
      /\ owed[lock] = {}
  BY <1>2, <1>3 DEF Safe, Underway
<1>6. \A i \in DOMAIN urcs' : ~IsAnswer(urcs'[i])
  <2>1. ASSUME NEW i \in DOMAIN urcs', IsAnswer(urcs'[i]) PROVE FALSE
    <3>1. i + 1 \in DOMAIN urcs /\ IsAnswer(urcs[i + 1]) /\ i \in Nat \ {0}
      BY <1>2, <2>1
    <3>2. i + 1 = 1
      BY <1>2, <1>3, <3>1 DEF Safe, Underway
    <3> QED  BY <3>1, <3>2
  <2> QED  BY <2>1
<1>7. NoneComing'
  <2>1. \A r \in Socket : owed[r] = {}
    BY <1>5 DEF Safe, Underway
  <2> QED  BY <1>1, <1>6, <2>1 DEF NoneComing
<1>8. Answered(lock) /\ Answered(lock)'
  BY <1>1, <1>5 DEF Answered, Results, ConnResults, SendResults
<1>9. EventSend(SocketBits(lock) \cup answer[lock])
  <2>1. CASE urc_connect_func
    <3>1. op[lock] # "send"
      BY <1>2, <1>5, <2>1 DEF urc_connect_func, Next_urc
    <3> QED  BY <1>2, <1>5, <2>1, <3>1 DEF urc_connect_func
  <2>2. CASE urc_send_func
    <3>1. op[lock] = "send"
      BY <1>2, <1>5, <2>2 DEF urc_send_func, Next_urc
    <3> QED  BY <1>2, <1>5, <2>2, <3>1 DEF urc_send_func
  <2> QED  BY <2>1, <2>2
<1>10. answer[lock] \cap SocketBits(lock) = {} /\ SocketBits(lock) # {}
  BY <1>4, BitFacts DEF TypeOK
<1>11. Holding'
  BY <1>1 DEF Safe, Holding
<1>12. Underway'
  BY <1>6, <1>7 DEF NoneComing, Underway
<1>13. ~NoneComing
  BY <1>2, <1>3 DEF NoneComing
<1>14. CASE pc[lock] = "ask_socket" /\ waiting = {} /\ events = {}
  <2>1. waiting' = {} /\ events' = SocketBits(lock) \cup answer[lock]
    BY <1>9, <1>14 DEF EventSend
  <2>2. Stage'
    BY <1>1, <1>4, <1>7, <1>8, <1>14, <2>1, AtSocketAssumption DEF Stage
  <2> QED  BY <1>11, <1>12, <2>2 DEF Safe
<1>15. CASE pc[lock] = "wait_socket" /\ waiting = SocketBits(lock) /\ events = {}
  <2>1. waiting' = {} /\ events' = answer[lock]
    BY <1>9, <1>10, <1>15 DEF EventSend
  <2>2. Stage'
    BY <1>1, <1>4, <1>7, <1>8, <1>15, <2>1, AtSocketAssumption DEF Stage
  <2> QED  BY <1>11, <1>12, <2>2 DEF Safe
<1> QED  BY <1>13, <1>14, <1>15, Pending

(* What else the modem says and the parser handles.                          *)
LEMMA OtherLines ==
  ASSUME TypeOK, Safe,
         \/ \E s \in Socket : PeerCloses(s) \/ DataArrives(s)
         \/ urc_close_func \/ urc_recv_from_func \/ urc_recv_func
         \/ UNCHANGED vars
  PROVE  Safe'
<1>1. UNCHANGED <<lock, events, waiting, got, owed, answer, pc, op, target, left>>
  BY DEF PeerCloses, DataArrives, urc_close_func, urc_recv_from_func, urc_recv_func,
         vars, threadVars, eventVars, modemVars
<1>2. AnswersKept
  <2>1. ASSUME NEW s \in Socket, PeerCloses(s) PROVE AnswersKept
    <3>1. Line("close", s, NoOne) \in Urc /\ ~IsAnswer(Line("close", s, NoOne))
      BY DEF Line, Urc, IsAnswer
    <3> QED  BY <2>1, <3>1, LinesKept DEF PeerCloses, TypeOK, Safe
  <2>2. ASSUME NEW s \in Socket, DataArrives(s) PROVE AnswersKept
    <3>1. /\ Line("from", s, link[s]) \in Urc /\ Line("ipd", s, NoOne) \in Urc
          /\ ~IsAnswer(Line("from", s, link[s])) /\ ~IsAnswer(Line("ipd", s, NoOne))
      BY DEF TypeOK, Line, Urc, IsAnswer
    <3> QED  BY <2>2, <3>1, LinesKept DEF DataArrives, TypeOK, Safe
  <2>3. CASE urc_close_func \/ urc_recv_from_func \/ urc_recv_func
    BY <2>3, LinesKept DEF urc_close_func, urc_recv_from_func, urc_recv_func,
       Next_urc, TypeOK, Safe
  <2>4. CASE UNCHANGED vars
    BY <2>4, LinesKept DEF vars, modemVars, TypeOK, Safe
  <2> QED  BY <2>1, <2>2, <2>3, <2>4
<1>3. \A s \in Socket :
        IF lock = s
          THEN pc'[s] = pc[s] /\ op'[s] = op[s] /\ target'[s] = target[s]
               /\ left'[s] = left[s]
          ELSE pc'[s] \in {"idle", "close", "clear"}
               /\ (pc'[s] # "idle" => op'[s] = "close")
  BY <1>1 DEF Safe, Holding
<1> QED  BY <1>1, <1>2, <1>3, Aside

-----------------------------------------------------------------------------
LEMMA TypesKept ==
  ASSUME TypeOK, Holding, [Next]_vars
  PROVE  TypeOK'
<1>1. CASE Parser
  BY <1>1, ParserTypes
<1>2. ASSUME NEW s \in Socket, Step(s) PROVE TypeOK'
  BY <1>2, CloseTypes, RequestTypes, WaitTypes, ResultTypes DEF Step
<1>3. ASSUME NEW s \in Socket, User(s) PROVE TypeOK'
  BY <1>3, CloseTypes, RequestTypes DEF User
<1>4. ASSUME NEW s \in Socket, Modem(s) PROVE TypeOK'
  BY <1>4, ModemTypes
<1>5. CASE UNCHANGED vars
  BY <1>5 DEF TypeOK, vars, threadVars, eventVars, routeVars, modemVars
<1> QED  BY <1>1, <1>2, <1>3, <1>4, <1>5 DEF Next

LEMMA SafeKept ==
  ASSUME ~Late, IInv, [Next]_vars
  PROVE  Safe'
<1>1. CASE Parser
  BY <1>1, ArrivalSafe, OtherLines DEF Parser, IInv
<1>2. ASSUME NEW s \in Socket, Step(s) PROVE Safe'
  BY <1>2, CloseSafe, RequestSafe, AskSafe, TimeoutSafe, ResultSafe DEF Step, IInv
<1>3. ASSUME NEW s \in Socket, User(s) PROVE Safe'
  BY <1>3, CloseSafe, BeginSafe DEF User, IInv
<1>4. ASSUME NEW s \in Socket, Modem(s) PROVE Safe'
  BY <1>4, AnswerSafe, OtherLines DEF Modem, IInv
<1>5. CASE UNCHANGED vars
  BY <1>5, OtherLines DEF IInv
<1> QED  BY <1>1, <1>2, <1>3, <1>4, <1>5 DEF Next

(* Every variable of the driver keeps its type, late answers or not: no      *)
(* packet counter below zero and no link outside the table, for any number   *)
(* of sockets.                                                               *)
THEOREM TypeCorrect == Spec => []TypeOK
<1>1. Init => TypeOK /\ Holding
  BY InitHolds DEF IInv, Safe
<1>2. TypeOK /\ Holding /\ [Next]_vars => (TypeOK /\ Holding)'
  BY TypesKept, HoldingKept
<1> QED  BY <1>1, <1>2, PTL DEF Spec

(* As long as no answer comes late: the invariant. *)
THEOREM Inductive ==
  ASSUME ~Late
  PROVE  Spec => []IInv
<1>1. IInv /\ [Next]_vars => IInv'
  BY TypesKept, SafeKept DEF IInv, Safe
<1> QED  BY <1>1, InitHolds, PTL DEF Spec

(* connect and send conclude from the modem's answer to their own request,   *)
(* however the two waits and the parser interleave and whatever bits the     *)
(* socket numbers share, unless an answer comes after its wait gave up.      *)
THEOREM OwnAnswerAlways ==
  ASSUME ~Late
  PROVE  Spec => []OwnAnswer
<1>1. IInv => OwnAnswer
  BY DEF IInv, Safe, Holding, Stage, OwnAnswer, HasResult
<1> QED  BY <1>1, Inductive, PTL

(* Between two operations the events are empty and nobody waits for them.    *)
THEOREM CleanSlateAlways ==
  ASSUME ~Late
  PROVE  Spec => []CleanSlate
<1>1. IInv => CleanSlate
  BY DEF IInv, Safe, Stage, Nothing, CleanSlate
<1> QED  BY <1>1, Inductive, PTL
=============================================================================
