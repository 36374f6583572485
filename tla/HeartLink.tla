------------------------------ MODULE HeartLink ------------------------------
(***************************************************************************)
(* Two cubes and the broker between them: liz_mqtt_start, the callbacks    *)
(* and liz_mqtt_publish of network/liz_mqtt.c, and mqtt_sub_cb of          *)
(* network.c.  The paho client is a package outside the repository: one    *)
(* thread that connects, subscribes, serves the connection until it breaks *)
(* and starts over, and a pipe in which published messages wait for it.    *)
(* The session is a clean one (cleansession = 1): the broker keeps nothing *)
(* for a client that is away, and a second client of the same name takes   *)
(* the session over.                                                       *)
(*                                                                         *)
(* LTE_NET_SUCCESS comes once; the start guard is in ModemInit.            *)
(***************************************************************************)
EXTENDS Integers

CONSTANTS
  role,       \* liz_role in the settings of each cube
  MaxBeats,   \* beats each cube publishes
  MaxBreaks   \* connections that break, refused connections, link changes

Cube == {1, 2}
Other(c) == 3 - c

ASSUME LinkAssumption ==
  /\ role \in [Cube -> {"heart", "beat"}]
  /\ MaxBeats \in Nat /\ MaxBreaks \in Nat

VARIABLES
  link,          \* check_network()
  client,        \* where the client thread is
  is_online,
  session,       \* the broker has an open session of this cube ...
  subscribed,    \* ... with its subscription
  publishing,    \* the liz thread has passed the test of is_online
  outbox,        \* published beats the client thread has not yet sent
  inbox,         \* beats the broker has for this cube
  inter,         \* act_info.inter
  beats, breaks  \* so far

vars == <<link, client, is_online, session, subscribed, publishing, outbox,
          inbox, inter, beats, breaks>>

TypeOK ==
  /\ link \in [Cube -> BOOLEAN]
  /\ client \in [Cube -> {"none", "wait", "connect", "subscribe", "online"}]
  /\ is_online \in [Cube -> {0, 1}]
  /\ session \in [Cube -> BOOLEAN] /\ subscribed \in [Cube -> BOOLEAN]
  /\ publishing \in [Cube -> BOOLEAN]
  /\ outbox \in [Cube -> 0..MaxBeats] /\ inbox \in [Cube -> 0..MaxBeats]
  /\ inter \in [Cube -> {0, 1}]
  /\ beats \in [Cube -> 0..MaxBeats]
  /\ breaks \in 0..MaxBreaks

Init ==
  /\ link \in [Cube -> BOOLEAN]
  /\ client = [c \in Cube |-> "none"]
  /\ is_online = [c \in Cube |-> 0]
  /\ session = [c \in Cube |-> FALSE]
  /\ subscribed = [c \in Cube |-> FALSE]
  /\ publishing = [c \in Cube |-> FALSE]
  /\ outbox = [c \in Cube |-> 0] /\ inbox = [c \in Cube |-> 0]
  /\ inter = [c \in Cube |-> 0]
  /\ beats = [c \in Cube |-> 0]
  /\ breaks = 0

-----------------------------------------------------------------------------
(* liz_mqtt_start: topics and name follow from the role, crosswise.          *)
liz_mqtt_subtopic(c) == IF role[c] = "heart" THEN "/beat" ELSE "/heart"

(* Mutant: a cube hears itself.                                              *)
liz_mqtt_pubtopic_Own(c) == liz_mqtt_subtopic(c)

liz_mqtt_pubtopic(c) == IF role[c] = "heart" THEN "/heart" ELSE "/beat"

cid(c) == role[c]

liz_mqtt_start(c) ==
  /\ client[c] = "none"
  /\ client' = [client EXCEPT ![c] = "wait"]
  /\ UNCHANGED <<link, is_online, session, subscribed, publishing, outbox,
                 inbox, inter, beats, breaks>>

(* The client thread waits here for the link.                                *)
mqtt_connect_callback(c) ==
  /\ client[c] = "wait" /\ link[c]
  /\ client' = [client EXCEPT ![c] = "connect"]
  /\ UNCHANGED <<link, is_online, session, subscribed, publishing, outbox,
                 inbox, inter, beats, breaks>>

(* The broker accepts, and lets go of an older session of that name, with    *)
(* what it held for it.                                                      *)
Accept(c) ==
  /\ client[c] = "connect" /\ link[c]
  /\ session' = [d \in Cube |-> d = c \/ (session[d] /\ cid(d) # cid(c))]
  /\ subscribed' = [d \in Cube |-> d # c /\ subscribed[d] /\ cid(d) # cid(c)]
  /\ inbox' = [d \in Cube |-> IF cid(d) = cid(c) THEN 0 ELSE inbox[d]]
  /\ client' = [client EXCEPT ![c] = "subscribe"]
  /\ UNCHANGED <<link, is_online, publishing, outbox, inter, beats, breaks>>

(* messageHandlers[0]; the thread is online when the broker has confirmed.   *)
Subscribe(c) ==
  /\ client[c] = "subscribe" /\ session[c]
  /\ subscribed' = [subscribed EXCEPT ![c] = TRUE]
  /\ UNCHANGED <<link, client, is_online, session, publishing, outbox, inbox,
                 inter, beats, breaks>>

mqtt_online_callback(c) ==
  /\ client[c] = "subscribe" /\ subscribed[c]
  /\ client' = [client EXCEPT ![c] = "online"]
  /\ is_online' = [is_online EXCEPT ![c] = 1]
  /\ UNCHANGED <<link, session, subscribed, publishing, outbox, inbox, inter,
                 beats, breaks>>

(* Without a link nothing can be reached, and keep-alive finds out.          *)
NoConnection(c) ==
  \/ client[c] = "connect" /\ ~link[c]
  \/ client[c] \in {"subscribe", "online"} /\ ~(link[c] /\ session[c])

(* Mutant: the thread waits for the broken session to come back.             *)
mqtt_offline_callback_Online(c) ==
  /\ NoConnection(c)
  /\ is_online' = [is_online EXCEPT ![c] = 0]
  /\ session' = [session EXCEPT ![c] = FALSE]
  /\ subscribed' = [subscribed EXCEPT ![c] = FALSE]
  /\ inbox' = [inbox EXCEPT ![c] = 0]
  /\ UNCHANGED <<link, client, publishing, outbox, inter, beats, breaks>>

(* The connection is closed and the thread starts over.                      *)
mqtt_offline_callback(c) ==
  /\ NoConnection(c)
  /\ is_online' = [is_online EXCEPT ![c] = 0]
  /\ client' = [client EXCEPT ![c] = "wait"]
  /\ session' = [session EXCEPT ![c] = FALSE]
  /\ subscribed' = [subscribed EXCEPT ![c] = FALSE]
  /\ inbox' = [inbox EXCEPT ![c] = 0]
  /\ UNCHANGED <<link, publishing, outbox, inter, beats, breaks>>

-----------------------------------------------------------------------------
(* liz_mqtt_publish, in the liz thread, which the client thread can preempt  *)
(* nowhere but outrun between the test and the pipe.                         *)
liz_mqtt_publish(c) ==
  /\ ~publishing[c] /\ is_online[c] = 1
  /\ beats[c] < MaxBeats
  /\ publishing' = [publishing EXCEPT ![c] = TRUE]
  /\ beats' = [beats EXCEPT ![c] = @ + 1]
  /\ UNCHANGED <<link, client, is_online, session, subscribed, outbox, inbox,
                 inter, breaks>>

MQTTPublish(c) ==
  /\ publishing[c]
  /\ publishing' = [publishing EXCEPT ![c] = FALSE]
  /\ outbox' = [outbox EXCEPT ![c] = @ + 1]
  /\ UNCHANGED <<link, client, is_online, session, subscribed, inbox, inter,
                 beats, breaks>>

(* Who the broker forwards a beat of c to.                                   *)
Audience(c) ==
  {d \in Cube : subscribed[d] /\ liz_mqtt_subtopic(d) = liz_mqtt_pubtopic(c)}

(* The client thread sends what waits in the pipe; into a broken connection, *)
(* for nothing.                                                              *)
Forward(c) ==
  /\ client[c] = "online" /\ outbox[c] > 0
  /\ outbox' = [outbox EXCEPT ![c] = @ - 1]
  /\ inbox' = [d \in Cube |-> IF session[c] /\ d \in Audience(c)
                                THEN inbox[d] + 1 ELSE inbox[d]]
  /\ UNCHANGED <<link, client, is_online, session, subscribed, publishing,
                 inter, beats, breaks>>

(* Mutant: the message is taken for another one, and the flag stays down.    *)
mqtt_sub_cb_Ignores(c) ==
  /\ client[c] = "online" /\ session[c] /\ inbox[c] > 0
  /\ inbox' = [inbox EXCEPT ![c] = @ - 1]
  /\ UNCHANGED <<link, client, is_online, session, subscribed, publishing,
                 outbox, inter, beats, breaks>>

(* Mutant: the flag counts.                                                  *)
mqtt_sub_cb_Counts(c) ==
  /\ client[c] = "online" /\ session[c] /\ inbox[c] > 0
  /\ inbox' = [inbox EXCEPT ![c] = @ - 1]
  /\ inter' = [inter EXCEPT ![c] = @ + 1]
  /\ UNCHANGED <<link, client, is_online, session, subscribed, publishing,
                 outbox, beats, breaks>>

(* mqtt_sub_callback, and with it mqtt_sub_cb of network.c.                  *)
mqtt_sub_cb(c) ==
  /\ client[c] = "online" /\ session[c] /\ inbox[c] > 0
  /\ inbox' = [inbox EXCEPT ![c] = @ - 1]
  /\ inter' = [inter EXCEPT ![c] = 1]
  /\ UNCHANGED <<link, client, is_online, session, subscribed, publishing,
                 outbox, beats, breaks>>

(* The liz thread takes the flag down when it handles it.                    *)
GetInfo(c) ==
  /\ inter[c] = 1
  /\ inter' = [inter EXCEPT ![c] = 0]
  /\ UNCHANGED <<link, client, is_online, session, subscribed, publishing,
                 outbox, inbox, beats, breaks>>

-----------------------------------------------------------------------------
(* The connection breaks, unnoticed at first, and with it goes what the      *)
(* broker had for the cube; the link of the modem comes and goes.            *)
Break(c) ==
  /\ session[c] /\ breaks < MaxBreaks
  /\ breaks' = breaks + 1
  /\ session' = [session EXCEPT ![c] = FALSE]
  /\ subscribed' = [subscribed EXCEPT ![c] = FALSE]
  /\ inbox' = [inbox EXCEPT ![c] = 0]
  /\ UNCHANGED <<link, client, is_online, publishing, outbox, inter, beats>>

LinkFlips(c) ==
  /\ breaks < MaxBreaks
  /\ breaks' = breaks + 1
  /\ link' = [link EXCEPT ![c] = ~@]
  /\ UNCHANGED <<client, is_online, session, subscribed, publishing, outbox,
                 inbox, inter, beats>>

Client(c) ==
  \/ mqtt_connect_callback(c) \/ Accept(c) \/ Subscribe(c)
  \/ mqtt_online_callback(c) \/ mqtt_offline_callback(c)

Next == \E c \in Cube :
  \/ liz_mqtt_start(c) \/ Client(c)
  \/ liz_mqtt_publish(c) \/ MQTTPublish(c) \/ Forward(c) \/ mqtt_sub_cb(c)
  \/ GetInfo(c)
  \/ Break(c) \/ LinkFlips(c)

(* The bring-up starts the client; its thread and the liz thread go on, and  *)
(* the client serves pipe and connection in turn.  Nobody has to send.       *)
Fairness == \A c \in Cube :
  /\ WF_vars(liz_mqtt_start(c)) /\ WF_vars(Client(c))
  /\ WF_vars(MQTTPublish(c)) /\ WF_vars(Forward(c)) /\ WF_vars(mqtt_sub_cb(c))

Spec == Init /\ [][Next]_vars /\ Fairness

-----------------------------------------------------------------------------
(* Properties.                                                               *)

(* Both cubes can hear.                                                      *)
Up == \A c \in Cube : session[c] /\ subscribed[c]

(* The two cubes keep the promise of BeatChannel, whatever roles they have:  *)
(* no beat returns to its sender, arrives twice or out of nothing, and none  *)
(* is lost while both are connected.                                         *)
Channel == INSTANCE BeatChannel WITH
  onway <- [c \in Cube |-> outbox[c] + inbox[Other(c)]],
  flag <- inter,
  up <- Up

ImplementsChannel == Channel!ChannelSpec

(* After the last break, with both online and linked, a beat that was        *)
(* handed over is felt on the other cube.                                    *)
Settled ==
  /\ Up /\ breaks = MaxBreaks
  /\ \A c \in Cube : link[c] /\ client[c] = "online"

BeatArrives ==
  \A c \in Cube : Settled /\ outbox[c] > 0 ~> inter[Other(c)] = 1

(* A cube whose link stays up gets online and stays there, whatever broke    *)
(* before, and wherever its client thread was then.                          *)
Reconnects ==
  \A c \in Cube :
    <>[]link[c] => <>[](is_online[c] = 1 /\ session[c] /\ subscribed[c])
=============================================================================
