-------------------------- MODULE HeartLink_proofs --------------------------
(***************************************************************************)
(* HeartLink implements BeatChannel for every assignment of roles, any     *)
(* number of beats and of breaks.                                          *)
(***************************************************************************)
EXTENDS HeartLink, TLAPS

(* Two sessions at a time mean two names, and so two roles.                  *)
TwoNames == session[1] /\ session[2] => role[1] # role[2]

(* A subscription belongs to an open session.                                *)
SubscribedOpen == \A c \in Cube : subscribed[c] => session[c]

(* Every beat on its way, or about to be handed over, was published.         *)
Counted ==
  \A c \in Cube :
    outbox[c] + inbox[Other(c)] + (IF publishing[c] THEN 1 ELSE 0) <= beats[c]

IInv == TypeOK /\ TwoNames /\ SubscribedOpen /\ Counted

-----------------------------------------------------------------------------
(* There are two cubes, and each has one other.                              *)
LEMMA Others ==
  /\ Cube = {1, 2} /\ Other(1) = 2 /\ Other(2) = 1
  /\ Channel!Cube = Cube /\ \A c \in Cube : Channel!Other(c) = Other(c)
BY DEF Cube, Other, Channel!Cube, Channel!Other

(* No cube hears itself, and with two names the other one hears it.          *)
LEMMA AudienceIsOther ==
  ASSUME TypeOK, NEW c \in Cube
  PROVE  /\ Audience(c) \subseteq {Other(c)}
         /\ role[1] # role[2] /\ subscribed[Other(c)] => Audience(c) = {Other(c)}
<1>1. \A d \in Cube : role[d] \in {"heart", "beat"}
  BY LinkAssumption
<1> QED
  BY <1>1, Others DEF Audience, liz_mqtt_subtopic, liz_mqtt_pubtopic, TypeOK

LEMMA InitIInv == Init => IInv
BY LinkAssumption, Others DEF Init, IInv, TypeOK, TwoNames, SubscribedOpen, Counted

LEMMA NextIInv == IInv /\ [Next]_vars => IInv'
<1> SUFFICES ASSUME IInv, [Next]_vars PROVE IInv'
  OBVIOUS
<1> USE LinkAssumption, Others DEF IInv
<1>1. CASE UNCHANGED vars
  BY <1>1 DEF vars, TypeOK, TwoNames, SubscribedOpen, Counted
<1>2. ASSUME NEW c \in Cube, liz_mqtt_start(c) \/ mqtt_connect_callback(c)
                             \/ mqtt_online_callback(c) \/ GetInfo(c) \/ LinkFlips(c)
      PROVE  IInv'
  <2>1. TypeOK'
    <3>1. CASE liz_mqtt_start(c) \/ mqtt_connect_callback(c) \/ mqtt_online_callback(c)
      BY <3>1 DEF TypeOK, liz_mqtt_start, mqtt_connect_callback, mqtt_online_callback
    <3>2. CASE GetInfo(c)
      BY <3>2 DEF TypeOK, GetInfo
    <3>3. CASE LinkFlips(c)
      <4>1. breaks + 1 \in 0..MaxBreaks
        BY <3>3 DEF TypeOK, LinkFlips
      <4>2. link' \in [Cube -> BOOLEAN]
        BY <3>3, Zenon DEF TypeOK, LinkFlips
      <4> QED
        BY <3>3, <4>1, <4>2 DEF TypeOK, LinkFlips
    <3> QED
      BY <1>2, <3>1, <3>2, <3>3
  <2>2. TwoNames' /\ SubscribedOpen' /\ Counted'
    BY <1>2 DEF TwoNames, SubscribedOpen, Counted,
         liz_mqtt_start, mqtt_connect_callback, mqtt_online_callback, GetInfo, LinkFlips
  <2> QED
    BY <2>1, <2>2
<1>3. ASSUME NEW c \in Cube, Accept(c)
      PROVE  IInv'
  <2>1. TypeOK'
    <3>1. /\ session' \in [Cube -> BOOLEAN] /\ subscribed' \in [Cube -> BOOLEAN]
          /\ inbox' \in [Cube -> 0..MaxBeats]
      BY <1>3 DEF TypeOK, Accept
    <3> QED
      BY <1>3, <3>1 DEF TypeOK, Accept
  <2>2. TwoNames' /\ SubscribedOpen'
    BY <1>3 DEF TypeOK, TwoNames, SubscribedOpen, Accept, cid
  <2>3. Counted'
    BY <1>3 DEF TypeOK, Counted, Accept
  <2> QED
    BY <2>1, <2>2, <2>3
<1>4. ASSUME NEW c \in Cube, Subscribe(c)
      PROVE  IInv'
  BY <1>4 DEF TypeOK, TwoNames, SubscribedOpen, Counted, Subscribe
<1>5. ASSUME NEW c \in Cube, mqtt_offline_callback(c) \/ Break(c)
      PROVE  IInv'
  <2>1. TypeOK'
    <3>1. 0 \in 0..MaxBeats
      OBVIOUS
    <3>2. CASE mqtt_offline_callback(c)
      BY <3>1, <3>2 DEF TypeOK, mqtt_offline_callback
    <3>3. CASE Break(c)
      <4>1. breaks + 1 \in 0..MaxBreaks
        BY <3>3 DEF TypeOK, Break
      <4> QED
        BY <3>1, <3>3, <4>1 DEF TypeOK, Break
    <3> QED
      BY <1>5, <3>2, <3>3
  <2>2. TwoNames' /\ SubscribedOpen'
    BY <1>5 DEF TypeOK, TwoNames, SubscribedOpen, mqtt_offline_callback, Break
  <2>3. Counted'
    BY <1>5 DEF TypeOK, Counted, mqtt_offline_callback, Break
  <2> QED
    BY <2>1, <2>2, <2>3
<1>6. ASSUME NEW c \in Cube, liz_mqtt_publish(c) \/ MQTTPublish(c)
      PROVE  IInv'
  <2>1. Counted'
    BY <1>6 DEF TypeOK, Counted, liz_mqtt_publish, MQTTPublish
  <2>2. outbox[c] + 1 <= MaxBeats \/ ~publishing[c]
    BY DEF TypeOK, Counted
  <2>3. TypeOK'
    <3>1. CASE liz_mqtt_publish(c)
      <4>1. beats[c] + 1 \in 0..MaxBeats
        BY <3>1 DEF TypeOK, liz_mqtt_publish
      <4> QED
        BY <3>1, <4>1 DEF TypeOK, liz_mqtt_publish
    <3>2. CASE MQTTPublish(c)
      <4>1. outbox[c] + 1 \in 0..MaxBeats
        BY <2>2, <3>2 DEF TypeOK, MQTTPublish
      <4> QED
        BY <3>2, <4>1 DEF TypeOK, MQTTPublish
    <3> QED
      BY <1>6, <3>1, <3>2
  <2>4. TwoNames' /\ SubscribedOpen'
    BY <1>6 DEF TwoNames, SubscribedOpen, liz_mqtt_publish, MQTTPublish
  <2> QED
    BY <2>1, <2>3, <2>4
<1>7. ASSUME NEW c \in Cube, Forward(c)
      PROVE  IInv'
  <2>1. /\ outbox' = [outbox EXCEPT ![c] = @ - 1] /\ outbox[c] > 0
        /\ \A d \in Cube : inbox'[d] \in {inbox[d], IF d = Other(c) THEN inbox[d] + 1 ELSE inbox[d]}
        /\ inbox' \in [Cube -> Nat]
    BY <1>7, AudienceIsOther DEF Forward, TypeOK
  <2>2. inbox[Other(c)] + 1 <= MaxBeats
    BY <1>7 DEF Forward, TypeOK, Counted
  <2>3. inbox' \in [Cube -> 0..MaxBeats]
    BY <2>1, <2>2 DEF TypeOK
  <2>4. TypeOK'
    BY <1>7, <2>3 DEF TypeOK, Forward
  <2>5. Counted'
    BY <1>7, <2>1 DEF TypeOK, Counted, Forward
  <2>6. TwoNames' /\ SubscribedOpen'
    BY <1>7 DEF TwoNames, SubscribedOpen, Forward
  <2> QED
    BY <2>4, <2>5, <2>6
<1>8. ASSUME NEW c \in Cube, mqtt_sub_cb(c)
      PROVE  IInv'
  <2>1. TypeOK'
    BY <1>8 DEF TypeOK, mqtt_sub_cb
  <2>2. TwoNames' /\ SubscribedOpen' /\ Counted'
    BY <1>8 DEF TypeOK, TwoNames, SubscribedOpen, Counted, mqtt_sub_cb
  <2> QED
    BY <2>1, <2>2
<1> QED
  BY <1>1, <1>2, <1>3, <1>4, <1>5, <1>6, <1>7, <1>8 DEF Next, Client

(* The types hold, and no more beats are about than were published.          *)
THEOREM LinkTypes == Spec => []TypeOK
<1>1. IInv => TypeOK
  BY DEF IInv
<1> QED
  BY InitIInv, NextIInv, <1>1, PTL DEF Spec

-----------------------------------------------------------------------------
(* The mapping, cube by cube.                                                *)
OnWay == [c \in Cube |-> outbox[c] + inbox[Other(c)]]

LEMMA StepSimulates ==
  IInv /\ IInv' /\ [Next]_vars => [Channel!ChannelNext]_(Channel!channelVars)
<1> SUFFICES ASSUME IInv, IInv', [Next]_vars
             PROVE  Channel!ChannelNext \/ UNCHANGED <<OnWay, inter, Up>>
  BY DEF Channel!channelVars, OnWay
<1> USE LinkAssumption, Others
<1>0. /\ Up \in BOOLEAN /\ Up' \in BOOLEAN
      /\ \A c \in Cube : OnWay[c] \in Nat /\ OnWay'[c] \in Nat
      /\ \A c \in Cube : /\ OnWay[c] = outbox[c] + inbox[Other(c)]
                         /\ OnWay'[c] = outbox'[c] + inbox'[Other(c)]
      /\ DOMAIN OnWay = Cube /\ DOMAIN OnWay' = Cube
  BY DEF IInv, TypeOK, Up, OnWay
<1>1. ASSUME \A c \in Cube : OnWay'[c] = OnWay[c]
      PROVE  OnWay' = OnWay
  BY <1>1 DEF OnWay
<1>2. ASSUME OnWay' = OnWay, inter' = inter
      PROVE  Channel!ChannelNext
  BY <1>0, <1>2 DEF Channel!ChannelNext, Channel!Connection, OnWay
<1>3. ASSUME inter' = inter, ~(Up /\ Up'),
             \A c \in Cube : OnWay'[c] <= OnWay[c]
      PROVE  Channel!ChannelNext
  <2>1. \A c \in Cube : OnWay'[c] \in 0..OnWay[c]
    BY <1>0, <1>3
  <2> QED
    BY <1>0, <1>3, <2>1 DEF Channel!ChannelNext, Channel!Connection, OnWay
<1>4. CASE UNCHANGED vars
  BY <1>4 DEF vars, OnWay, Up
(* Steps that move no beat and raise no flag.                                *)
<1>5. ASSUME NEW c \in Cube,
             \/ liz_mqtt_start(c) \/ mqtt_connect_callback(c) \/ Subscribe(c)
             \/ mqtt_online_callback(c) \/ liz_mqtt_publish(c) \/ LinkFlips(c)
      PROVE  Channel!ChannelNext
  BY <1>2, <1>5 DEF OnWay, liz_mqtt_start, mqtt_connect_callback, Subscribe,
       mqtt_online_callback, liz_mqtt_publish, LinkFlips
(* Steps after which one cube cannot hear: what it had is lost.              *)
<1>6. ASSUME NEW c \in Cube, Accept(c) \/ mqtt_offline_callback(c) \/ Break(c)
      PROVE  Channel!ChannelNext
  <2>1. ~Up'
    BY <1>6 DEF Up, IInv, TypeOK, Accept, mqtt_offline_callback, Break
  <2>2. outbox' = outbox /\ inter' = inter /\ \A d \in Cube : inbox'[d] <= inbox[d]
    BY <1>6 DEF IInv, TypeOK, Accept, mqtt_offline_callback, Break
  <2>3. \A d \in Cube : OnWay'[d] <= OnWay[d]
    BY <1>0, <2>2 DEF IInv, TypeOK
  <2> QED
    BY <1>3, <2>1, <2>2, <2>3
<1>7. ASSUME NEW c \in Cube, MQTTPublish(c)
      PROVE  Channel!ChannelNext
  <2>1. \A d \in Cube : OnWay'[d] = IF d = c THEN OnWay[d] + 1 ELSE OnWay[d]
    BY <1>0, <1>7 DEF IInv, TypeOK, MQTTPublish
  <2>2. OnWay' = [OnWay EXCEPT ![c] = @ + 1]
    BY <1>0, <2>1 DEF OnWay
  <2>3. inter' = inter /\ Up' = Up
    BY <1>7 DEF MQTTPublish, Up
  <2> QED
    BY <2>2, <2>3 DEF Channel!ChannelNext, Channel!Send, OnWay
<1>8. ASSUME NEW c \in Cube, Forward(c)
      PROVE  Channel!ChannelNext
  <2>1. /\ inter' = inter /\ Up' = Up
        /\ outbox' = [outbox EXCEPT ![c] = @ - 1] /\ outbox[c] > 0
    BY <1>8 DEF Forward, Up
  <2>2. CASE Up
    <3>1. session[c] /\ Audience(c) = {Other(c)}
      BY <2>2, AudienceIsOther DEF Up, IInv, TwoNames
    <3>2. \A d \in Cube : inbox'[d] = IF d = Other(c) THEN inbox[d] + 1 ELSE inbox[d]
      BY <1>8, <3>1 DEF Forward
    <3>3. \A d \in Cube : OnWay'[d] = OnWay[d]
      BY <1>0, <2>1, <3>2 DEF IInv, TypeOK
    <3> QED
      BY <1>1, <1>2, <2>1, <3>3
  <2>3. CASE ~Up
    <3>1. \A d \in Cube : inbox'[d] <= IF d = Other(c) THEN inbox[d] + 1 ELSE inbox[d]
      BY <1>8, AudienceIsOther DEF Forward, IInv, TypeOK
    <3>2. \A d \in Cube : OnWay'[d] <= OnWay[d]
      BY <1>0, <2>1, <3>1 DEF IInv, TypeOK
    <3> QED
      BY <1>3, <2>1, <2>3, <3>2
  <2> QED
    BY <2>2, <2>3
<1>9. ASSUME NEW c \in Cube, mqtt_sub_cb(c)
      PROVE  Channel!ChannelNext
  <2>1. OnWay[Other(c)] > 0
    BY <1>0, <1>9 DEF IInv, TypeOK, mqtt_sub_cb
  <2>2. \A d \in Cube : OnWay'[d] = IF d = Other(c) THEN OnWay[d] - 1 ELSE OnWay[d]
    BY <1>0, <1>9 DEF IInv, TypeOK, mqtt_sub_cb
  <2>3. OnWay' = [OnWay EXCEPT ![Other(c)] = @ - 1]
    BY <1>0, <2>2 DEF OnWay
  <2>4. inter' = [inter EXCEPT ![c] = 1] /\ Up' = Up
    BY <1>9 DEF mqtt_sub_cb, Up
  <2> QED
    BY <2>1, <2>3, <2>4 DEF Channel!ChannelNext, Channel!Arrive, OnWay
<1>10. ASSUME NEW c \in Cube, GetInfo(c)
       PROVE  Channel!ChannelNext
  <2>1. OnWay' = OnWay /\ Up' = Up /\ inter' = [inter EXCEPT ![c] = 0]
    BY <1>10 DEF GetInfo, OnWay, Up
  <2> QED
    BY <2>1 DEF Channel!ChannelNext, Channel!Feel, OnWay
<1> QED
  BY <1>4, <1>5, <1>6, <1>7, <1>8, <1>9, <1>10 DEF Next, Client

(* The two cubes and the broker implement the channel.                       *)
THEOREM ChannelImplemented == Spec => ImplementsChannel
<1>1. Init => Channel!ChannelInit
  BY Others DEF Init, Channel!ChannelInit, Up
<1> QED
  BY InitIInv, NextIInv, StepSimulates, <1>1, PTL
     DEF Spec, ImplementsChannel, Channel!ChannelSpec
=============================================================================
