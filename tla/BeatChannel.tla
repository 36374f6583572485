----------------------------- MODULE BeatChannel -----------------------------
(***************************************************************************)
(* What two people with a cube each are promised: a beat sent on one cube  *)
(* reaches the other, at most once and never its sender, and is lost only  *)
(* if the two are not both connected, before or after the loss.            *)
(***************************************************************************)
EXTENDS Naturals

Cube == {1, 2}
Other(c) == 3 - c

VARIABLES
  onway,   \* beats of each cube that are on their way to the other
  flag,    \* the cube has been told of a beat
  up       \* both are connected

channelVars == <<onway, flag, up>>

ChannelInit ==
  /\ onway = [c \in Cube |-> 0]
  /\ flag = [c \in Cube |-> 0]
  /\ up = FALSE

Send(c) ==
  /\ onway' = [onway EXCEPT ![c] = @ + 1]
  /\ UNCHANGED <<flag, up>>

Arrive(c) ==
  /\ onway[Other(c)] > 0
  /\ onway' = [onway EXCEPT ![Other(c)] = @ - 1]
  /\ flag' = [flag EXCEPT ![c] = 1]
  /\ UNCHANGED up

Feel(c) ==
  /\ flag' = [flag EXCEPT ![c] = 0]
  /\ UNCHANGED <<onway, up>>

(* The connection comes, goes or stays; beats are lost only without it.      *)
Connection ==
  /\ up' \in BOOLEAN
  /\ \/ UNCHANGED onway
     \/ /\ ~(up /\ up')
        /\ DOMAIN onway' = Cube
        /\ \A c \in Cube : onway'[c] \in 0..onway[c]
  /\ UNCHANGED flag

ChannelNext ==
  \/ Connection
  \/ \E c \in Cube : Send(c) \/ Arrive(c) \/ Feel(c)

ChannelSpec == ChannelInit /\ [][ChannelNext]_channelVars
=============================================================================
